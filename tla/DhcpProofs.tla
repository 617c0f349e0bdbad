----------------------------- MODULE DhcpProofs -----------------------------
(***************************************************************************)
(* Proofs about Dhcp, for every network of servers and clients, cyclic     *)
(* ones included, for every choice of pools and times and every bound.     *)
(***************************************************************************)
EXTENDS Dhcp, TLAPS

-----------------------------------------------------------------------------
(***************************************************************************)
(* Types.                                                                  *)
(***************************************************************************)

\* The sets the constants make up (what is typed at a server is in Addresses).
LEMMA ConstantTypes ==
  /\ Servers \subseteq Machines /\ Clients \subseteq Machines
  /\ Addresses \subseteq Nat /\ 0 \notin Addresses
  /\ \A s \in Servers : \A block \in Blocks[s] : block \subseteq Addresses
  /\ \A m \in Machines : Neighbours[m] \subseteq Machines
  /\ \A m \in Machines : Times[m] \subseteq Time
  /\ 0 \in Time /\ Time \subseteq Nat
<1>1. (\A m \in Machines : Times[m] \subseteq Time) /\ 0 \in Time /\ Time \subseteq Nat
  BY InputAssumption DEF Time
<1>2. \A s \in Servers : Blocks[s] \in SUBSET SUBSET (Nat \ {0})
  BY InputAssumption
<1>3. Addresses \subseteq Nat /\ 0 \notin Addresses
  BY <1>2 DEF Addresses
<1>4. QED
  BY <1>1, <1>3, MachinesAssumption DEF Machines, Addresses

\* populate_frame makes a frame.
LEMMA FrameType ==
  ASSUME NEW type \in Types, NEW mac \in Macs, NEW ip \in Addresses \cup {0}, NEW time \in Time
  PROVE  /\ Frame(type, mac, ip, time) \in Frames
         /\ Frame(type, mac, ip, time).type = type
         /\ Frame(type, mac, ip, time).mac = mac
         /\ Frame(type, mac, ip, time).ip = ip
  BY DEF Frame, Frames

\* What a thread has still to send is a set of parcels.
LEMMA OutType ==
  ASSUME TypeOK, NEW m \in Machines, NEW t \in Threads, NEW P \in SUBSET Parcels,
         out' = [out EXCEPT ![m][t] = P]
  PROVE  out' \in [Machines -> [Threads -> SUBSET Parcels]]
  BY DEF TypeOK

LEMMA SendToType ==
  ASSUME TypeOK, NEW m \in Machines, NEW t \in Threads, NEW S, S \subseteq Machines,
         NEW f \in Frames, SendTo(m, t, S, f)
  PROVE  out' \in [Machines -> [Threads -> SUBSET Parcels]]
<1>1. {[to |-> n, frame |-> f] : n \in S} \in SUBSET Parcels
  BY DEF Parcels
<1>2. QED
  BY <1>1 DEF SendTo, TypeOK

\* The frame received is one, and the channels stay channels.
LEMMA ReceiveType ==
  ASSUME TypeOK, NEW m \in Machines, NEW n \in Machines, NEW T, Receive(m, n, T)
  PROVE  /\ Head(net[m][n]) \in Frames /\ Head(net[m][n]).type \in T
         /\ net' \in [Machines -> [Machines -> Seq(Frames)]]
         /\ alive' \in SUBSET Machines
         /\ typed' \in [Machines -> [Commands -> Nat]]
<1>1. net[m][n] \in Seq(Frames) /\ net[m][n] # <<>>
  BY DEF TypeOK, Receive
<1>2. Head(net[m][n]) \in Frames /\ Tail(net[m][n]) \in Seq(Frames)
  BY <1>1
<1>3. QED
  BY <1>2 DEF Receive, TypeOK

\* The counter of what is typed stays a number; the rest of the wire is as it was.
LEMMA TypeType ==
  ASSUME TypeOK, NEW m \in Machines, NEW op \in Commands, Type(m, op)
  PROVE  /\ typed' \in [Machines -> [Commands -> Nat]]
         /\ net' \in [Machines -> [Machines -> Seq(Frames)]]
         /\ alive' \in SUBSET Machines
  BY DEF Type, TypeOK

\* The entries that handlers write are entries, and stay so field by field.
LEMMA EntryTypes ==
  /\ FreeEntry \in Entries
  /\ \A mac \in Macs, waiting \in BOOLEAN, ttl \in Time : Granted(mac, waiting, ttl) \in Entries
  BY ConstantTypes DEF FreeEntry, Granted, Entries, Macs

LEMMA FieldType ==
  ASSUME NEW e \in Entries, NEW to \in Entries, NEW field \in Fields
  PROVE  [e EXCEPT ![field] = to[field]] \in Entries
<1>1. CASE field = "allocated"
  BY <1>1 DEF Entries
<1>2. CASE field = "waiting"
  BY <1>2 DEF Entries
<1>3. CASE field = "mac"
  BY <1>3 DEF Entries
<1>4. CASE field = "ttl"
  BY <1>4 DEF Entries
<1>5. QED
  BY <1>1, <1>2, <1>3, <1>4 DEF Fields

\* The orders in which the code writes the fields.
LEMMA OrderTypes ==
  /\ <<"waiting", "ttl">> \in Seq(Fields) \ {<<>>} /\ <<"ttl">> \in Seq(Fields) \ {<<>>}
  /\ <<"ttl", "allocated", "waiting", "mac">> \in Seq(Fields) \ {<<>>}
  /\ <<"waiting", "allocated", "ttl", "mac">> \in Seq(Fields) \ {<<>>}
  /\ <<"allocated", "waiting", "ttl", "mac">> \in Seq(Fields) \ {<<>>}
  /\ <<"allocated", "ttl", "mac", "waiting">> \in Seq(Fields) \ {<<>>}
  BY DEF Fields

\* A thread writes what it may.
LEMMA WriteType ==
  ASSUME TypeOK, NEW s \in Servers, NEW t \in Threads, NEW a \in Addresses,
         NEW to \in Entries, NEW order \in Seq(Fields) \ {<<>>},
         NEW answer \in SUBSET Parcels, Write(s, t, a, to, order, answer)
  PROVE  writing' \in [Servers -> [Threads -> Writes]]
<1>1. [ip |-> a, to |-> to, left |-> order, answer |-> answer] \in Writes
  BY DEF Writes
<1>2. QED
  BY <1>1 DEF Write, TypeOK

\* What is written is a whole record while it is written.
LEMMA WritesType ==
  ASSUME TypeOK, NEW s \in Servers, NEW t \in Threads, writing[s][t] # Nothing
  PROVE  /\ writing[s][t] \in [ip : Addresses, to : Entries, left : Seq(Fields) \ {<<>>},
                                answer : SUBSET Parcels]
         /\ Head(writing[s][t].left) \in Fields
         /\ Len(writing[s][t].left) # 1 => Tail(writing[s][t].left) \in Seq(Fields) \ {<<>>}
<1>1. writing[s][t] \in [ip : Addresses, to : Entries, left : Seq(Fields) \ {<<>>},
                          answer : SUBSET Parcels]
  BY DEF TypeOK, Writes
<1>2. writing[s][t].left \in Seq(Fields) /\ writing[s][t].left # <<>>
  BY <1>1
<1>3. \A l \in Seq(Fields) : l # <<>> => Head(l) \in Fields /\ Len(l) \in Nat
                                       /\ Tail(l) \in Seq(Fields) /\ Len(Tail(l)) = Len(l) - 1
  OBVIOUS
<1>4. Len(<<>>) = 0
  OBVIOUS
<1>5. \A l \in Seq(Fields) : l # <<>> /\ Len(l) # 1 => Tail(l) # <<>>
  <2> SUFFICES ASSUME NEW l \in Seq(Fields), l # <<>>, Tail(l) = <<>> PROVE Len(l) = 1
    OBVIOUS
  <2>1. Len(l) - 1 = 0 /\ Len(l) \in Nat
    BY <1>3, <1>4
  <2>2. QED
    BY <2>1
<1>6. QED
  BY <1>1, <1>2, <1>3, <1>5

\* Taking an address out of a client's vector leaves a number of it.
LEMMA WithoutType ==
  ASSUME NEW bag \in [Addresses \cup {0} -> Nat], NEW a \in Addresses \cup {0}
  PROVE  Without(a, bag) \in [Addresses \cup {0} -> Nat]
  BY DEF Without

\* Empty pools, vectors and channels have their types.
LEMMA TypeInit == Init => TypeOK
<1> SUFFICES ASSUME Init PROVE TypeOK
  OBVIOUS
<1>1. FreeEntry \in Entries
  BY EntryTypes
<1>2. net \in [Machines -> [Machines -> Seq(Frames)]]
  BY DEF Init
<1>3. ips \in [Clients -> [Addresses \cup {0} -> Nat]]
  BY DEF Init
<1>4. entry \in [Servers -> [Addresses -> Entries]]
  BY <1>1 DEF Init
<1>5. out \in [Machines -> [Threads -> SUBSET Parcels]]
  BY DEF Init
<1>6. typed \in [Machines -> [Commands -> Nat]]
  BY DEF Init
<1>7. pool \in [Servers -> SUBSET Addresses] /\ alive \in SUBSET Machines
  BY DEF Init
<1>8. /\ due \in [Servers -> SUBSET [ip : Addresses, ttl : Time]]
      /\ told \in [Servers -> SUBSET [ip : Addresses, ttl : Time]]
  BY DEF Init
<1>9. /\ offers \in [Clients -> SUBSET [ip : Addresses \cup {0}, time : Time]]
      /\ extending \in [Clients -> Addresses \cup {0}]
  BY DEF Init
<1>10. writing \in [Servers -> [Threads -> Writes]]
  BY DEF Init, Writes
<1>11. /\ adding \in [Servers -> SUBSET Addresses] /\ search \in [Servers -> SUBSET Searches]
       /\ count \in [Servers -> SUBSET Counts]
  BY DEF Init
<1>12. QED
  BY <1>2, <1>3, <1>4, <1>5, <1>6, <1>7, <1>8, <1>9, <1>10, <1>11 DEF TypeOK

\* A thread of a server writes a field, and answers when it is the last.
LEMMA TypeWriteField ==
  ASSUME TypeOK, NEW s \in Servers, NEW t \in Threads, WriteField(s, t)
  PROVE  TypeOK'
<1> DEFINE w == writing[s][t]
<1>1. /\ w \in [ip : Addresses, to : Entries, left : Seq(Fields) \ {<<>>}, answer : SUBSET Parcels]
      /\ Head(w.left) \in Fields
      /\ Len(w.left) # 1 => Tail(w.left) \in Seq(Fields) \ {<<>>}
  BY WritesType DEF WriteField
<1>2. w.ip \in Addresses /\ w.to \in Entries /\ w.answer \in SUBSET Parcels
  BY <1>1
<1>3. entry' \in [Servers -> [Addresses -> Entries]]
  <2> DEFINE e == [entry[s][w.ip] EXCEPT ![Head(w.left)] = w.to[Head(w.left)]]
  <2>1. e \in Entries
    <3>1. entry[s][w.ip] \in Entries
      BY <1>2 DEF TypeOK
    <3> HIDE DEF w
    <3>2. QED
      BY <1>1, <1>2, <3>1, FieldType
  <2>2. entry' = [entry EXCEPT ![s][w.ip] = e]
    BY DEF WriteField
  <2> HIDE DEF e, w
  <2>3. QED
    BY <1>2, <2>1, <2>2 DEF TypeOK
<1>4. writing' \in [Servers -> [Threads -> Writes]]
  <2> DEFINE v == IF Len(w.left) = 1 THEN Nothing ELSE [w EXCEPT !.left = Tail(@)]
  <2>1. v \in Writes
    <3> HIDE DEF w
    <3>1. QED
      BY <1>1 DEF Writes
  <2>2. writing' = [writing EXCEPT ![s][t] = v]
    BY DEF WriteField
  <2> HIDE DEF v
  <2>3. QED
    BY <2>1, <2>2 DEF TypeOK
<1>5. out' \in [Machines -> [Threads -> SUBSET Parcels]]
  <2>1. out' = out \/ out' = [out EXCEPT ![s][t] = w.answer]
    BY DEF WriteField
  <2>2. s \in Machines /\ out \in [Machines -> [Threads -> SUBSET Parcels]]
    BY ConstantTypes DEF TypeOK
  <2> HIDE DEF w
  <2>3. QED
    BY <1>2, <2>1, <2>2, OutType
<1>6. QED
  BY <1>3, <1>4, <1>5 DEF WriteField, timing, client, TypeOK

\* The walk of a server's main thread.
LEMMA TypeSearch ==
  ASSUME TypeOK, NEW s \in Servers, Pass(s) \/ Grant(s) \/ Cancel(s) \/ GiveUp(s)
  PROVE  TypeOK'
<1> USE DEF timing, client, leases
<1>1. s \in Machines /\ pool[s] \subseteq Addresses /\ "main" \in Threads
  BY ConstantTypes DEF TypeOK, Threads
<1>2. ASSUME NEW q \in search[s]
      PROVE  /\ q.for \in {"OFFER", "RESPONSE_EXTEND", "ACK"} /\ q.mac \in Macs
             /\ q.time \in Time /\ q.back \in Machines /\ q \in Searches
  BY <1>2 DEF TypeOK, Searches
<1>3. ASSUME NEW q \in search[s], NEW a \in Addresses \cup {0}
      PROVE  To(q.back, Frame(q.for, q.mac, a, q.time)) \in SUBSET Parcels
  <2>1. Frame(q.for, q.mac, a, q.time) \in Frames
    BY <1>2, FrameType DEF Types
  <2>2. QED
    BY <1>2, <2>1 DEF To, Parcels
<1>4. search' = [search EXCEPT ![s] = {}] => search' \in [Servers -> SUBSET Searches]
  BY DEF TypeOK
<1>5. CASE Pass(s)
  <2>1. PICK q \in search[s], a \in pool[s] : search' = [search EXCEPT ![s] = {[q EXCEPT !.at = a]}]
    BY <1>5 DEF Pass
  <2>2. [q EXCEPT !.at = a] \in Searches
    BY <1>1, <1>2 DEF Searches
  <2>3. search' \in [Servers -> SUBSET Searches]
    BY <2>1, <2>2 DEF TypeOK
  <2>4. QED
    BY <1>5, <2>3 DEF Pass, TypeOK
<1>6. CASE Grant(s)
  <2>1. PICK q \in search[s], a \in pool[s] : \E order \in Seq(Fields) \ {<<>>} :
           Write(s, "main", a, Granted(q.mac, q.for = "OFFER", q.time), order,
                 To(q.back, Frame(q.for, q.mac, a, q.time)))
    BY <1>6, OrderTypes DEF Grant
  <2>2. Granted(q.mac, q.for = "OFFER", q.time) \in Entries
    BY <1>2, EntryTypes
  <2>3. writing' \in [Servers -> [Threads -> Writes]]
    BY <1>1, <1>3, <2>1, <2>2, WriteType
  <2>4. QED
    BY <1>4, <1>6, <2>3 DEF Grant, TypeOK
<1>7. CASE Cancel(s)
  <2>1. PICK a \in pool[s] :
           Write(s, "main", a, FreeEntry, <<"waiting", "allocated", "ttl", "mac">>, {})
    BY <1>7 DEF Cancel
  <2>2. writing' \in [Servers -> [Threads -> Writes]]
    <3>1. a \in Addresses /\ {} \in SUBSET Parcels
      BY <1>1
    <3>2. QED
      BY <1>1, <2>1, <3>1, EntryTypes, OrderTypes, WriteType
  <2>3. QED
    BY <1>4, <1>7, <2>2 DEF Cancel, TypeOK
<1>8. CASE GiveUp(s)
  <2>1. PICK q \in search[s] :
           IF q.for = "ACK" THEN UNCHANGED out
           ELSE out' = [out EXCEPT ![s]["main"] = To(q.back, Frame(q.for, q.mac, 0, q.time))]
    BY <1>8 DEF GiveUp
  <2> DEFINE answer == To(q.back, Frame(q.for, q.mac, 0, q.time))
  <2>2. answer \in SUBSET Parcels
    BY <1>3
  <2>3. out' \in [Machines -> [Threads -> SUBSET Parcels]]
    <3>1. out' = out \/ out' = [out EXCEPT ![s]["main"] = answer]
      BY <2>1
    <3> HIDE DEF answer
    <3>2. out \in [Machines -> [Threads -> SUBSET Parcels]]
      BY DEF TypeOK
    <3>3. QED
      BY <1>1, <2>2, <3>1, <3>2, OutType
  <2>4. QED
    BY <1>4, <1>8, <2>3 DEF GiveUp, TypeOK
<1>9. QED
  BY <1>5, <1>6, <1>7, <1>8

\* Steps of a server's main thread.
LEMMA TypeServer ==
  ASSUME TypeOK, NEW s \in Servers, Server(s)
  PROVE  TypeOK'
<1> USE DEF timing, client, leases
<1>1. s \in Machines /\ "main" \in Threads /\ pool[s] \subseteq Addresses
  BY ConstantTypes DEF Threads, TypeOK
<1>2. \A n \in Machines : \A T : Receive(s, n, T) =>
         /\ Head(net[s][n]) \in Frames /\ Head(net[s][n]).type \in T
         /\ net' \in [Machines -> [Machines -> Seq(Frames)]]
         /\ alive' \in SUBSET Machines
         /\ typed' \in [Machines -> [Commands -> Nat]]
  BY <1>1, ReceiveType
<1>3. \A f \in Frames : f.mac \in Macs /\ f.ip \in Addresses \cup {0} /\ f.time \in Time
  BY DEF Frames
<1>4. ASSUME NEW n \in Machines, NEW for \in {"OFFER", "RESPONSE_EXTEND", "ACK"}, NEW mac \in Macs,
             NEW time \in Time, StartSearch(s, n, for, mac, time)
      PROVE  search' \in [Servers -> SUBSET Searches]
  <2>1. [for |-> for, mac |-> mac, time |-> time, back |-> n, at |-> 0] \in Searches
    BY DEF Searches
  <2>2. QED
    BY <1>4, <2>1 DEF StartSearch, TypeOK
<1>5. ASSUME NEW a \in pool[s], Write(s, "main", a, FreeEntry, <<"ttl", "allocated", "waiting", "mac">>, {})
      PROVE  writing' \in [Servers -> [Threads -> Writes]]
  <2>1. a \in Addresses /\ {} \in SUBSET Parcels
    BY <1>1
  <2>2. QED
    BY <1>1, <1>5, <2>1, EntryTypes, OrderTypes, WriteType
<1>6. ASSUME NEW n \in Machines, HandleDiscover(s, n) PROVE TypeOK'
  <2>1. Receive(s, n, {"DISCOVER"}) /\ UNCHANGED <<leases, adding, writing, timing, client, out>>
    BY <1>6 DEF HandleDiscover
  <2>2. search' \in [Servers -> SUBSET Searches]
    BY <1>2, <1>3, <1>4, <1>6, <2>1 DEF HandleDiscover
  <2>3. QED
    BY <1>2, <2>1, <2>2 DEF TypeOK
<1>7. ASSUME NEW n \in Machines, HandleAck(s, n) PROVE TypeOK'
  <2>1. Receive(s, n, {"ACK"}) /\ UNCHANGED <<leases, adding, writing, timing, client, out>>
    BY <1>7 DEF HandleAck
  <2>2. search' \in [Servers -> SUBSET Searches]
    BY <1>2, <1>3, <1>4, <1>7, <2>1, ConstantTypes DEF HandleAck
  <2>3. QED
    BY <1>2, <2>1, <2>2 DEF TypeOK
<1>8. ASSUME NEW n \in Machines, HandleRequest(s, n) PROVE TypeOK'
  <2> DEFINE f == Head(net[s][n])
             e == [entry[s][f.ip] EXCEPT !.waiting = FALSE, !.ttl = f.time]
             answer == To(n, Frame("ACK", f.mac, f.ip, f.time))
  <2>1. Receive(s, n, {"REQUEST"}) /\ UNCHANGED <<leases, adding, search, timing, client, out>>
    BY <1>8 DEF HandleRequest
  <2>2. f \in Frames
    BY <1>2, <2>1
  <2>3. ASSUME f.ip \in pool[s], Write(s, "main", f.ip, e, <<"waiting", "ttl">>, answer)
        PROVE  writing' \in [Servers -> [Threads -> Writes]]
    <3>1. f.ip \in Addresses /\ f.time \in Time
      BY <1>1, <1>3, <2>2, <2>3
    <3>2. e \in Entries
      <4>1. entry[s][f.ip] \in Entries
        BY <3>1 DEF TypeOK
      <4>2. QED
        BY <3>1, <4>1 DEF Entries
    <3>3. answer \in SUBSET Parcels
      <4>1. Frame("ACK", f.mac, f.ip, f.time) \in Frames
        BY <1>3, <2>2, FrameType DEF Types
      <4>2. QED
        BY <4>1 DEF To, Parcels
    <3> HIDE DEF e, f, answer
    <3>4. QED
      BY <1>1, <2>3, <3>1, <3>2, <3>3, OrderTypes, WriteType
  <2>4. writing' \in [Servers -> [Threads -> Writes]]
    <3>1. UNCHANGED writing => writing' \in [Servers -> [Threads -> Writes]]
      BY DEF TypeOK
    <3>2. QED
      BY <1>8, <2>3, <3>1 DEF HandleRequest
  <2>5. QED
    BY <1>2, <2>1, <2>4 DEF TypeOK
<1>9. ASSUME NEW n \in Machines, HandleRelease(s, n) PROVE TypeOK'
  <2>1. Receive(s, n, {"RELEASE"}) /\ UNCHANGED <<leases, adding, search, timing, client, out>>
    BY <1>9 DEF HandleRelease
  <2>2. UNCHANGED writing => writing' \in [Servers -> [Threads -> Writes]]
    BY DEF TypeOK
  <2>3. writing' \in [Servers -> [Threads -> Writes]]
    BY <1>5, <1>9, <2>2 DEF HandleRelease
  <2>4. QED
    BY <1>2, <2>1, <2>3 DEF TypeOK
<1>10. ASSUME NEW n \in Machines, HandleRequestExtend(s, n) PROVE TypeOK'
  <2> DEFINE f == Head(net[s][n])
             ttl == (entry[s][f.ip].ttl + (IF f.time = 0 THEN 10 ELSE f.time)) % TimeRange
  <2>1. Receive(s, n, {"REQUEST_EXTEND"}) /\ UNCHANGED <<leases, adding, timing, client, out>>
    BY <1>10 DEF HandleRequestExtend
  <2>2. f \in Frames
    BY <1>2, <2>1
  <2>3. CASE UNCHANGED <<writing, search>>
    BY <1>2, <2>1, <2>3 DEF TypeOK
  <2>4. CASE ~ UNCHANGED <<writing, search>>
    <3>1. /\ f.ip \in pool[s]
          /\ Write(s, "main", f.ip, FreeEntry, <<"ttl", "allocated", "waiting", "mac">>, {})
          /\ StartSearch(s, n, "RESPONSE_EXTEND", f.mac, ttl)
      BY <1>10, <2>4 DEF HandleRequestExtend
    <3>2. ttl \in Time
      <4> HIDE DEF f
      <4>1. entry[s][f.ip].ttl \in Nat /\ f.time \in Nat
        <5>1. f.ip \in Addresses /\ f.time \in Time
          BY <1>1, <1>3, <2>2, <3>1
        <5>2. entry[s][f.ip] \in Entries
          BY <5>1 DEF TypeOK
        <5>3. QED
          BY <5>1, <5>2, ConstantTypes DEF Entries
      <4>2. \A x \in Nat : x % TimeRange \in 0 .. TimeRange - 1
        BY InputAssumption
      <4>3. entry[s][f.ip].ttl + (IF f.time = 0 THEN 10 ELSE f.time) \in Nat
        BY <4>1
      <4>4. QED
        BY <4>2, <4>3 DEF Time
    <3>3. search' \in [Servers -> SUBSET Searches]
      <4> HIDE DEF f, ttl
      <4>1. QED
        BY <1>3, <1>4, <2>2, <3>1, <3>2
    <3>4. writing' \in [Servers -> [Threads -> Writes]]
      BY <1>5, <3>1
    <3>5. QED
      BY <1>2, <2>1, <3>3, <3>4 DEF TypeOK
  <2>5. QED
    BY <2>3, <2>4
<1>11. ASSUME NEW n \in Machines, Drop(s, n) PROVE TypeOK'
  BY <1>2, <1>11 DEF Drop, server, TypeOK
<1>12. Senders(s) \subseteq Machines
  BY DEF Senders
<1>13. QED
  BY <1>1, <1>6, <1>7, <1>8, <1>9, <1>10, <1>11, <1>12, TypeSearch, TypeWriteField DEF Server

\* The first loop of advance_time.
LEMMA TypeCount ==
  ASSUME TypeOK, NEW s \in Servers, CountNext(s) \/ CountTtl(s) \/ CountLate(s) \/ CountDown(s)
  PROVE  TypeOK'
<1> USE DEF timing, client, leases
<1>1. "cmd" \in Threads
  BY DEF Threads
<1> DEFINE Steps == [time : Time, at : Addresses \cup {0},
                     reads : {"allocated", "ttl", "late", "left"}]
<1>2. \A k \in count[s] : k \in Steps
  BY DEF TypeOK, Counts
<1>3. ASSUME NEW k \in count[s]
      PROVE  /\ k.time \in Time /\ k.at \in Addresses \cup {0}
             /\ k.reads # "allocated" => k.at \in Addresses
  BY <1>3 DEF TypeOK, Counts
<1>4. ASSUME NEW k \in count[s], NEW a \in Addresses
      PROVE  /\ [k EXCEPT !.at = a, !.reads = "ttl"] \in Counts
             /\ [k EXCEPT !.at = a, !.reads = "allocated"] \in Counts
  <2>1. k \in Steps
    BY <1>2
  <2>2. /\ [k EXCEPT !.at = a, !.reads = "ttl"]
              \in [time : Time, at : Addresses, reads : {"ttl", "late", "left"}]
        /\ [k EXCEPT !.at = a, !.reads = "allocated"]
              \in [time : Time, at : Addresses \cup {0}, reads : {"allocated"}]
    BY <2>1
  <2>3. QED
    BY <2>2 DEF Counts
<1>5. ASSUME NEW k \in count[s], k.reads # "allocated"
      PROVE  /\ [k EXCEPT !.reads = "late"] \in Counts
             /\ [k EXCEPT !.reads = "left"] \in Counts
             /\ [k EXCEPT !.reads = "allocated"] \in Counts
  <2>1. k \in [time : Time, at : Addresses, reads : {"ttl", "late", "left"}]
    BY <1>5 DEF TypeOK, Counts
  <2>2. /\ [k EXCEPT !.reads = "late"]
              \in [time : Time, at : Addresses, reads : {"ttl", "late", "left"}]
        /\ [k EXCEPT !.reads = "left"]
              \in [time : Time, at : Addresses, reads : {"ttl", "late", "left"}]
        /\ [k EXCEPT !.reads = "allocated"]
              \in [time : Time, at : Addresses \cup {0}, reads : {"allocated"}]
    BY <2>1
  <2>3. QED
    BY <2>2 DEF Counts
<1>6. \A k \in Counts : count' = [count EXCEPT ![s] = {k}] => count' \in [Servers -> SUBSET Counts]
  BY DEF TypeOK
<1>7. ASSUME NEW k \in count[s], k.reads # "allocated" PROVE entry[s][k.at] \in Entries
  BY <1>3, <1>7 DEF TypeOK
<1>8. CASE CountNext(s)
  <2>1. PICK k \in count[s] :
          /\ Counting(s, k)
          /\ \/ \E a \in After(s, k.at) :
                  \/ count' = [count EXCEPT ![s] = {[k EXCEPT !.at = a, !.reads = "ttl"]}]
                  \/ count' = [count EXCEPT ![s] = {[k EXCEPT !.at = a, !.reads = "allocated"]}]
             \/ count' = [count EXCEPT ![s] = {}]
          /\ UNCHANGED <<writing, due>>
    BY Zenon, <1>8 DEF CountNext
  <2>2. After(s, k.at) \subseteq Addresses
    BY DEF After, TypeOK
  <2>3. count' \in [Servers -> SUBSET Counts]
    <3>1. count' = [count EXCEPT ![s] = {}] => count' \in [Servers -> SUBSET Counts]
      BY DEF TypeOK
    <3>2. QED
      BY Zenon, <1>4, <1>6, <2>1, <2>2, <3>1
  <2>4. QED
    BY Zenon, <2>1, <2>3 DEF Counting, TypeOK
<1>9. CASE CountTtl(s)
  <2>1. PICK k \in count[s] :
          /\ Counting(s, k) /\ k.reads = "ttl"
          /\ \/ count' = [count EXCEPT ![s] = {[k EXCEPT !.reads = "late"]}]
             \/ count' = [count EXCEPT ![s] = {[k EXCEPT !.reads = "left"]}]
          /\ UNCHANGED <<writing, due>>
    BY <1>9 DEF CountTtl
  <2>2. count' \in [Servers -> SUBSET Counts]
    BY <1>5, <1>6, <2>1
  <2>3. QED
    BY <2>1, <2>2 DEF Counting, TypeOK
<1>10. CASE CountLate(s)
  <2>1. PICK k \in count[s] :
          /\ Counting(s, k) /\ k.reads = "late"
          /\ due' = [due EXCEPT ![s] = @ \cup {[ip |-> k.at, ttl |-> entry[s][k.at].ttl]}]
          /\ count' = [count EXCEPT ![s] = {[k EXCEPT !.reads = "allocated"]}]
          /\ UNCHANGED writing
    BY <1>10 DEF CountLate
  <2>2. count' \in [Servers -> SUBSET Counts]
    BY <1>5, <1>6, <2>1
  <2>3. [ip |-> k.at, ttl |-> entry[s][k.at].ttl] \in [ip : Addresses, ttl : Time]
    BY <1>3, <1>7, <2>1 DEF Entries
  <2>4. due' \in [Servers -> SUBSET [ip : Addresses, ttl : Time]]
    BY <2>1, <2>3 DEF TypeOK
  <2>5. QED
    BY <2>1, <2>2, <2>4 DEF Counting, TypeOK
<1>11. CASE CountDown(s)
  <2>1. PICK k \in count[s] :
          /\ Counting(s, k) /\ k.reads = "left"
          /\ Write(s, "cmd", k.at,
                   [entry[s][k.at] EXCEPT !.ttl = (@ - k.time) % TimeRange], <<"ttl">>, {})
          /\ count' = [count EXCEPT ![s] = {[k EXCEPT !.reads = "allocated"]}]
          /\ UNCHANGED due
    BY <1>11 DEF CountDown
  <2>2. count' \in [Servers -> SUBSET Counts]
    BY <1>5, <1>6, <2>1
  <2> DEFINE e == [entry[s][k.at] EXCEPT !.ttl = (@ - k.time) % TimeRange]
  <2>3. e \in Entries
    <3>1. entry[s][k.at] \in Entries
      BY <1>7, <2>1
    <3>2. entry[s][k.at].ttl \in Nat /\ k.time \in Nat
      BY <1>3, <3>1, ConstantTypes DEF Entries
    <3>3. (entry[s][k.at].ttl - k.time) % TimeRange \in Time
      BY <3>2, InputAssumption DEF Time
    <3>4. QED
      BY <3>1, <3>3 DEF Entries
  <2>4. writing' \in [Servers -> [Threads -> Writes]]
    <3>1. k.at \in Addresses /\ {} \in SUBSET Parcels
      BY <1>3, <2>1
    <3>2. Write(s, "cmd", k.at, e, <<"ttl">>, {})
      BY <2>1
    <3> HIDE DEF e
    <3>3. QED
      BY <1>1, <2>3, <3>1, <3>2, OrderTypes, WriteType
  <2>5. QED
    BY <2>1, <2>2, <2>4 DEF Counting, TypeOK
<1>12. QED
  BY <1>8, <1>9, <1>10, <1>11

\* Steps of a server's command thread.
LEMMA TypeOperator ==
  ASSUME TypeOK, NEW s \in Servers, Command(s) \/ Operator(s)
  PROVE  TypeOK'
<1> USE DEF timing, client, leases
<1>1. s \in Machines /\ "cmd" \in Threads
  BY ConstantTypes DEF Threads
<1>2. \A op \in Commands : Type(s, op) =>
         /\ typed' \in [Machines -> [Commands -> Nat]]
         /\ net' \in [Machines -> [Machines -> Seq(Frames)]]
         /\ alive' \in SUBSET Machines
  BY <1>1, TypeType
<1>3. ASSUME NEW block \in Blocks[s], AddToPool(s, block) PROVE TypeOK'
  <2>1. adding' \in [Servers -> SUBSET Addresses]
    BY <1>3, ConstantTypes DEF AddToPool, TypeOK
  <2>2. QED
    BY <1>2, <1>3, <2>1 DEF AddToPool, Commands, TypeOK
<1>4. ASSUME Insert(s) PROVE TypeOK'
  <2>1. PICK a \in adding[s] : /\ pool' = [pool EXCEPT ![s] = @ \cup {a}]
                               /\ adding' = [adding EXCEPT ![s] = @ \ {a}]
    BY <1>4 DEF Insert
  <2>2. a \in Addresses
    BY DEF TypeOK
  <2>3. pool' \in [Servers -> SUBSET Addresses] /\ adding' \in [Servers -> SUBSET Addresses]
    BY <2>1, <2>2 DEF TypeOK
  <2>4. QED
    BY <1>4, <2>3 DEF Insert, TypeOK
<1>5. ASSUME NEW time \in Times[s], AdvanceTime(s, time) PROVE TypeOK'
  <2>1. time \in Time
    BY <1>1, ConstantTypes
  <2>2. [time |-> time, at |-> 0, reads |-> "allocated"] \in Counts
    BY <2>1 DEF Counts
  <2>3. count' \in [Servers -> SUBSET Counts]
    BY <1>5, <2>2 DEF AdvanceTime, TypeOK
  <2>4. QED
    BY <1>2, <1>5, <2>3 DEF AdvanceTime, Commands, TypeOK
<1>6. ASSUME TellTimeout(s) PROVE TypeOK'
  <2>1. PICK d \in due[s] :
           /\ told' = [told EXCEPT ![s] = {d}]
           /\ Broadcast(s, "cmd", Frame("TIMEOUT", entry[s][d.ip].mac, d.ip, 0))
    BY <1>6 DEF TellTimeout
  <2>2. d \in [ip : Addresses, ttl : Time]
    BY DEF TypeOK
  <2>3. entry[s][d.ip].mac \in Macs
    BY <2>2 DEF TypeOK, Entries
  <2>4. Frame("TIMEOUT", entry[s][d.ip].mac, d.ip, 0) \in Frames
    BY <2>2, <2>3, ConstantTypes, FrameType DEF Types
  <2>5. out' \in [Machines -> [Threads -> SUBSET Parcels]]
    BY <1>1, <2>1, <2>4, ConstantTypes, SendToType DEF Broadcast
  <2>6. told' \in [Servers -> SUBSET [ip : Addresses, ttl : Time]]
    BY <2>1, <2>2 DEF TypeOK
  <2>7. QED
    BY <1>6, <2>5, <2>6 DEF TellTimeout, TypeOK
<1>7. ASSUME ResetLapsed(s) PROVE TypeOK'
  <2>1. PICK d \in told[s] :
           /\ Write(s, "cmd", d.ip, FreeEntry, <<"waiting", "allocated", "ttl", "mac">>, {})
           /\ due' = [due EXCEPT ![s] = @ \ {d}]
    BY <1>7 DEF ResetLapsed
  <2>2. writing' \in [Servers -> [Threads -> Writes]]
    <3>1. d.ip \in Addresses /\ {} \in SUBSET Parcels
      BY DEF TypeOK
    <3>2. QED
      BY <1>1, <2>1, <3>1, EntryTypes, OrderTypes, WriteType
  <2>3. due' \in [Servers -> SUBSET [ip : Addresses, ttl : Time]]
    BY <2>1 DEF TypeOK
  <2>4. told' \in [Servers -> SUBSET [ip : Addresses, ttl : Time]]
    BY <1>7 DEF ResetLapsed, TypeOK
  <2>5. QED
    BY <1>7, <2>2, <2>3, <2>4 DEF ResetLapsed, TypeOK
<1>8. QED
  BY <1>1, <1>3, <1>4, <1>5, <1>6, <1>7, TypeCount, TypeWriteField DEF Command, Operator

\* Steps of a client's main thread.
LEMMA TypeClient ==
  ASSUME TypeOK, NEW c \in Clients, Client(c)
  PROVE  TypeOK'
<1> USE DEF server, timing, client, leases
<1>1. c \in Machines /\ Neighbours[c] \subseteq Machines
  BY ConstantTypes
<1>2. \A n \in Machines : \A T : Receive(c, n, T) =>
         /\ Head(net[c][n]) \in Frames /\ Head(net[c][n]).type \in T
         /\ net' \in [Machines -> [Machines -> Seq(Frames)]]
         /\ alive' \in SUBSET Machines
         /\ typed' \in [Machines -> [Commands -> Nat]]
  BY <1>1, ReceiveType
<1>3. \A n \in Machines, f \in Frames : SendTo(c, "main", Neighbours[c] \ {n}, f) =>
         out' \in [Machines -> [Threads -> SUBSET Parcels]]
  BY <1>1, SendToType DEF Threads
<1>4. \A f \in Frames : f.ip \in Addresses \cup {0} /\ f.time \in Time
  BY DEF Frames
<1>5. \A bag \in [Addresses \cup {0} -> Nat] : ips' = [ips EXCEPT ![c] = bag] =>
         ips' \in [Clients -> [Addresses \cup {0} -> Nat]]
  BY DEF TypeOK
<1>6. ips[c] \in [Addresses \cup {0} -> Nat] /\ extending[c] \in Addresses \cup {0}
  BY DEF TypeOK
<1>7. ASSUME NEW n \in Machines, Relay(c, n) PROVE TypeOK'
  <2>1. Receive(c, n, Types) /\ SendTo(c, "main", Neighbours[c] \ {n}, Head(net[c][n]))
    BY <1>7 DEF Relay
  <2>2. out' \in [Machines -> [Threads -> SUBSET Parcels]]
    BY <1>2, <1>3, <2>1
  <2>3. QED
    BY <1>2, <1>7, <2>1, <2>2 DEF Relay, TypeOK
<1>8. ASSUME NEW n \in Machines, HandleOffer(c, n) PROVE TypeOK'
  <2> DEFINE f == Head(net[c][n])
  <2>1. Receive(c, n, {"OFFER"})
    BY <1>8 DEF HandleOffer, ReceiveMine
  <2>2. [ip |-> f.ip, time |-> f.time] \in [ip : Addresses \cup {0}, time : Time]
    BY <1>2, <1>4, <2>1
  <2>3. offers' = [offers EXCEPT ![c] = @ \cup {[ip |-> f.ip, time |-> f.time]}]
    BY <1>8 DEF HandleOffer
  <2>4. offers' \in [Clients -> SUBSET [ip : Addresses \cup {0}, time : Time]]
    BY <2>2, <2>3 DEF TypeOK
  <2>5. QED
    BY <1>2, <1>8, <2>1, <2>4 DEF HandleOffer, TypeOK
<1>9. ASSUME NEW n \in Machines, HandleDhcpAck(c, n) PROVE TypeOK'
  <2> DEFINE f == Head(net[c][n])
  <2>1. Receive(c, n, {"ACK"}) /\ SendTo(c, "main", Neighbours[c] \ {n}, f)
    BY <1>9 DEF HandleDhcpAck, ReceiveMine
  <2>2. out' \in [Machines -> [Threads -> SUBSET Parcels]]
    BY <1>2, <1>3, <2>1
  <2>3. f.ip \in Addresses \cup {0}
    BY <1>2, <1>4, <2>1
  <2>4. ips' = [ips EXCEPT ![c][f.ip] = @ + 1]
    BY <1>9 DEF HandleDhcpAck
  <2>5. ips' \in [Clients -> [Addresses \cup {0} -> Nat]]
    <3> HIDE DEF f
    <3>1. [ips[c] EXCEPT ![f.ip] = @ + 1] \in [Addresses \cup {0} -> Nat]
      BY <1>6, <2>3
    <3>2. ips' = [ips EXCEPT ![c] = [ips[c] EXCEPT ![f.ip] = @ + 1]]
      BY <2>4
    <3>3. QED
      BY <1>5, <3>1, <3>2
  <2>6. offers' \in [Clients -> SUBSET [ip : Addresses \cup {0}, time : Time]]
    BY <1>9 DEF HandleDhcpAck, TypeOK
  <2>7. QED
    BY <1>2, <1>9, <2>1, <2>2, <2>5, <2>6 DEF HandleDhcpAck, TypeOK
<1>10. ASSUME NEW n \in Machines, HandleTimeout(c, n) PROVE TypeOK'
  <2>1. Receive(c, n, {"TIMEOUT"})
    BY <1>10 DEF HandleTimeout, ReceiveMine
  <2>2. Without(Head(net[c][n]).ip, ips[c]) \in [Addresses \cup {0} -> Nat]
    BY <1>2, <1>4, <1>6, <2>1, WithoutType
  <2>3. ips' \in [Clients -> [Addresses \cup {0} -> Nat]]
    BY <1>5, <1>10, <2>2 DEF HandleTimeout
  <2>4. QED
    BY <1>2, <1>10, <2>1, <2>3 DEF HandleTimeout, TypeOK
<1>11. ASSUME NEW n \in Machines, HandleResponseExtend(c, n) PROVE TypeOK'
  <2> DEFINE f == Head(net[c][n])
             rest == Without(extending[c], ips[c])
  <2>1. Receive(c, n, {"RESPONSE_EXTEND"})
    BY <1>11 DEF HandleResponseExtend, ReceiveMine
  <2>2. rest \in [Addresses \cup {0} -> Nat]
    BY <1>6, WithoutType
  <2>3. f.ip \in Addresses \cup {0}
    BY <1>2, <1>4, <2>1
  <2>4. ips' = [ips EXCEPT ![c] = [rest EXCEPT ![f.ip] = @ + 1]]
    BY <1>11 DEF HandleResponseExtend
  <2>5. [rest EXCEPT ![f.ip] = @ + 1] \in [Addresses \cup {0} -> Nat]
    <3> HIDE DEF rest, f
    <3>1. QED
      BY <2>2, <2>3
  <2>6. ips' \in [Clients -> [Addresses \cup {0} -> Nat]]
    BY <1>5, <2>4, <2>5
  <2>7. QED
    BY <1>2, <1>11, <2>1, <2>6 DEF HandleResponseExtend, TypeOK
<1>12. ASSUME NEW n \in Machines, Drop(c, n) PROVE TypeOK'
  BY <1>2, <1>12 DEF Drop, ReceiveMine, TypeOK
<1>13. QED
  BY <1>7, <1>8, <1>9, <1>10, <1>11, <1>12 DEF Client, Senders

\* Steps of a client's command thread.
LEMMA TypeUser ==
  ASSUME TypeOK, NEW c \in Clients, User(c)
  PROVE  TypeOK'
<1> USE DEF server, timing, client, leases
<1>1. c \in Machines /\ Neighbours[c] \subseteq Machines /\ c \in Macs
  BY ConstantTypes DEF Macs
<1>2. \A op \in Commands : Type(c, op) =>
         /\ typed' \in [Machines -> [Commands -> Nat]]
         /\ net' \in [Machines -> [Machines -> Seq(Frames)]]
         /\ alive' \in SUBSET Machines
  BY <1>1, TypeType
<1>3. \A type \in Types, ip \in Addresses \cup {0}, time \in Time :
         Broadcast(c, "cmd", Frame(type, c, ip, time)) =>
           out' \in [Machines -> [Threads -> SUBSET Parcels]]
  <2> SUFFICES ASSUME NEW type \in Types, NEW ip \in Addresses \cup {0}, NEW time \in Time,
                      Broadcast(c, "cmd", Frame(type, c, ip, time))
               PROVE  out' \in [Machines -> [Threads -> SUBSET Parcels]]
    OBVIOUS
  <2>1. Frame(type, c, ip, time) \in Frames
    BY <1>1, FrameType
  <2>2. QED
    BY <1>1, <2>1, SendToType DEF Broadcast, Threads
<1>4. ASSUME NEW time \in Times[c], SendDiscover(c, time) PROVE TypeOK'
  <2>1. out' \in [Machines -> [Threads -> SUBSET Parcels]]
    BY <1>3, <1>4, ConstantTypes DEF SendDiscover, Types
  <2>2. QED
    BY <1>2, <1>4, <2>1 DEF SendDiscover, Commands, TypeOK
<1>5. ASSUME NEW ip \in Addresses \cup {0}, NEW time \in Times[c], SendRequest(c, ip, time)
      PROVE TypeOK'
  <2>1. out' \in [Machines -> [Threads -> SUBSET Parcels]]
    BY <1>3, <1>5, ConstantTypes DEF SendRequest, Types
  <2>2. QED
    BY <1>2, <1>5, <2>1 DEF SendRequest, Commands, TypeOK
<1>6. ASSUME NEW ip \in Addresses \cup {0}, NEW time \in Times[c], SendRequestExtend(c, ip, time)
      PROVE TypeOK'
  <2>1. out' \in [Machines -> [Threads -> SUBSET Parcels]]
    BY <1>3, <1>6, ConstantTypes DEF SendRequestExtend, Types
  <2>2. extending' \in [Clients -> Addresses \cup {0}]
    BY <1>6 DEF SendRequestExtend, TypeOK
  <2>3. QED
    BY <1>2, <1>6, <2>1, <2>2 DEF SendRequestExtend, Commands, TypeOK
<1>7. ASSUME NEW ip \in Addresses, SendRelease(c, ip) PROVE TypeOK'
  <2>1. out' \in [Machines -> [Threads -> SUBSET Parcels]]
    BY <1>3, <1>7, ConstantTypes DEF SendRelease, Types
  <2>2. Without(ip, ips[c]) \in [Addresses \cup {0} -> Nat]
    BY WithoutType DEF TypeOK
  <2>3. ips' \in [Clients -> [Addresses \cup {0} -> Nat]]
    BY <1>7, <2>2 DEF SendRelease, TypeOK
  <2>4. QED
    BY <1>2, <1>7, <2>1, <2>3 DEF SendRelease, Commands, TypeOK
<1>8. QED
  BY <1>4, <1>5, <1>6, <1>7 DEF User

\* A frame goes from the thread that sends it to the channel.
LEMMA TypeSend ==
  ASSUME TypeOK, NEW m \in Machines, NEW t \in Threads, SendFrame(m, t)
  PROVE  TypeOK'
<1>1. PICK p \in out[m][t] :
         /\ out' = [out EXCEPT ![m][t] = @ \ {p}]
         /\ net' = [net EXCEPT ![p.to][m] = Append(@, p.frame)]
  BY DEF SendFrame
<1>2. p \in Parcels
  BY DEF TypeOK
<1>3. p.to \in Machines /\ p.frame \in Frames
  BY <1>2 DEF Parcels
<1>4. Append(net[p.to][m], p.frame) \in Seq(Frames)
  BY <1>3 DEF TypeOK
<1>5. net' \in [Machines -> [Machines -> Seq(Frames)]]
  BY <1>1, <1>3, <1>4 DEF TypeOK
<1>6. out' \in [Machines -> [Threads -> SUBSET Parcels]]
  BY <1>1 DEF TypeOK
<1>7. QED
  BY <1>5, <1>6 DEF SendFrame, server, leases, timing, client, TypeOK

\* No step of a machine leaves the types.
LEMMA TypeStep == TypeOK /\ [Next]_vars => TypeOK'
<1> SUFFICES ASSUME TypeOK, [Next]_vars PROVE TypeOK'
  OBVIOUS
<1>1. ASSUME NEW m \in Machines, DataRace(m) PROVE TypeOK'
  BY <1>1 DEF DataRace, server, leases, timing, client, TypeOK
<1>2. CASE UNCHANGED vars
  BY <1>2 DEF vars, server, leases, timing, client, TypeOK
<1>3. QED
  BY <1>1, <1>2, TypeServer, TypeOperator, TypeClient, TypeUser, TypeSend DEF Next

\* In every network, with every sequence of commands and frames, the tables,
\* the vectors and the frames stay what they are declared to be; extension
\* wraps around and does not leave the range of a time.
THEOREM TypeCorrect == Spec => []TypeOK
  BY TypeInit, TypeStep, PTL DEF Spec

-----------------------------------------------------------------------------
(***************************************************************************)
(* The inductive invariant.                                                *)
(***************************************************************************)

\* f is in a channel or still with the thread that sends it.
UnderWay(f) ==
  \/ \E m, n \in Machines : \E i \in DOMAIN net[m][n] : net[m][n][i] = f
  \/ \E m \in Machines, t \in Threads : \E p \in out[m][t] : p.frame = f

\* f is what a server answers once it has written an entry.
Pending(f) == \E s \in Servers : \E p \in writing[s]["main"].answer : p.frame = f

\* A server's pool is what was typed there, and only a TIMEOUT may lack a client.
Formed ==
  /\ \A s \in Servers : pool[s] \cup adding[s] \subseteq UNION Blocks[s]
  /\ \A f \in Frames : UnderWay(f) \/ Pending(f) => f.type = "TIMEOUT" \/ f.mac \in Clients
  /\ \A s \in Servers : \A q \in search[s] : q.mac \in Clients
  /\ \A s \in Servers : writing[s]["cmd"].answer = {}

\* No time has been added at s.
Untimed(s) == typed[s]["add_time"] = 0

\* Then its command thread is not at the entries.
Quiet(s) ==
  /\ count[s] = {} /\ due[s] = {} /\ told[s] = {}
  /\ writing[s]["cmd"] = Nothing

Whole(s, a, e) ==
  /\ e.waiting => e.allocated
  /\ e.allocated <=> e.mac # NoMac
  /\ e.allocated => a \in pool[s]

ToCome(w) == {w.left[i] : i \in DOMAIN w.left}

\* What has been written of e is as it will be.
Agrees(w, e) ==
  /\ "allocated" \in ToCome(w) \/ e.allocated = w.to.allocated
  /\ "waiting" \in ToCome(w) \/ e.waiting = w.to.waiting
  /\ "mac" \in ToCome(w) \/ e.mac = w.to.mac

\* Every entry of s is whole but the one that is written, which will be.
TableWhole(s) ==
  LET w == writing[s]["main"] IN
  /\ \A a \in Addresses : w = Nothing \/ w.ip # a => Whole(s, a, entry[s][a])
  /\ w # Nothing => w.ip \in pool[s] /\ Whole(s, w.ip, w.to) /\ Agrees(w, entry[s][w.ip])

TablesWhole == \A s \in Servers : Untimed(s) => Quiet(s) /\ TableWhole(s)

\* Nothing is under way that a calm network does not need.
Silent ==
  \A f \in Frames : UnderWay(f) =>
    f.type \notin {"RELEASE", "REQUEST_EXTEND", "RESPONSE_EXTEND"}

Reserved(a, c) == \E s \in Servers : a \in pool[s] /\ entry[s][a].mac = c

Offered(c, a) ==
  \/ \E f \in Frames : UnderWay(f) /\ f.type = "OFFER" /\ f.mac = c /\ f.ip = a
  \/ \E o \in offers[c] : o.ip = a

Confirmed(c, a) ==
  \/ \E f \in Frames : UnderWay(f) /\ f.type = "ACK" /\ f.mac = c /\ f.ip = a
  \/ Holds(c, a)

Wanted(c, a) ==
  \/ \E f \in Frames : UnderWay(f) /\ f.type = "REQUEST" /\ f.mac = c /\ f.ip = a
  \/ \E f \in Frames : Pending(f) /\ f.type = "ACK" /\ f.mac = c /\ f.ip = a
  \/ Confirmed(c, a)

\* Until a client accepts, what it has been offered is reserved for it, and
\* nothing of it asks for an address.
OffersStand ==
  \A c \in Clients : typed[c]["accept"] = 0 =>
    /\ \A a \in Addresses : Offered(c, a) => Reserved(a, c)
    /\ \A a \in Addresses \cup {0} : ~ Wanted(c, a)

\* Then all that is under way from or for it is about one address, which is
\* reserved for it, and its lease once there is an ACK.
RequestsStand ==
  \A c \in Clients, a \in Addresses \cup {0} :
    /\ Wanted(c, a) => \A b \in Addresses \cup {0} : Wanted(c, b) => a = b
    /\ Wanted(c, a) /\ a # 0 => Reserved(a, c)
    /\ Confirmed(c, a) => Leased(a, c)

\* Some ACK for c has been heard: c has accepted, and what it wants it has.
Heard(c) ==
  /\ typed[c]["accept"] # 0
  /\ \A a \in Addresses \cup {0} : Wanted(c, a) => Leased(a, c)

\* A walk is for an offer, or for what an ACK cancels.
SearchStands(s) == \A q \in search[s] : q.for = "OFFER" \/ (q.for = "ACK" /\ Heard(q.mac))

\* What is written is offered or confirmed to the client whose mac is written;
\* another client whose mac is overwritten does not want the address; an entry
\* that is put to waiting has no mac before it is done.
WriteStands(s) ==
  LET w == writing[s]["main"]
      mac == entry[s][w.ip].mac
  IN w # Nothing =>
       /\ \A p \in w.answer :
            /\ p.frame.mac = w.to.mac /\ p.frame.ip = w.ip
            /\ p.frame.type = "OFFER" \/ (p.frame.type = "ACK" /\ ~ w.to.waiting)
       /\ mac \in Clients /\ mac # w.to.mac => typed[mac]["accept"] # 0 /\ ~ Wanted(mac, w.ip)
       /\ w.to.waiting =>
            /\ mac = NoMac
            /\ w.left \in {<<"allocated", "waiting", "ttl", "mac">>, <<"waiting", "ttl", "mac">>,
                           <<"ttl", "mac">>, <<"mac">>}

FramesStand == Silent /\ OffersStand /\ RequestsStand

TablesStand == \A s \in Servers : SearchStands(s) /\ WriteStands(s)

CalmInv == Calm => FramesStand /\ TablesStand

LeaseInv == TablesWhole /\ Formed /\ CalmInv

-----------------------------------------------------------------------------
(***************************************************************************)
(* What the steps do to the frames under way.                              *)
(***************************************************************************)

\* The frame received was under way.
LEMMA HeadUnderWay ==
  ASSUME TypeOK, NEW m \in Machines, NEW n \in Machines, NEW T, Receive(m, n, T)
  PROVE  UnderWay(Head(net[m][n]))
<1>1. net[m][n] \in Seq(Frames) /\ net[m][n] # <<>>
  BY DEF TypeOK, Receive
<1>2. 1 \in DOMAIN net[m][n] /\ Head(net[m][n]) = net[m][n][1]
  BY <1>1
<1>3. QED
  BY <1>2 DEF UnderWay

\* Receiving puts nothing in a channel.
LEMMA TailUnderWay ==
  ASSUME TypeOK, NEW m \in Machines, NEW n \in Machines, NEW T, Receive(m, n, T),
         NEW k \in Machines, NEW l \in Machines, NEW i \in DOMAIN net'[k][l]
  PROVE  \E j \in DOMAIN net[k][l] : net[k][l][j] = net'[k][l][i]
<1>1. net[m][n] \in Seq(Frames) /\ net[m][n] # <<>> /\ net[k][l] \in Seq(Frames)
  BY DEF TypeOK, Receive
<1>2. net' = [net EXCEPT ![m][n] = Tail(@)]
  BY DEF Receive
<1>3. CASE k = m /\ l = n
  <2>1. net'[k][l] = Tail(net[k][l])
    BY <1>2, <1>3 DEF TypeOK
  <2>2. i \in 1 .. Len(net[k][l]) - 1 /\ Tail(net[k][l])[i] = net[k][l][i + 1]
    BY <1>1, <1>3, <2>1
  <2>3. i + 1 \in DOMAIN net[k][l]
    BY <1>1, <2>2
  <2>4. QED
    BY <2>1, <2>2, <2>3
<1>4. CASE ~ (k = m /\ l = n)
  <2>1. net'[k][l] = net[k][l]
    BY <1>2, <1>4 DEF TypeOK
  <2>2. QED
    BY <2>1
<1>5. QED
  BY <1>3, <1>4

\* A handler that answers with g leaves g under way, and nothing else new.
LEMMA AnswerUnderWay ==
  ASSUME TypeOK, NEW m \in Machines, NEW n \in Machines, NEW T, Receive(m, n, T),
         NEW S, NEW g, SendTo(m, "main", S, g), NEW f, UnderWay(f)'
  PROVE  UnderWay(f) \/ f = g
<1>1. CASE \E k, l \in Machines : \E i \in DOMAIN net'[k][l] : net'[k][l][i] = f
  BY <1>1, TailUnderWay DEF UnderWay
<1>2. ASSUME NEW k \in Machines, NEW t \in Threads, NEW p \in out'[k][t], p.frame = f
      PROVE  UnderWay(f) \/ f = g
  <2>1. out' = [out EXCEPT ![m]["main"] = {[to |-> x, frame |-> g] : x \in S}]
    BY DEF SendTo
  <2>2. CASE k = m /\ t = "main"
    BY <1>2, <2>1, <2>2 DEF TypeOK
  <2>3. CASE ~ (k = m /\ t = "main")
    <3>1. out'[k][t] = out[k][t]
      BY <2>1, <2>3 DEF TypeOK
    <3>2. QED
      BY <1>2, <3>1 DEF UnderWay
  <2>4. QED
    BY <2>2, <2>3
<1>3. QED
  BY <1>1, <1>2 DEF UnderWay

\* A handler that sends nothing leaves nothing new under way.
LEMMA SilenceUnderWay ==
  ASSUME TypeOK, NEW m \in Machines, NEW n \in Machines, NEW T, Receive(m, n, T),
         UNCHANGED out, NEW f, UnderWay(f)'
  PROVE  UnderWay(f)
<1>1. CASE \E k, l \in Machines : \E i \in DOMAIN net'[k][l] : net'[k][l][i] = f
  BY <1>1, TailUnderWay DEF UnderWay
<1>2. QED
  BY <1>1 DEF UnderWay

\* A command that sends g likewise.
LEMMA CommandUnderWay ==
  ASSUME TypeOK, NEW m \in Machines, UNCHANGED net,
         NEW S, NEW g, SendTo(m, "cmd", S, g), NEW f, UnderWay(f)'
  PROVE  UnderWay(f) \/ f = g
<1>1. CASE \E k, l \in Machines : \E i \in DOMAIN net[k][l] : net[k][l][i] = f
  BY <1>1 DEF UnderWay
<1>2. ASSUME NEW k \in Machines, NEW t \in Threads, NEW p \in out'[k][t], p.frame = f
      PROVE  UnderWay(f) \/ f = g
  <2>1. out' = [out EXCEPT ![m]["cmd"] = {[to |-> x, frame |-> g] : x \in S}]
    BY DEF SendTo
  <2>2. CASE k = m /\ t = "cmd"
    BY <1>2, <2>1, <2>2 DEF TypeOK
  <2>3. CASE ~ (k = m /\ t = "cmd")
    <3>1. out'[k][t] = out[k][t]
      BY <2>1, <2>3 DEF TypeOK
    <3>2. QED
      BY <1>2, <3>1 DEF UnderWay
  <2>4. QED
    BY <2>2, <2>3
<1>3. QED
  BY <1>1, <1>2 DEF UnderWay

\* From thread to channel a frame stays under way.
LEMMA SendUnderWay ==
  ASSUME TypeOK, NEW m \in Machines, NEW t \in Threads, SendFrame(m, t), NEW f, UnderWay(f)'
  PROVE  UnderWay(f)
<1>1. PICK p \in out[m][t] :
         /\ out' = [out EXCEPT ![m][t] = @ \ {p}]
         /\ net' = [net EXCEPT ![p.to][m] = Append(@, p.frame)]
  BY DEF SendFrame
<1>2. p.to \in Machines /\ p.frame \in Frames
  BY DEF TypeOK, Parcels
<1>3. ASSUME NEW k \in Machines, NEW l \in Machines, NEW i \in DOMAIN net'[k][l],
             net'[k][l][i] = f
      PROVE  UnderWay(f)
  <2>1. net[k][l] \in Seq(Frames)
    BY DEF TypeOK
  <2>2. CASE k = p.to /\ l = m
    <3>1. net'[k][l] = Append(net[k][l], p.frame)
      BY Zenon, <1>1, <2>2 DEF TypeOK
    <3>2. i \in 1 .. Len(net[k][l]) + 1
      BY <1>2, <2>1, <3>1
    <3>3. CASE i = Len(net[k][l]) + 1
      BY <1>1, <1>2, <1>3, <2>1, <3>1, <3>3 DEF UnderWay
    <3>4. CASE i # Len(net[k][l]) + 1
      <4>1. i \in DOMAIN net[k][l] /\ net[k][l][i] = f
        BY <1>2, <1>3, <2>1, <3>1, <3>2, <3>4
      <4>2. QED
        BY <4>1 DEF UnderWay
    <3>5. QED
      BY <3>3, <3>4
  <2>3. CASE ~ (k = p.to /\ l = m)
    <3>1. net'[k][l] = net[k][l]
      BY <1>1, <2>3 DEF TypeOK
    <3>2. QED
      BY <1>3, <3>1 DEF UnderWay
  <2>4. QED
    BY <2>2, <2>3
<1>4. ASSUME NEW k \in Machines, NEW u \in Threads, NEW q \in out'[k][u], q.frame = f
      PROVE  UnderWay(f)
  <2>1. q \in out[k][u]
    BY <1>1, <1>4 DEF TypeOK
  <2>2. QED
    BY <1>4, <2>1 DEF UnderWay
<1>5. QED
  BY <1>3, <1>4 DEF UnderWay

\* A server that is done with an entry puts its answer under way.
LEMMA DoneUnderWay ==
  ASSUME TypeOK, NEW s \in Servers, NEW t \in Threads, NEW P, UNCHANGED net,
         out' = [out EXCEPT ![s][t] = P], NEW f, UnderWay(f)'
  PROVE  UnderWay(f) \/ \E p \in P : p.frame = f
<1>1. s \in Machines
  BY ConstantTypes
<1>2. CASE \E k, l \in Machines : \E i \in DOMAIN net[k][l] : net[k][l][i] = f
  BY <1>2 DEF UnderWay
<1>3. ASSUME NEW k \in Machines, NEW u \in Threads, NEW p \in out'[k][u], p.frame = f
      PROVE  UnderWay(f) \/ \E x \in P : x.frame = f
  <2>1. CASE k = s /\ u = t
    BY <1>1, <1>3, <2>1 DEF TypeOK
  <2>2. CASE ~ (k = s /\ u = t)
    <3>1. out'[k][u] = out[k][u]
      BY <1>1, <2>2 DEF TypeOK
    <3>2. QED
      BY <1>3, <3>1 DEF UnderWay
  <2>3. QED
    BY <2>1, <2>2
<1>4. QED
  BY <1>2, <1>3 DEF UnderWay

\* Thread t of s starts to write: nothing else is written by it.
LEMMA WriteStep ==
  ASSUME TypeOK, NEW s \in Servers, NEW t \in Threads, NEW a, NEW to, NEW order, NEW answer,
         Write(s, t, a, to, order, answer)
  PROVE  /\ writing'[s][t] = [ip |-> a, to |-> to, left |-> order, answer |-> answer]
         /\ \A r \in Servers, u \in Threads : ~ (r = s /\ u = t) => writing'[r][u] = writing[r][u]
  BY DEF Write, TypeOK

\* What the main thread of s is going to answer is pending.
LEMMA WritePending ==
  ASSUME TypeOK, NEW s \in Servers, NEW a, NEW to, NEW order, NEW answer,
         Write(s, "main", a, to, order, answer), NEW f, Pending(f)'
  PROVE  Pending(f) \/ \E p \in answer : p.frame = f
<1>1. PICK r \in Servers : \E p \in writing'[r]["main"].answer : p.frame = f
  BY DEF Pending
<1>2. CASE r = s
  <2> DEFINE w == [ip |-> a, to |-> to, left |-> order, answer |-> answer]
  <2>1. writing'[s]["main"] = w
    BY WriteStep DEF Threads
  <2>2. w.answer = answer
    OBVIOUS
  <2> HIDE DEF w
  <2>3. QED
    BY <1>1, <1>2, <2>1, <2>2
<1>3. CASE r # s
  <2>1. writing'[r]["main"] = writing[r]["main"]
    BY <1>3, WriteStep DEF Threads
  <2>2. QED
    BY <1>1, <2>1 DEF Pending
<1>4. QED
  BY <1>2, <1>3

\* Writing a field: the others of the entry and the other entries stay, the
\* fields still to come are one less, and the answer is under way after the last.
LEMMA FieldStep ==
  ASSUME TypeOK, NEW s \in Servers, NEW t \in Threads, WriteField(s, t)
  PROVE  /\ writing[s][t].ip \in Addresses /\ writing[s][t].to \in Entries
         /\ writing[s][t] # Nothing
         /\ \A r \in Servers, a \in Addresses :
              ~ (r = s /\ a = writing[s][t].ip) => entry'[r][a] = entry[r][a]
         /\ entry'[s][writing[s][t].ip].allocated =
              IF Head(writing[s][t].left) = "allocated" THEN writing[s][t].to.allocated
              ELSE entry[s][writing[s][t].ip].allocated
         /\ entry'[s][writing[s][t].ip].waiting =
              IF Head(writing[s][t].left) = "waiting" THEN writing[s][t].to.waiting
              ELSE entry[s][writing[s][t].ip].waiting
         /\ entry'[s][writing[s][t].ip].mac =
              IF Head(writing[s][t].left) = "mac" THEN writing[s][t].to.mac
              ELSE entry[s][writing[s][t].ip].mac
         /\ \A r \in Servers, u \in Threads :
              ~ (r = s /\ u = t) => writing'[r][u] = writing[r][u]
         /\ \/ /\ writing'[s][t] = Nothing /\ Len(writing[s][t].left) = 1
               /\ out' = [out EXCEPT ![s][t] = writing[s][t].answer]
            \/ /\ writing'[s][t] # Nothing /\ Len(writing[s][t].left) # 1
               /\ writing'[s][t].ip = writing[s][t].ip /\ writing'[s][t].to = writing[s][t].to
               /\ writing'[s][t].left = Tail(writing[s][t].left)
               /\ writing'[s][t].answer = writing[s][t].answer
               /\ UNCHANGED out
<1> DEFINE w == writing[s][t]
           e == [entry[s][w.ip] EXCEPT ![Head(w.left)] = w.to[Head(w.left)]]
           v == IF Len(w.left) = 1 THEN Nothing ELSE [w EXCEPT !.left = Tail(@)]
<1>1. /\ w \in [ip : Addresses, to : Entries, left : Seq(Fields) \ {<<>>}, answer : SUBSET Parcels]
      /\ Head(w.left) \in Fields /\ w # Nothing
  BY WritesType DEF WriteField
<1>2. w.ip \in Addresses /\ w.to \in Entries
  BY <1>1
<1>3. entry[s][w.ip] \in Entries
  BY <1>2 DEF TypeOK
<1>4. /\ entry' = [entry EXCEPT ![s][w.ip] = e]
      /\ writing' = [writing EXCEPT ![s][t] = v]
      /\ out' = IF Len(w.left) = 1 THEN [out EXCEPT ![s][t] = w.answer] ELSE out
  BY DEF WriteField
<1>5. /\ e.allocated = IF Head(w.left) = "allocated" THEN w.to.allocated ELSE entry[s][w.ip].allocated
      /\ e.waiting = IF Head(w.left) = "waiting" THEN w.to.waiting ELSE entry[s][w.ip].waiting
      /\ e.mac = IF Head(w.left) = "mac" THEN w.to.mac ELSE entry[s][w.ip].mac
  <2> HIDE DEF w
  <2>1. QED
    BY <1>1, <1>2, <1>3 DEF Entries, Fields
<1>6. Len(w.left) # 1 => v # Nothing
  <2> HIDE DEF w
  <2>1. SUFFICES ASSUME Len(w.left) # 1 PROVE v.ip # Nothing.ip
    OBVIOUS
  <2>2. v.ip = w.ip
    BY <1>1, <2>1
  <2>3. QED
    BY <1>2, <2>2, ConstantTypes DEF Nothing
<1>7. entry'[s][w.ip] = e /\ writing'[s][t] = v
  <2> HIDE DEF e, v, w
  <2>1. QED
    BY <1>2, <1>4 DEF TypeOK
<1>8. \A r \in Servers, a \in Addresses : ~ (r = s /\ a = w.ip) => entry'[r][a] = entry[r][a]
  <2> HIDE DEF e, v, w
  <2>1. QED
    BY <1>4 DEF TypeOK
<1>9. \A r \in Servers, u \in Threads : ~ (r = s /\ u = t) => writing'[r][u] = writing[r][u]
  <2> HIDE DEF e, v, w
  <2>1. QED
    BY <1>4 DEF TypeOK
<1>10. \/ v = Nothing /\ Len(w.left) = 1 /\ out' = [out EXCEPT ![s][t] = w.answer]
       \/ /\ v # Nothing /\ Len(w.left) # 1 /\ UNCHANGED out
          /\ v.ip = w.ip /\ v.to = w.to /\ v.left = Tail(w.left) /\ v.answer = w.answer
  <2>1. CASE Len(w.left) = 1
    BY <1>4, <2>1
  <2>2. CASE Len(w.left) # 1
    <3>1. v = [w EXCEPT !.left = Tail(@)]
      BY <2>2
    <3>2. UNCHANGED out /\ v # Nothing
      BY <1>4, <1>6, <2>2
    <3> HIDE DEF w, v
    <3>3. v.ip = w.ip /\ v.to = w.to /\ v.left = Tail(w.left) /\ v.answer = w.answer
      BY <1>1, <3>1
    <3>4. QED
      BY <2>2, <3>2, <3>3
  <2>3. QED
    BY <2>1, <2>2
<1> HIDE DEF e, v
<1>11. QED
  BY <1>1, <1>2, <1>5, <1>7, <1>8, <1>9, <1>10

-----------------------------------------------------------------------------
(***************************************************************************)
(* Every frame but a TIMEOUT is some client's.                             *)
(***************************************************************************)

\* A thread starts to write; what it is going to answer is some client's.
LEMMA FormedWriting ==
  ASSUME TypeOK, Formed, NEW s \in Servers, NEW t \in Threads,
         NEW a, NEW to, NEW order, NEW answer, Write(s, t, a, to, order, answer),
         t = "cmd" => answer = {}, \A p \in answer : p.frame.mac \in Clients
  PROVE  /\ \A f \in Frames : Pending(f)' => f.type = "TIMEOUT" \/ f.mac \in Clients
         /\ \A r \in Servers : writing'[r]["cmd"].answer = {}
<1> DEFINE w == [ip |-> a, to |-> to, left |-> order, answer |-> answer]
<1>1. /\ writing'[s][t] = w /\ w.answer = answer
      /\ \A r \in Servers, u \in Threads : ~ (r = s /\ u = t) => writing'[r][u] = writing[r][u]
  BY WriteStep
<1> HIDE DEF w
<1>2. ASSUME NEW f \in Frames, Pending(f)' PROVE f.type = "TIMEOUT" \/ f.mac \in Clients
  <2>1. PICK r \in Servers : \E p \in writing'[r]["main"].answer : p.frame = f
    BY <1>2 DEF Pending
  <2>2. CASE r = s /\ t = "main"
    BY <1>1, <2>1, <2>2
  <2>3. CASE ~ (r = s /\ t = "main")
    <3>1. writing'[r]["main"] = writing[r]["main"]
      BY <1>1, <2>3 DEF Threads
    <3>2. Pending(f)
      BY <2>1, <3>1 DEF Pending
    <3>3. QED
      BY <3>2 DEF Formed
  <2>4. QED
    BY <2>2, <2>3
<1>3. ASSUME NEW r \in Servers PROVE writing'[r]["cmd"].answer = {}
  <2>1. CASE r = s /\ t = "cmd"
    BY <1>1, <2>1
  <2>2. CASE ~ (r = s /\ t = "cmd")
    <3>1. writing'[r]["cmd"] = writing[r]["cmd"]
      BY <1>1, <2>2 DEF Threads
    <3>2. QED
      BY <3>1 DEF Formed
  <2>3. QED
    BY <2>1, <2>2
<1>4. QED
  BY <1>2, <1>3

\* A server's main thread takes a frame: a client's, for which it looks or writes.
LEMMA FormedHandle ==
  ASSUME TypeOK, Formed, NEW s \in Servers, NEW n \in Machines,
         \/ HandleDiscover(s, n) \/ HandleRequest(s, n) \/ HandleAck(s, n)
         \/ HandleRelease(s, n) \/ HandleRequestExtend(s, n) \/ Drop(s, n)
  PROVE  Formed'
<1> DEFINE f == Head(net[s][n])
           macs == \A r \in Servers : \A q \in search'[r] : q.mac \in Clients
           answers == /\ \A h \in Frames : Pending(h)' => h.type = "TIMEOUT" \/ h.mac \in Clients
                      /\ \A r \in Servers : writing'[r]["cmd"].answer = {}
<1>1. s \in Machines /\ "main" \in Threads
  BY ConstantTypes DEF Threads
<1>2. UNCHANGED <<pool, adding, out>> /\ \E T : Receive(s, n, T)
  BY DEF HandleDiscover, HandleRequest, HandleAck, HandleRelease, HandleRequestExtend, Drop,
         leases, server
<1>3. \A h : UnderWay(h)' => UnderWay(h)
  BY <1>1, <1>2, SilenceUnderWay
<1>4. ASSUME NEW T, Receive(s, n, T), "TIMEOUT" \notin T PROVE f.mac \in Clients
  <2>1. f \in Frames /\ f.type \in T /\ UnderWay(f)
    BY <1>1, <1>4, HeadUnderWay, ReceiveType
  <2>2. QED
    BY <1>4, <2>1 DEF Formed
<1>5. UNCHANGED search => macs
  BY DEF Formed
<1>6. ASSUME NEW for, NEW time, StartSearch(s, n, for, f.mac, time), f.mac \in Clients PROVE macs
  <2> DEFINE q == [for |-> for, mac |-> f.mac, time |-> time, back |-> n, at |-> 0]
  <2>1. q.mac \in Clients
    BY <1>6
  <2>2. search' = [search EXCEPT ![s] = {q}]
    BY <1>6 DEF StartSearch
  <2> HIDE DEF q
  <2>3. QED
    BY <2>1, <2>2 DEF Formed, TypeOK
<1>7. UNCHANGED writing => answers
  BY DEF Formed, Pending
<1>8. ASSUME NEW a, NEW to, NEW order, Write(s, "main", a, to, order, {}) PROVE answers
  BY <1>1, <1>8, FormedWriting
<1>9. CASE HandleDiscover(s, n) \/ HandleAck(s, n)
  <2>1. \E for, time : StartSearch(s, n, for, f.mac, time)
    BY <1>9 DEF HandleDiscover, HandleAck
  <2>2. f.mac \in Clients /\ UNCHANGED writing
    BY <1>4, <1>9 DEF HandleDiscover, HandleAck
  <2>3. macs /\ answers
    BY <1>6, <1>7, <2>1, <2>2
  <2> HIDE DEF macs, answers
  <2>4. QED
    BY <1>2, <1>3, <2>3 DEF Formed, macs, answers
<1>10. CASE HandleRequest(s, n)
  <2>1. f.mac \in Clients /\ UNCHANGED search
    BY <1>4, <1>10 DEF HandleRequest
  <2>2. answers
    <3>1. CASE UNCHANGED writing
      BY <1>7, <3>1
    <3>2. CASE ~ UNCHANGED writing
      <4> DEFINE g == Frame("ACK", f.mac, f.ip, f.time)
      <4>1. PICK a, to, order : Write(s, "main", a, to, order, To(n, g))
        BY <1>10, <3>2 DEF HandleRequest
      <4>2. \A p \in To(n, g) : p.frame.mac \in Clients
        BY <2>1 DEF To, Frame
      <4> HIDE DEF g
      <4>3. QED
        BY <1>1, <4>1, <4>2, FormedWriting
    <3>3. QED
      BY <3>1, <3>2
  <2>3. macs
    BY <1>5, <2>1
  <2> HIDE DEF macs, answers
  <2>4. QED
    BY <1>2, <1>3, <2>2, <2>3 DEF Formed, macs, answers
<1>11. CASE HandleRelease(s, n)
  <2>1. macs
    BY <1>5, <1>11 DEF HandleRelease
  <2>2. answers
    BY <1>7, <1>8, <1>11 DEF HandleRelease
  <2> HIDE DEF macs, answers
  <2>3. QED
    BY <1>2, <1>3, <2>1, <2>2 DEF Formed, macs, answers
<1>12. CASE HandleRequestExtend(s, n)
  <2>1. f.mac \in Clients
    BY <1>4, <1>12 DEF HandleRequestExtend
  <2>2. macs
    BY <1>5, <1>6, <1>12, <2>1 DEF HandleRequestExtend
  <2>3. answers
    BY Zenon, <1>7, <1>8, <1>12 DEF HandleRequestExtend
  <2> HIDE DEF macs, answers
  <2>4. QED
    BY <1>2, <1>3, <2>2, <2>3 DEF Formed, macs, answers
<1>13. CASE Drop(s, n)
  <2>1. macs /\ answers
    BY <1>5, <1>7, <1>13 DEF Drop, server
  <2> HIDE DEF macs, answers
  <2>2. QED
    BY <1>2, <1>3, <2>1 DEF Formed, macs, answers
<1>14. QED
  BY <1>9, <1>10, <1>11, <1>12, <1>13

\* Its walk goes on, or ends with an answer to the client it is for.
LEMMA FormedWalk ==
  ASSUME TypeOK, Formed, NEW s \in Servers, Pass(s) \/ Grant(s) \/ Cancel(s) \/ GiveUp(s)
  PROVE  Formed'
<1>1. s \in Machines /\ "main" \in Threads
  BY ConstantTypes DEF Threads
<1>2. UNCHANGED <<pool, adding, net>>
  BY DEF Pass, Grant, Cancel, GiveUp, leases
<1>3. \A q \in search[s] : q.mac \in Clients
  BY DEF Formed
<1>4. search' = [search EXCEPT ![s] = {}] => \A r \in Servers : \A q \in search'[r] : q.mac \in Clients
  BY DEF Formed, TypeOK
<1>5. UNCHANGED writing =>
        /\ \A f \in Frames : Pending(f)' => f.type = "TIMEOUT" \/ f.mac \in Clients
        /\ \A r \in Servers : writing'[r]["cmd"].answer = {}
  BY DEF Formed, Pending
<1>6. UNCHANGED out => \A f : UnderWay(f)' => UnderWay(f)
  BY <1>2 DEF UnderWay
<1>7. CASE Pass(s)
  <2>1. PICK q \in search[s], a \in pool[s] : search' = [search EXCEPT ![s] = {[q EXCEPT !.at = a]}]
    BY <1>7 DEF Pass
  <2> DEFINE r == [q EXCEPT !.at = a]
  <2>2. r.mac \in Clients
    <3>1. q \in Searches
      BY DEF TypeOK
    <3>2. r.mac = q.mac
      BY <3>1 DEF Searches
    <3>3. QED
      BY <1>3, <3>2
  <2>3. search' = [search EXCEPT ![s] = {r}]
    BY <2>1
  <2> HIDE DEF r
  <2>4. \A x \in Servers : \A y \in search'[x] : y.mac \in Clients
    BY <2>2, <2>3 DEF Formed, TypeOK
  <2>5. QED
    BY <1>2, <1>5, <1>6, <1>7, <2>4 DEF Pass, Formed
<1>8. CASE Grant(s)
  <2>1. PICK q \in search[s], a \in pool[s] : \E to, order :
           Write(s, "main", a, to, order, To(q.back, Frame(q.for, q.mac, a, q.time)))
    BY <1>8 DEF Grant
  <2> DEFINE g == Frame(q.for, q.mac, a, q.time)
  <2>2. \A p \in To(q.back, g) : p.frame.mac \in Clients
    BY <1>3 DEF To, Frame
  <2>3. PICK to, order : Write(s, "main", a, to, order, To(q.back, g))
    BY <2>1
  <2> HIDE DEF g
  <2>4. /\ \A f \in Frames : Pending(f)' => f.type = "TIMEOUT" \/ f.mac \in Clients
        /\ \A r \in Servers : writing'[r]["cmd"].answer = {}
    BY <1>1, <2>2, <2>3, FormedWriting
  <2>5. QED
    BY <1>2, <1>4, <1>6, <1>8, <2>4 DEF Grant, Formed
<1>9. CASE Cancel(s)
  <2>1. PICK a, to, order : Write(s, "main", a, to, order, {})
    BY <1>9 DEF Cancel
  <2>2. /\ \A f \in Frames : Pending(f)' => f.type = "TIMEOUT" \/ f.mac \in Clients
        /\ \A r \in Servers : writing'[r]["cmd"].answer = {}
    BY <1>1, <2>1, FormedWriting
  <2>3. QED
    BY <1>2, <1>4, <1>6, <1>9, <2>2 DEF Cancel, Formed
<1>10. CASE GiveUp(s)
  <2>1. PICK q \in search[s] :
           IF q.for = "ACK" THEN UNCHANGED out
           ELSE out' = [out EXCEPT ![s]["main"] = To(q.back, Frame(q.for, q.mac, 0, q.time))]
    BY <1>10 DEF GiveUp
  <2> DEFINE g == Frame(q.for, q.mac, 0, q.time)
  <2>2. \A p \in To(q.back, g) : p.frame.mac \in Clients
    BY <1>3 DEF To, Frame
  <2>3. UNCHANGED out \/ out' = [out EXCEPT ![s]["main"] = To(q.back, g)]
    BY <2>1
  <2> HIDE DEF g
  <2>4. ASSUME NEW f, UnderWay(f)' PROVE UnderWay(f) \/ f.mac \in Clients
    <3>1. CASE UNCHANGED out
      BY <1>6, <2>4, <3>1
    <3>2. CASE out' = [out EXCEPT ![s]["main"] = To(q.back, g)]
      <4>1. UnderWay(f) \/ \E p \in To(q.back, g) : p.frame = f
        BY <1>1, <1>2, <2>4, <3>2, DoneUnderWay
      <4>2. QED
        BY <2>2, <4>1
    <3>3. QED
      BY <2>3, <3>1, <3>2
  <2>5. QED
    BY <1>2, <1>4, <1>5, <1>10, <2>4 DEF GiveUp, Formed
<1>11. QED
  BY <1>7, <1>8, <1>9, <1>10

\* What a thread is going to answer stays so until it does.
LEMMA AnswersKept ==
  ASSUME TypeOK, NEW s \in Servers, NEW t \in Threads, WriteField(s, t),
         NEW r \in Servers, NEW u \in Threads
  PROVE  writing'[r][u].answer \subseteq writing[r][u].answer
<1>1. CASE ~ (r = s /\ u = t)
  BY <1>1, FieldStep
<1>2. CASE r = s /\ u = t
  <2>1. writing'[s][t] = Nothing \/ writing'[s][t].answer = writing[s][t].answer
    BY FieldStep
  <2>2. Nothing.answer = {}
    BY DEF Nothing
  <2>3. QED
    BY <1>2, <2>1, <2>2
<1>3. QED
  BY <1>1, <1>2

\* A field is written, and the answer goes out that was pending.
LEMMA WriteUnderWay ==
  ASSUME TypeOK, Formed, NEW s \in Servers, NEW t \in Threads, WriteField(s, t), NEW f
  PROVE  /\ UnderWay(f)' => \/ UnderWay(f)
                            \/ /\ t = "main" /\ writing'[s][t] = Nothing
                               /\ \E p \in writing[s]["main"].answer : p.frame = f
         /\ Pending(f)' => Pending(f)
<1>1. UNCHANGED net
  BY DEF WriteField
<1>2. t = "main" \/ writing[s][t].answer = {}
  BY DEF Formed, Threads
<1>3. ASSUME UnderWay(f)', ~ UnderWay(f)
      PROVE  /\ t = "main" /\ writing'[s][t] = Nothing
             /\ \E p \in writing[s]["main"].answer : p.frame = f
  <2>1. ~ UNCHANGED out
    BY <1>1, <1>3 DEF UnderWay
  <2>2. /\ writing'[s][t] = Nothing
        /\ out' = [out EXCEPT ![s][t] = writing[s][t].answer]
    BY <2>1, FieldStep
  <2>3. \E p \in writing[s][t].answer : p.frame = f
    BY <1>1, <1>3, <2>2, DoneUnderWay
  <2>4. QED
    BY <1>2, <2>2, <2>3
<1>4. ASSUME Pending(f)' PROVE Pending(f)
  <2>1. PICK r \in Servers : \E p \in writing'[r]["main"].answer : p.frame = f
    BY <1>4 DEF Pending
  <2>2. writing'[r]["main"].answer \subseteq writing[r]["main"].answer
    BY AnswersKept DEF Threads
  <2>3. QED
    BY <2>1, <2>2 DEF Pending
<1>5. QED
  BY <1>3, <1>4

LEMMA FormedWrite ==
  ASSUME TypeOK, Formed, NEW s \in Servers, NEW t \in Threads, WriteField(s, t)
  PROVE  Formed'
<1>1. UNCHANGED <<pool, adding, search>>
  BY DEF WriteField
<1>2. \A f : (UnderWay(f)' => UnderWay(f) \/ Pending(f)) /\ (Pending(f)' => Pending(f))
  BY WriteUnderWay DEF Pending
<1>3. ASSUME NEW r \in Servers PROVE writing'[r]["cmd"].answer = {}
  BY AnswersKept DEF Formed, Threads
<1>4. QED
  BY <1>1, <1>2, <1>3 DEF Formed

\* A client's main thread only passes frames on.
LEMMA ClientUnderWay ==
  ASSUME TypeOK, NEW c \in Clients, Client(c), NEW f, UnderWay(f)'
  PROVE  UnderWay(f)
<1>1. c \in Machines
  BY ConstantTypes
<1>2. \A n \in Machines : \A T : Receive(c, n, T) =>
         /\ UNCHANGED out => UnderWay(f)
         /\ \A S : SendTo(c, "main", S, Head(net[c][n])) => UnderWay(f)
  BY <1>1, HeadUnderWay, AnswerUnderWay, SilenceUnderWay
<1>3. PICK n \in Machines :
         \/ Relay(c, n) \/ HandleOffer(c, n) \/ HandleDhcpAck(c, n) \/ HandleTimeout(c, n)
         \/ HandleResponseExtend(c, n) \/ Drop(c, n)
  BY DEF Client, Senders
<1>4. CASE Relay(c, n)
  BY <1>2, <1>4 DEF Relay
<1>5. CASE HandleDhcpAck(c, n)
  BY <1>2, <1>5 DEF HandleDhcpAck, ReceiveMine
<1>6. CASE HandleOffer(c, n) \/ HandleTimeout(c, n)
  BY <1>2, <1>6 DEF HandleOffer, HandleTimeout, ReceiveMine
<1>7. CASE HandleResponseExtend(c, n) \/ Drop(c, n)
  BY <1>2, <1>7 DEF HandleResponseExtend, Drop, ReceiveMine
<1>8. QED
  BY <1>3, <1>4, <1>5, <1>6, <1>7

\* What a user makes a client send carries the client's mac.
LEMMA UserUnderWay ==
  ASSUME TypeOK, NEW c \in Clients, User(c), NEW f, UnderWay(f)', ~ UnderWay(f)
  PROVE  f.mac = c
<1>1. c \in Machines
  BY ConstantTypes
<1>2. \A op, g : Type(c, op) /\ Broadcast(c, "cmd", g) => f = g
  BY <1>1, CommandUnderWay DEF Type, Broadcast
<1>3. \E op, type, ip, time : Type(c, op) /\ Broadcast(c, "cmd", Frame(type, c, ip, time))
  BY DEF User, SendDiscover, SendRequest, SendRequestExtend, SendRelease
<1>4. \E type, ip, time : f = Frame(type, c, ip, time)
  BY <1>2, <1>3
<1>5. QED
  BY <1>4 DEF Frame

\* A server's command thread tells of timeouts, and nothing else.
LEMMA FormedCommand ==
  ASSUME TypeOK, Formed, NEW s \in Servers, Command(s) \/ Operator(s)
  PROVE  Formed'
<1> DEFINE pools == \A r \in Servers : pool'[r] \cup adding'[r] \subseteq UNION Blocks[r]
           answers == /\ \A h \in Frames : Pending(h)' => h.type = "TIMEOUT" \/ h.mac \in Clients
                      /\ \A r \in Servers : writing'[r]["cmd"].answer = {}
           frames == \A h \in Frames : UnderWay(h)' => h.type = "TIMEOUT" \/ h.mac \in Clients
           macs == \A r \in Servers : \A q \in search'[r] : q.mac \in Clients
<1> USE DEF leases, timing, server
<1>1. s \in Machines /\ "cmd" \in Threads
  BY ConstantTypes DEF Threads
<1>2. UNCHANGED <<pool, adding>> => pools
  BY DEF Formed
<1>3. UNCHANGED writing => answers
  BY DEF Formed, Pending
<1>4. UNCHANGED <<out, net>> => frames
  BY DEF Formed, UnderWay
<1>5. UNCHANGED search => macs
  BY DEF Formed
<1>6. pools /\ answers /\ frames /\ macs => Formed'
  BY DEF Formed
<1>7. ASSUME NEW a, NEW to, NEW order, Write(s, "cmd", a, to, order, {}) PROVE answers
  BY <1>1, <1>7, FormedWriting
<1>8. ASSUME NEW block \in Blocks[s], AddToPool(s, block) PROVE Formed'
  <2>1. adding' = [adding EXCEPT ![s] = block] /\ UNCHANGED <<pool, writing, search, out, net>>
    BY <1>8 DEF AddToPool, Type
  <2>2. pools
    BY <2>1 DEF Formed, TypeOK
  <2> HIDE DEF pools, answers, frames, macs
  <2>3. QED
    BY <1>3, <1>4, <1>5, <1>6, <2>1, <2>2
<1>9. CASE Insert(s)
  <2>1. PICK a \in adding[s] : /\ pool' = [pool EXCEPT ![s] = @ \cup {a}]
                               /\ adding' = [adding EXCEPT ![s] = @ \ {a}]
    BY <1>9 DEF Insert
  <2>2. pools
    BY <2>1 DEF Formed, TypeOK
  <2>3. UNCHANGED <<writing, search, out, net>>
    BY <1>9 DEF Insert
  <2> HIDE DEF pools, answers, frames, macs
  <2>4. QED
    BY <1>3, <1>4, <1>5, <1>6, <2>2, <2>3
<1>10. ASSUME NEW time, AdvanceTime(s, time) PROVE Formed'
  <2>1. UNCHANGED <<pool, adding, writing, search, out, net>>
    BY <1>10 DEF AdvanceTime, Type
  <2> HIDE DEF pools, answers, frames, macs
  <2>2. QED
    BY <1>2, <1>3, <1>4, <1>5, <1>6, <2>1
<1>11. CASE CountNext(s) \/ CountTtl(s) \/ CountLate(s)
  <2>1. UNCHANGED <<pool, adding, writing, search, out, net>>
    BY <1>11 DEF CountNext, CountTtl, CountLate, Counting
  <2> HIDE DEF pools, answers, frames, macs
  <2>2. QED
    BY <1>2, <1>3, <1>4, <1>5, <1>6, <2>1
<1>12. CASE CountDown(s) \/ ResetLapsed(s)
  <2>1. UNCHANGED <<pool, adding, search, out, net>>
    BY <1>12 DEF CountDown, ResetLapsed, Counting
  <2>2. \E a, to, order : Write(s, "cmd", a, to, order, {})
    BY <1>12 DEF CountDown, ResetLapsed
  <2>3. answers
    BY <1>7, <2>2
  <2> HIDE DEF pools, answers, frames, macs
  <2>4. QED
    BY <1>2, <1>4, <1>5, <1>6, <2>1, <2>3
<1>13. CASE TellTimeout(s)
  <2>1. UNCHANGED <<pool, adding, writing, search, net>>
    BY <1>13 DEF TellTimeout
  <2>2. PICK g : g.type = "TIMEOUT" /\ Broadcast(s, "cmd", g)
    BY <1>13 DEF TellTimeout, Frame
  <2>3. ASSUME NEW f \in Frames, UnderWay(f)' PROVE f.type = "TIMEOUT" \/ f.mac \in Clients
    <3>1. UnderWay(f) \/ f = g
      BY <1>1, <2>1, <2>2, <2>3, CommandUnderWay DEF Broadcast
    <3>2. QED
      BY <2>2, <3>1 DEF Formed
  <2>4. frames
    BY <2>3
  <2> HIDE DEF pools, answers, frames, macs
  <2>5. QED
    BY <1>2, <1>3, <1>5, <1>6, <2>1, <2>4
<1>14. CASE WriteField(s, "cmd")
  BY <1>1, <1>14, FormedWrite
<1>15. QED
  BY <1>8, <1>9, <1>10, <1>11, <1>12, <1>13, <1>14 DEF Command, Operator

\* Every step keeps pools apart and the mac of a client in its frames.
LEMMA FormedStep == TypeOK /\ Formed /\ [Next]_vars => Formed'
<1> SUFFICES ASSUME TypeOK, Formed, [Next]_vars PROVE Formed'
  OBVIOUS
<1> DEFINE frames == \A h \in Frames : UnderWay(h)' => h.type = "TIMEOUT" \/ h.mac \in Clients
<1>1. UNCHANGED server /\ frames => Formed'
  BY DEF Formed, Pending, server, leases
<1>2. ASSUME NEW s \in Servers, Server(s) PROVE Formed'
  BY <1>2, FormedHandle, FormedWalk, FormedWrite DEF Server, Senders, Threads
<1>3. ASSUME NEW s \in Servers, Command(s) \/ Operator(s) PROVE Formed'
  BY <1>3, FormedCommand
<1>4. ASSUME NEW c \in Clients, Client(c) PROVE Formed'
  <2>1. UNCHANGED server
    BY <1>4 DEF Client, Relay, HandleOffer, HandleDhcpAck, HandleTimeout,
                HandleResponseExtend, Drop
  <2>2. frames
    BY <1>4, ClientUnderWay DEF Formed
  <2>3. QED
    BY <1>1, <2>1, <2>2
<1>5. ASSUME NEW c \in Clients, User(c) PROVE Formed'
  <2>1. UNCHANGED server
    BY <1>5 DEF User, SendDiscover, SendRequest, SendRequestExtend, SendRelease
  <2>2. ASSUME NEW h \in Frames, UnderWay(h)' PROVE h.type = "TIMEOUT" \/ h.mac \in Clients
    <3>1. UnderWay(h) \/ h.mac = c
      BY <1>5, <2>2, UserUnderWay
    <3>2. QED
      BY <3>1 DEF Formed
  <2>3. QED
    BY <1>1, <2>1, <2>2
<1>6. ASSUME NEW m \in Machines, DataRace(m) PROVE Formed'
  BY <1>1, <1>6 DEF DataRace, UnderWay, Formed
<1>7. ASSUME NEW m \in Machines, NEW t \in Threads, SendFrame(m, t) PROVE Formed'
  <2>1. frames
    BY <1>7, SendUnderWay DEF Formed
  <2>2. QED
    BY <1>1, <1>7, <2>1 DEF SendFrame
<1>8. CASE UNCHANGED vars
  BY <1>1, <1>8 DEF vars, UnderWay, Formed
<1> HIDE DEF frames
<1>9. QED
  BY <1>2, <1>3, <1>4, <1>5, <1>6, <1>7, <1>8 DEF Next

-----------------------------------------------------------------------------
(***************************************************************************)
(* While no time is added at a server, its entries are whole.              *)
(***************************************************************************)

\* Entries written by the handlers are.
LEMMA WholeEntries ==
  /\ \A s, a : Whole(s, a, FreeEntry)
  /\ \A s, mac, waiting, ttl : \A a \in pool[s] :
       mac # NoMac => Whole(s, a, Granted(mac, waiting, ttl))
<1>1. FreeEntry.waiting = FALSE /\ FreeEntry.allocated = FALSE /\ FreeEntry.mac = NoMac
  BY DEF FreeEntry
<1>2. \A mac, waiting, ttl :
        /\ Granted(mac, waiting, ttl).allocated = TRUE
        /\ Granted(mac, waiting, ttl).mac = mac
  BY DEF Granted
<1>3. QED
  BY <1>1, <1>2 DEF Whole

\* A server's table is left alone, or its pool grows.
LEMMA TableKept ==
  ASSUME NEW s \in Servers, TableWhole(s), pool[s] \subseteq pool'[s],
         entry'[s] = entry[s], writing'[s]["main"] = writing[s]["main"]
  PROVE  TableWhole(s)'
  BY DEF TableWhole, Whole, Agrees, ToCome

\* What makes it whole after a step.
LEMMA TableBecomes ==
  ASSUME NEW s \in Servers, UNCHANGED pool, NEW w, writing'[s]["main"] = w, w # Nothing,
         \A a \in Addresses : w.ip # a => Whole(s, a, entry'[s][a]),
         w.ip \in pool[s], Whole(s, w.ip, w.to), Agrees(w, entry'[s][w.ip])
  PROVE  TableWhole(s)'
<1>1. \A a \in Addresses : w = Nothing \/ w.ip # a => Whole(s, a, entry[s][a])'
  BY DEF Whole
<1>2. (w.ip \in pool[s] /\ Agrees(w, entry[s][w.ip]))' /\ Whole(s, w.ip, w.to)'
  BY DEF Whole, Agrees, ToCome
<1>3. (\A a \in Addresses : writing[s]["main"] = Nothing \/ writing[s]["main"].ip # a =>
         Whole(s, a, entry[s][a]))'
  BY <1>1, <1>2
<1>4. (writing[s]["main"].ip \in pool[s] /\ Agrees(writing[s]["main"], entry[s][writing[s]["main"].ip]))'
  BY <1>2
<1>5. Whole(s, writing[s]["main"].ip, writing[s]["main"].to)'
  BY <1>2
<1>6. QED
  BY <1>3, <1>4, <1>5 DEF TableWhole

\* Its main thread starts to write an entry, of which it leaves alone what is
\* as it will be.
LEMMA TableStarts ==
  ASSUME TypeOK, NEW s \in Servers, TableWhole(s), writing[s]["main"] = Nothing,
         UNCHANGED <<pool, entry>>, NEW a \in pool[s], NEW to, NEW order, NEW answer,
         Write(s, "main", a, to, order, answer), Whole(s, a, to),
         \/ \A field \in {"allocated", "waiting", "mac"} : \E i \in DOMAIN order : order[i] = field
         \/ /\ \E i \in DOMAIN order : order[i] = "waiting"
            /\ to.allocated = entry[s][a].allocated /\ to.mac = entry[s][a].mac
  PROVE  TableWhole(s)'
<1> DEFINE w == [ip |-> a, to |-> to, left |-> order, answer |-> answer]
<1>1. writing'[s]["main"] = w
  BY WriteStep DEF Threads
<1>2. w.ip = a /\ w.to = to /\ w.left = order
  OBVIOUS
<1> HIDE DEF w
<1>3. \A b \in Addresses : Whole(s, b, entry[s][b])
  BY DEF TableWhole
<1>4. Agrees(w, entry[s][a])
  BY <1>2 DEF Agrees, ToCome
<1>5. QED
  BY <1>1, <1>2, <1>3, <1>4 DEF TableWhole, Whole, Agrees, ToCome

\* It writes a field.
LEMMA TableWritten ==
  ASSUME TypeOK, NEW s \in Servers, TableWhole(s), WriteField(s, "main")
  PROVE  /\ TableWhole(s)'
         /\ writing'[s]["main"] = Nothing =>
              LET w == writing[s]["main"]
                  e == entry'[s][w.ip]
              IN e.allocated = w.to.allocated /\ e.waiting = w.to.waiting /\ e.mac = w.to.mac
<1> DEFINE w == writing[s]["main"]
           v == writing'[s]["main"]
           d == entry[s][w.ip]
           e == entry'[s][w.ip]
<1>1. "main" \in Threads /\ UNCHANGED pool
  BY DEF Threads, WriteField
<1>2. /\ w # Nothing /\ w.ip \in pool[s] /\ Whole(s, w.ip, w.to) /\ Agrees(w, d)
      /\ \A a \in Addresses : w.ip # a => Whole(s, a, entry[s][a])
  <2>1. w # Nothing
    BY DEF WriteField
  <2>2. QED
    BY <2>1 DEF TableWhole
<1>3. w.left \in Seq(Fields) /\ w.left # <<>>
  BY <1>1, <1>2, WritesType
<1>4. w.ip \in Addresses
  BY <1>1, FieldStep
<1>5. ToCome(w) \subseteq {Head(w.left)} \cup {Tail(w.left)[i] : i \in DOMAIN Tail(w.left)}
  <2> HIDE DEF w
  <2>1. ASSUME NEW i \in DOMAIN w.left
        PROVE  w.left[i] = Head(w.left) \/ \E j \in DOMAIN Tail(w.left) : w.left[i] = Tail(w.left)[j]
    <3>1. CASE i = 1
      BY <1>3, <3>1
    <3>2. CASE i # 1
      <4>1. i - 1 \in DOMAIN Tail(w.left) /\ w.left[i] = Tail(w.left)[i - 1]
        BY <1>3, <3>2
      <4>2. QED
        BY <4>1
    <3>3. QED
      BY <3>1, <3>2
  <2>2. QED
    BY <2>1 DEF ToCome
<1>6. /\ e.allocated = IF Head(w.left) = "allocated" THEN w.to.allocated ELSE d.allocated
      /\ e.waiting = IF Head(w.left) = "waiting" THEN w.to.waiting ELSE d.waiting
      /\ e.mac = IF Head(w.left) = "mac" THEN w.to.mac ELSE d.mac
  BY <1>1, FieldStep
<1>7. \A a \in Addresses : w.ip # a => entry'[s][a] = entry[s][a]
  BY <1>1, FieldStep
<1>8. CASE v = Nothing
  <2>1. Len(w.left) = 1
    BY <1>1, <1>8, FieldStep
  <2>2. DOMAIN Tail(w.left) = {}
    <3> HIDE DEF w
    <3>1. QED
      BY SMTT(60), <1>3, <2>1
  <2>3. e.allocated = w.to.allocated /\ e.waiting = w.to.waiting /\ e.mac = w.to.mac
    <3> HIDE DEF w, d, e
    <3>1. \A field : field # Head(w.left) => field \notin ToCome(w)
      BY <1>5, <2>2
    <3>2. e.allocated = w.to.allocated
      BY <1>2, <1>6, <3>1 DEF Agrees
    <3>3. e.waiting = w.to.waiting
      BY <1>2, <1>6, <3>1 DEF Agrees
    <3>4. e.mac = w.to.mac
      BY <1>2, <1>6, <3>1 DEF Agrees
    <3>5. QED
      BY <3>2, <3>3, <3>4
  <2>4. Whole(s, w.ip, e)
    <3> HIDE DEF w, e
    <3>1. QED
      BY <1>2, <2>3 DEF Whole
  <2>5. \A a \in Addresses : Whole(s, a, entry'[s][a])
    BY <1>2, <1>7, <2>4
  <2>6. TableWhole(s)'
    <3>1. \A a \in Addresses : Whole(s, a, entry[s][a])'
      BY <1>1, <2>5 DEF Whole
    <3>2. QED
      BY <1>8, <3>1 DEF TableWhole
  <2>7. QED
    BY <2>3, <2>6
<1>9. CASE v # Nothing
  <2>1. v.ip = w.ip /\ v.to = w.to /\ v.left = Tail(w.left)
    BY <1>1, <1>9, FieldStep
  <2>2. ToCome(v) = {Tail(w.left)[i] : i \in DOMAIN Tail(w.left)}
    <3> HIDE DEF v, w
    <3>1. QED
      BY <2>1 DEF ToCome
  <2>3. Agrees(v, e)
    <3> HIDE DEF v, w, d, e
    <3>1. \A field : field \notin ToCome(v) => field = Head(w.left) \/ field \notin ToCome(w)
      BY <1>5, <2>2
    <3>2. "allocated" \in ToCome(v) \/ e.allocated = v.to.allocated
      BY <1>2, <1>6, <2>1, <3>1 DEF Agrees
    <3>3. "waiting" \in ToCome(v) \/ e.waiting = v.to.waiting
      BY <1>2, <1>6, <2>1, <3>1 DEF Agrees
    <3>4. "mac" \in ToCome(v) \/ e.mac = v.to.mac
      BY <1>2, <1>6, <2>1, <3>1 DEF Agrees
    <3>5. QED
      BY <3>2, <3>3, <3>4 DEF Agrees
  <2>4. \A a \in Addresses : v.ip # a => Whole(s, a, entry'[s][a])
    BY <1>2, <1>7, <2>1
  <2>5. TableWhole(s)'
    <3>1. Agrees(v, entry'[s][v.ip]) /\ v.ip \in pool[s] /\ Whole(s, v.ip, v.to)
      BY <1>2, <2>1, <2>3
    <3> HIDE DEF v
    <3>2. QED
      BY <1>1, <1>9, <2>4, <3>1, TableBecomes DEF v
  <2>6. QED
    BY <1>9, <2>5
<1>10. QED
  BY <1>8, <1>9

\* The main thread of s writes an entry of the pool, or takes the next frame.
LEMMA TableHandled ==
  ASSUME TypeOK, Formed, NEW s \in Servers, Server(s), TableWhole(s)
  PROVE  TableWhole(s)'
<1>1. s \in Machines /\ "main" \in Threads
  BY ConstantTypes DEF Threads
<1>2. pool[s] \subseteq Addresses
  BY DEF TypeOK
<1> DEFINE Ended == <<"ttl", "allocated", "waiting", "mac">>
           Lapsed == <<"waiting", "allocated", "ttl", "mac">>
           Offer == <<"allocated", "waiting", "ttl", "mac">>
           Extended == <<"allocated", "ttl", "mac", "waiting">>
           Full(order) == \A field \in {"allocated", "waiting", "mac"} :
                            \E i \in DOMAIN order : order[i] = field
<1>3. /\ Full(Ended) /\ Full(Lapsed) /\ Full(Offer) /\ Full(Extended)
      /\ \E i \in DOMAIN <<"waiting", "ttl">> : <<"waiting", "ttl">>[i] = "waiting"
  <2>1. Full(Ended)
    <3>1. Ended[2] = "allocated" /\ Ended[3] = "waiting" /\ Ended[4] = "mac" /\ DOMAIN Ended = 1 .. 4
      OBVIOUS
    <3> HIDE DEF Ended
    <3>2. 2 \in DOMAIN Ended /\ 3 \in DOMAIN Ended /\ 4 \in DOMAIN Ended
      BY <3>1
    <3>3. QED
      BY <3>1, <3>2
  <2>2. Full(Lapsed)
    <3>1. Lapsed[2] = "allocated" /\ Lapsed[1] = "waiting" /\ Lapsed[4] = "mac" /\ DOMAIN Lapsed = 1 .. 4
      OBVIOUS
    <3> HIDE DEF Lapsed
    <3>2. 2 \in DOMAIN Lapsed /\ 1 \in DOMAIN Lapsed /\ 4 \in DOMAIN Lapsed
      BY <3>1
    <3>3. QED
      BY <3>1, <3>2
  <2>3. Full(Offer)
    <3>1. Offer[1] = "allocated" /\ Offer[2] = "waiting" /\ Offer[4] = "mac" /\ DOMAIN Offer = 1 .. 4
      OBVIOUS
    <3> HIDE DEF Offer
    <3>2. 1 \in DOMAIN Offer /\ 2 \in DOMAIN Offer /\ 4 \in DOMAIN Offer
      BY <3>1
    <3>3. QED
      BY <3>1, <3>2
  <2>4. Full(Extended)
    <3>1. /\ Extended[1] = "allocated" /\ Extended[4] = "waiting" /\ Extended[3] = "mac"
          /\ DOMAIN Extended = 1 .. 4
      OBVIOUS
    <3> HIDE DEF Extended
    <3>2. 1 \in DOMAIN Extended /\ 4 \in DOMAIN Extended /\ 3 \in DOMAIN Extended
      BY <3>1
    <3>3. QED
      BY <3>1, <3>2
  <2>5. 1 \in DOMAIN <<"waiting", "ttl">> /\ <<"waiting", "ttl">>[1] = "waiting"
    OBVIOUS
  <2>6. QED
    BY <2>1, <2>2, <2>3, <2>4, <2>5
<1>4. UNCHANGED <<leases, writing>> => TableWhole(s)'
  BY TableKept DEF leases
<1>5. \A n, T : Receive(s, n, T) => writing[s]["main"] = Nothing
  BY DEF Receive, Free
<1>6. ASSUME NEW a \in pool[s], NEW order, NEW answer, writing[s]["main"] = Nothing,
             UNCHANGED leases, Full(order), Write(s, "main", a, FreeEntry, order, answer)
      PROVE  TableWhole(s)'
  <2> HIDE DEF Full
  <2>1. UNCHANGED <<pool, entry>> /\ Whole(s, a, FreeEntry)
    BY <1>6, WholeEntries DEF leases
  <2>2. QED
    BY <1>6, <2>1, TableStarts DEF Full
<1> HIDE DEF Ended, Lapsed, Offer, Extended, Full
<1>7. ASSUME NEW n \in Machines, HandleDiscover(s, n) \/ HandleAck(s, n) \/ Drop(s, n)
      PROVE  TableWhole(s)'
  BY <1>4, <1>7 DEF HandleDiscover, HandleAck, Drop, server
<1>8. ASSUME NEW n \in Machines, HandleRequest(s, n) PROVE TableWhole(s)'
  <2> DEFINE f == Head(net[s][n])
             to == [entry[s][f.ip] EXCEPT !.waiting = FALSE, !.ttl = f.time]
  <2>1. writing[s]["main"] = Nothing /\ UNCHANGED leases
    BY <1>5, <1>8 DEF HandleRequest
  <2>2. CASE UNCHANGED writing
    BY <1>4, <2>1, <2>2
  <2>3. CASE ~ UNCHANGED writing
    <3>1. f.ip \in pool[s]
          /\ \E answer : Write(s, "main", f.ip, to, <<"waiting", "ttl">>, answer)
      BY <1>8, <2>3 DEF HandleRequest
    <3>2. entry[s][f.ip] \in Entries /\ f.ip \in Addresses
      BY <1>2, <3>1 DEF TypeOK
    <3>3. to.allocated = entry[s][f.ip].allocated /\ to.mac = entry[s][f.ip].mac /\ to.waiting = FALSE
      BY <3>2 DEF Entries
    <3>4. Whole(s, f.ip, entry[s][f.ip])
      BY <2>1, <3>2 DEF TableWhole
    <3> HIDE DEF to, f
    <3>5. Whole(s, f.ip, to)
      BY <3>3, <3>4 DEF Whole
    <3>6. PICK answer : Write(s, "main", f.ip, to, <<"waiting", "ttl">>, answer)
      BY <3>1
    <3>7. UNCHANGED <<pool, entry>>
      BY <2>1 DEF leases
    <3>8. QED
      BY <1>3, <2>1, <3>1, <3>3, <3>5, <3>6, <3>7, TableStarts
  <2>4. QED
    BY <2>2, <2>3
<1>9. ASSUME NEW n \in Machines, HandleRelease(s, n) \/ HandleRequestExtend(s, n)
      PROVE  TableWhole(s)'
  <2>1. /\ writing[s]["main"] = Nothing /\ UNCHANGED leases
        /\ UNCHANGED writing \/ \E a \in pool[s] : Write(s, "main", a, FreeEntry, Ended, {})
    BY <1>5, <1>9 DEF HandleRelease, HandleRequestExtend, Ended
  <2>2. QED
    BY <1>3, <1>4, <1>6, <2>1
<1>10. CASE Pass(s) \/ GiveUp(s)
  BY <1>4, <1>10 DEF Pass, GiveUp
<1>11. CASE Grant(s)
  <2>1. PICK q \in search[s], a \in pool[s] :
          /\ Reads(s, q, a)
          /\ \E answer :
               Write(s, "main", a, Granted(q.mac, q.for = "OFFER", q.time),
                     IF q.for = "OFFER" THEN Offer ELSE Extended, answer)
    BY <1>11 DEF Grant, Offer, Extended
  <2> DEFINE to == Granted(q.mac, q.for = "OFFER", q.time)
             order == IF q.for = "OFFER" THEN Offer ELSE Extended
  <2>2. q.mac # NoMac
    BY MachinesAssumption DEF Formed
  <2>3. Whole(s, a, to)
    BY <2>2, WholeEntries
  <2>4. Full(order)
    BY <1>3
  <2>5. PICK answer : Write(s, "main", a, to, order, answer)
    BY <2>1
  <2>6. writing[s]["main"] = Nothing /\ UNCHANGED <<pool, entry>>
    BY <1>11, <2>1 DEF Grant, Reads, leases
  <2> HIDE DEF to, order
  <2>7. QED
    BY <2>3, <2>4, <2>5, <2>6, TableStarts DEF Full
<1>12. CASE Cancel(s)
  <2>1. PICK a \in pool[s] :
          writing[s]["main"] = Nothing /\ Write(s, "main", a, FreeEntry, Lapsed, {})
    BY <1>12 DEF Cancel, Reads, Lapsed
  <2>2. UNCHANGED leases
    BY <1>12 DEF Cancel
  <2>3. QED
    BY <1>3, <1>6, <2>1, <2>2
<1>13. CASE WriteField(s, "main")
  BY <1>13, TableWritten
<1>14. QED
  BY <1>7, <1>8, <1>9, <1>10, <1>11, <1>12, <1>13 DEF Server, Senders

\* Commands are counted up, so a calm network has always been calm.
LEMMA TypedStep ==
  ASSUME TypeOK, [Next]_vars, NEW m \in Machines, NEW op \in Commands
  PROVE  typed[m][op] <= typed'[m][op]
<1>1. typed[m][op] \in Nat
  BY DEF TypeOK
<1>2. UNCHANGED typed => typed[m][op] <= typed'[m][op]
  BY <1>1
<1>3. ASSUME NEW k, NEW o, Type(k, o) PROVE typed[m][op] <= typed'[m][op]
  <2>1. typed' = [typed EXCEPT ![k][o] = @ + 1]
    BY <1>3 DEF Type
  <2>2. CASE k = m /\ o = op
    BY <1>1, <2>1, <2>2 DEF TypeOK
  <2>3. CASE ~ (k = m /\ o = op)
    <3>1. typed'[m][op] = typed[m][op]
      BY <2>1, <2>3 DEF TypeOK
    <3>2. QED
      BY <1>1, <3>1
  <2>4. QED
    BY <2>2, <2>3
<1>4. \A k, n, T : Receive(k, n, T) => UNCHANGED typed
  BY DEF Receive
<1>5. ASSUME NEW s \in Servers, Server(s) PROVE UNCHANGED typed
  BY Zenon, <1>4, <1>5 DEF Server, HandleDiscover, HandleRequest, HandleAck, HandleRelease,
                    HandleRequestExtend, Drop, Pass, Grant, Cancel, GiveUp, WriteField
<1>6. ASSUME NEW s \in Servers, Command(s) PROVE UNCHANGED typed
  BY Zenon, <1>6 DEF Command, Insert, Counting, CountNext, CountTtl, CountLate, CountDown,
              TellTimeout, ResetLapsed, WriteField
<1>7. ASSUME NEW s \in Servers, Operator(s) PROVE \E o : Type(s, o)
  BY <1>7 DEF Operator, AddToPool, AdvanceTime
<1>8. ASSUME NEW c \in Clients, Client(c) PROVE UNCHANGED typed
  BY <1>4, <1>8 DEF Client, Relay, HandleOffer, HandleDhcpAck, HandleTimeout,
                    HandleResponseExtend, Drop, ReceiveMine
<1>9. ASSUME NEW c \in Clients, User(c) PROVE \E o : Type(c, o)
  BY <1>9 DEF User, SendDiscover, SendRequest, SendRequestExtend, SendRelease
<1>10. ASSUME NEW k, DataRace(k) \/ \E t \in Threads : SendFrame(k, t) PROVE UNCHANGED typed
  BY <1>10 DEF DataRace, SendFrame
<1>11. UNCHANGED vars => UNCHANGED typed
  BY DEF vars
<1>12. QED
  BY <1>2, <1>3, <1>5, <1>6, <1>7, <1>8, <1>9, <1>10, <1>11 DEF Next

\* A server leaves the tables of the others alone.
LEMMA OtherTables ==
  ASSUME TypeOK, NEW r \in Servers, NEW s \in Servers, r # s,
         Server(r) \/ Command(r) \/ Operator(r)
  PROVE  /\ pool'[s] = pool[s] /\ entry'[s] = entry[s] /\ writing'[s] = writing[s]
         /\ search'[s] = search[s] /\ count'[s] = count[s]
         /\ due'[s] = due[s] /\ told'[s] = told[s]
<1> DEFINE same == /\ pool'[s] = pool[s] /\ entry'[s] = entry[s] /\ writing'[s] = writing[s]
                   /\ search'[s] = search[s] /\ count'[s] = count[s]
                   /\ due'[s] = due[s] /\ told'[s] = told[s]
<1> USE DEF leases, timing, server
<1>1. ASSUME NEW t, NEW a, NEW to, NEW order, NEW answer, Write(r, t, a, to, order, answer)
      PROVE  writing'[s] = writing[s]
  BY <1>1 DEF Write, TypeOK
<1>2. ASSUME NEW n, NEW for, NEW mac, NEW time, StartSearch(r, n, for, mac, time)
      PROVE  search'[s] = search[s]
  BY <1>2 DEF StartSearch, TypeOK
<1>3. ASSUME NEW n, HandleDiscover(r, n) \/ HandleAck(r, n) \/ Drop(r, n) PROVE same
  BY <1>2, <1>3 DEF HandleDiscover, HandleAck, Drop
<1>4. ASSUME NEW n, HandleRequest(r, n) \/ HandleRelease(r, n) PROVE same
  BY <1>1, <1>4 DEF HandleRequest, HandleRelease
<1>5. ASSUME NEW n, HandleRequestExtend(r, n) PROVE same
  BY <1>1, <1>2, <1>5 DEF HandleRequestExtend
<1>6. ASSUME Pass(r) \/ GiveUp(r) PROVE same
  BY <1>6 DEF Pass, GiveUp, TypeOK
<1>7. ASSUME Grant(r) \/ Cancel(r) PROVE same
  <2>1. writing'[s] = writing[s]
    BY <1>1, <1>7 DEF Grant, Cancel
  <2>2. search'[s] = search[s]
    BY <1>7 DEF Grant, Cancel, TypeOK
  <2>3. QED
    BY <1>7, <2>1, <2>2 DEF Grant, Cancel
<1>8. ASSUME NEW t, WriteField(r, t) PROVE same
  BY <1>8 DEF WriteField, TypeOK
<1>9. ASSUME Insert(r) PROVE same
  BY <1>9 DEF Insert, TypeOK
<1>10. ASSUME CountNext(r) \/ CountTtl(r) \/ CountLate(r) PROVE same
  BY ZenonT(60), <1>10 DEF CountNext, CountTtl, CountLate, Counting, TypeOK
<1>11. ASSUME CountDown(r) PROVE same
  <2>1. writing'[s] = writing[s]
    BY <1>1, <1>11 DEF CountDown
  <2>2. count'[s] = count[s]
    BY <1>11 DEF CountDown, TypeOK
  <2>3. QED
    BY <1>11, <2>1, <2>2 DEF CountDown, Counting
<1>12. ASSUME TellTimeout(r) PROVE same
  BY <1>12 DEF TellTimeout, TypeOK
<1>13. ASSUME ResetLapsed(r) PROVE same
  <2>1. writing'[s] = writing[s]
    BY <1>1, <1>13 DEF ResetLapsed
  <2>2. due'[s] = due[s] /\ told'[s] = told[s]
    BY <1>13 DEF ResetLapsed, TypeOK
  <2>3. QED
    BY <1>13, <2>1, <2>2 DEF ResetLapsed
<1>14. ASSUME NEW block, AddToPool(r, block) PROVE same
  BY <1>14 DEF AddToPool
<1>15. ASSUME NEW time, AdvanceTime(r, time) PROVE same
  BY <1>15 DEF AdvanceTime, TypeOK
<1> HIDE DEF same
<1>16. same
  BY <1>3, <1>4, <1>5, <1>6, <1>7, <1>8, <1>9, <1>10, <1>11, <1>12, <1>13, <1>14, <1>15
     DEF Server, Command, Operator
<1>17. QED
  BY <1>16 DEF same

\* A server's main thread leaves its command thread alone.
LEMMA QuietServer ==
  ASSUME TypeOK, NEW s \in Servers, Server(s), Quiet(s)
  PROVE  Quiet(s)'
<1>1. UNCHANGED timing
  BY Zenon DEF Server, HandleDiscover, HandleRequest, HandleAck, HandleRelease, HandleRequestExtend,
         Drop, Pass, Grant, Cancel, GiveUp, WriteField, server
<1>2. \A a, to, order, answer : Write(s, "main", a, to, order, answer) =>
         writing'[s]["cmd"] = writing[s]["cmd"]
  BY DEF Write, TypeOK, Threads
<1>3. WriteField(s, "main") => writing'[s]["cmd"] = writing[s]["cmd"]
  BY FieldStep DEF Threads
<1>4. \/ UNCHANGED writing
      \/ \E a, to, order, answer : Write(s, "main", a, to, order, answer)
      \/ WriteField(s, "main")
  BY Zenon DEF Server, HandleDiscover, HandleRequest, HandleAck, HandleRelease, HandleRequestExtend,
         Drop, Pass, Grant, Cancel, GiveUp, server
<1>5. writing'[s]["cmd"] = writing[s]["cmd"]
  BY <1>2, <1>3, <1>4
<1>6. QED
  BY <1>1, <1>5 DEF Quiet, timing

\* A quiet command thread inserts into the pool at most, until time is added.
LEMMA QuietCommand ==
  ASSUME TypeOK, NEW s \in Servers, Quiet(s), Command(s) \/ Operator(s)
  PROVE  \/ Insert(s)
         \/ \E block \in Blocks[s] : AddToPool(s, block)
         \/ \E time \in Times[s] : AdvanceTime(s, time)
  BY DEF Quiet, Command, Operator, CountNext, CountTtl, CountLate, CountDown,
         TellTimeout, ResetLapsed, WriteField

\* So whatever the step, the entries of a server without added time stay whole.
LEMMA TablesStep == TypeOK /\ Formed /\ TablesWhole /\ [Next]_vars => TablesWhole'
<1> SUFFICES ASSUME TypeOK, Formed, TablesWhole, [Next]_vars, NEW s \in Servers, Untimed(s)'
             PROVE  Quiet(s)' /\ TableWhole(s)'
  BY DEF TablesWhole
<1>1. Untimed(s)
  <2>1. s \in Machines /\ "add_time" \in Commands
    BY ConstantTypes DEF Commands
  <2>2. typed[s]["add_time"] <= typed'[s]["add_time"] /\ typed[s]["add_time"] \in Nat
    BY ZenonT(60), <2>1, TypedStep DEF TypeOK
  <2>3. QED
    BY <2>2 DEF Untimed
<1>2. Quiet(s) /\ TableWhole(s)
  BY <1>1 DEF TablesWhole
<1>3. UNCHANGED server => Quiet(s)' /\ TableWhole(s)'
  BY <1>2, TableKept DEF Quiet, server, leases, timing
<1>4. ASSUME NEW r \in Servers, Server(r) \/ Command(r) \/ Operator(r), r # s
      PROVE  Quiet(s)' /\ TableWhole(s)'
  <2>1. /\ pool'[s] = pool[s] /\ entry'[s] = entry[s] /\ writing'[s] = writing[s]
        /\ count'[s] = count[s] /\ due'[s] = due[s] /\ told'[s] = told[s]
    BY <1>4, OtherTables
  <2>2. TableWhole(s)'
    BY <1>2, <2>1, TableKept
  <2>3. QED
    BY <1>2, <2>1, <2>2 DEF Quiet
<1>5. CASE Server(s)
  BY <1>2, <1>5, QuietServer, TableHandled
<1>6. CASE Insert(s)
  <2>1. pool[s] \subseteq pool'[s] /\ UNCHANGED <<entry, writing, timing>>
    BY <1>6 DEF Insert, TypeOK
  <2>2. TableWhole(s)'
    BY <1>2, <2>1, TableKept
  <2>3. QED
    BY <1>2, <2>1, <2>2 DEF Quiet, timing
<1>7. ASSUME NEW block, AddToPool(s, block) PROVE Quiet(s)' /\ TableWhole(s)'
  <2>1. UNCHANGED <<pool, entry, writing, timing>>
    BY <1>7 DEF AddToPool, leases
  <2>2. TableWhole(s)'
    BY <1>2, <2>1, TableKept
  <2>3. QED
    BY <1>2, <2>1, <2>2 DEF Quiet, timing
<1>8. ASSUME NEW time PROVE ~ AdvanceTime(s, time)
  <2>1. SUFFICES ASSUME AdvanceTime(s, time) PROVE FALSE
    OBVIOUS
  <2>2. typed' = [typed EXCEPT ![s]["add_time"] = @ + 1]
    BY <2>1 DEF AdvanceTime, Type
  <2>3. typed'[s]["add_time"] = 1
    BY <1>1, <2>2, ConstantTypes DEF Untimed, TypeOK, Commands
  <2>4. QED
    BY <2>3 DEF Untimed
<1>9. CASE Command(s) \/ Operator(s)
  BY <1>2, <1>6, <1>7, <1>8, <1>9, QuietCommand
<1>10. ASSUME NEW c \in Clients, Client(c) \/ User(c) PROVE UNCHANGED server
  BY <1>10 DEF Client, Relay, HandleOffer, HandleDhcpAck, HandleTimeout, HandleResponseExtend,
               Drop, User, SendDiscover, SendRequest, SendRequestExtend, SendRelease
<1>11. ASSUME NEW m, DataRace(m) \/ \E t \in Threads : SendFrame(m, t) PROVE UNCHANGED server
  BY <1>11 DEF DataRace, SendFrame
<1>12. UNCHANGED vars => UNCHANGED server
  BY DEF vars
<1>13. QED
  BY <1>3, <1>4, <1>5, <1>9, <1>10, <1>11, <1>12 DEF Next

-----------------------------------------------------------------------------
(***************************************************************************)
(* Offers, requests and leases of a calm network.                          *)
(***************************************************************************)

\* A calm network has always been calm.
LEMMA CalmBefore ==
  ASSUME TypeOK, [Next]_vars, Calm'
  PROVE  Calm
<1>1. ASSUME NEW m \in Machines, NEW op \in {"add_time", "extend", "release"}
      PROVE  typed[m][op] = 0
  <2>1. op \in Commands
    BY DEF Commands
  <2>2. typed[m][op] \in Nat /\ typed[m][op] <= typed'[m][op] /\ typed'[m][op] = 0
    BY <2>1, TypedStep DEF Calm, TypeOK
  <2>3. QED
    BY <2>2
<1>2. ASSUME NEW c \in Clients PROVE typed[c]["accept"] <= 1
  <2>1. c \in Machines /\ "accept" \in Commands
    BY ConstantTypes DEF Commands
  <2>2. /\ typed[c]["accept"] \in Nat /\ typed'[c]["accept"] \in Nat
        /\ typed[c]["accept"] <= typed'[c]["accept"] /\ typed'[c]["accept"] <= 1
    <3>1. typed' \in [Machines -> [Commands -> Nat]]
      BY TypeStep DEF TypeOK
    <3>2. QED
      BY ZenonT(60), <2>1, <3>1, TypedStep DEF Calm, TypeOK
  <2>3. QED
    BY <2>2
<1>3. QED
  BY <1>1, <1>2 DEF Calm

\* The steps a calm network can take.
LEMMA CalmSteps ==
  ASSUME TypeOK, Calm, Calm', Silent, \A s \in Servers : Quiet(s), [Next]_vars
  PROVE  \/ \E s \in Servers, n \in Machines :
               \/ HandleDiscover(s, n) \/ HandleRequest(s, n)
               \/ HandleAck(s, n) \/ Drop(s, n)
         \/ \E s \in Servers :
               \/ Pass(s) \/ Grant(s) \/ Cancel(s) \/ GiveUp(s) \/ WriteField(s, "main")
               \/ Insert(s)
               \/ \E block \in Blocks[s] : AddToPool(s, block)
         \/ \E c \in Clients, n \in Machines :
               \/ Relay(c, n) \/ HandleOffer(c, n) \/ HandleDhcpAck(c, n)
               \/ HandleTimeout(c, n) \/ Drop(c, n)
         \/ \E c \in Clients : \E time \in Times[c] :
               \/ SendDiscover(c, time)
               \/ \E ip \in Addresses \cup {0} : SendRequest(c, ip, time)
         \/ \E m \in Machines : DataRace(m) \/ \E t \in Threads : SendFrame(m, t)
         \/ UNCHANGED vars
<1>1. ASSUME NEW m \in Machines, NEW op \in {"add_time", "extend", "release"} PROVE ~ Type(m, op)
  <2>1. SUFFICES ASSUME Type(m, op) PROVE FALSE
    OBVIOUS
  <2>2. typed[m][op] = 0 /\ typed'[m][op] = 0
    BY DEF Calm
  <2>3. typed'[m][op] = typed[m][op] + 1
    BY <2>1 DEF Type, TypeOK, Commands
  <2>4. QED
    BY <2>2, <2>3
<1>2. ASSUME NEW m \in Machines, NEW n \in Machines,
             NEW type \in {"RELEASE", "REQUEST_EXTEND", "RESPONSE_EXTEND"}, Receive(m, n, {type})
      PROVE  FALSE
  <2>1. /\ UnderWay(Head(net[m][n])) /\ Head(net[m][n]) \in Frames
        /\ Head(net[m][n]).type \in {type}
    BY <1>2, HeadUnderWay, ReceiveType
  <2>2. QED
    BY <2>1 DEF Silent
<1>3. ASSUME NEW s \in Servers, Command(s) \/ Operator(s)
      PROVE  Insert(s) \/ \E block \in Blocks[s] : AddToPool(s, block)
  <2>1. ASSUME NEW time \in Times[s] PROVE ~ AdvanceTime(s, time)
    BY <1>1, ConstantTypes DEF AdvanceTime
  <2>2. QED
    BY <1>3, <2>1, QuietCommand
<1>4. ASSUME NEW s \in Servers, NEW n \in Machines
      PROVE  ~ HandleRelease(s, n) /\ ~ HandleRequestExtend(s, n)
  BY <1>2, ConstantTypes DEF HandleRelease, HandleRequestExtend
<1>5. ASSUME NEW s \in Servers, Server(s)
      PROVE  \/ \E n \in Machines : \/ HandleDiscover(s, n) \/ HandleRequest(s, n)
                                    \/ HandleAck(s, n) \/ Drop(s, n)
             \/ Pass(s) \/ Grant(s) \/ Cancel(s) \/ GiveUp(s) \/ WriteField(s, "main")
  BY <1>4, <1>5 DEF Server, Senders
<1>6. ASSUME NEW c \in Clients, NEW n \in Machines PROVE ~ HandleResponseExtend(c, n)
  BY <1>2, ConstantTypes DEF HandleResponseExtend, ReceiveMine
<1>7. ASSUME NEW c \in Clients, Client(c)
      PROVE  \E n \in Machines : \/ Relay(c, n) \/ HandleOffer(c, n) \/ HandleDhcpAck(c, n)
                                 \/ HandleTimeout(c, n) \/ Drop(c, n)
  BY <1>6, <1>7 DEF Client, Senders
<1>8. ASSUME NEW c \in Clients, NEW ip, NEW time
      PROVE  ~ SendRelease(c, ip) /\ ~ SendRequestExtend(c, ip, time)
  BY <1>1, ConstantTypes DEF SendRelease, SendRequestExtend
<1>9. ASSUME NEW c \in Clients, User(c)
      PROVE  \E time \in Times[c] : \/ SendDiscover(c, time)
                                    \/ \E ip \in Addresses \cup {0} : SendRequest(c, ip, time)
  BY <1>8, <1>9 DEF User
<1>10. QED
  BY <1>3, <1>5, <1>7, <1>9 DEF Next

\* A client that has accepted has, nothing more is asked for, and what has been
\* heard of stands.
Steady ==
  \A c \in Clients :
    /\ typed'[c]["accept"] = 0 => typed[c]["accept"] = 0
    /\ \A a \in Addresses \cup {0} : Wanted(c, a)' => Wanted(c, a)
    /\ Heard(c) => Heard(c)'

\* What a step leaves as it should be when all it adds is a question, an offer
\* of a reserved address or an ACK of a lease that was asked for.
LEMMA NothingNew ==
  ASSUME FramesStand,
         \A c \in Clients : typed'[c]["accept"] = 0 => typed[c]["accept"] = 0,
         \A f \in Frames : UnderWay(f)' =>
            \/ UnderWay(f)
            \/ f.type = "DISCOVER"
            \/ f.type = "OFFER" /\ (f.ip \in Addresses => Reserved(f.ip, f.mac)')
            \/ f.type = "ACK" /\ Wanted(f.mac, f.ip) /\ Leased(f.ip, f.mac)',
         \A f \in Frames : Pending(f)' /\ f.type = "ACK" => Wanted(f.mac, f.ip),
         \A c \in Clients : \A o \in offers'[c] : Offered(c, o.ip),
         \A c \in Clients, a \in Addresses \cup {0} : Holds(c, a)' => Confirmed(c, a),
         \A c \in Clients, a \in Addresses \cup {0} :
            /\ Wanted(c, a) /\ Leased(a, c) => Leased(a, c)'
            /\ (typed[c]["accept"] = 0 \/ Wanted(c, a)) /\ Reserved(a, c) => Reserved(a, c)'
  PROVE  FramesStand' /\ Steady
<1>1. Silent /\ OffersStand /\ RequestsStand
  BY DEF FramesStand
<1>2. Silent'
  BY <1>1 DEF Silent
<1>3. ASSUME NEW c \in Clients, NEW a \in Addresses \cup {0}, Confirmed(c, a)'
      PROVE  Wanted(c, a) /\ (Confirmed(c, a) \/ Leased(a, c)')
  BY <1>3 DEF Confirmed, Wanted
<1>4. ASSUME NEW c \in Clients, NEW a \in Addresses \cup {0}, Wanted(c, a)' PROVE Wanted(c, a)
  BY <1>3, <1>4 DEF Wanted
<1>5. ASSUME NEW c \in Clients, NEW a \in Addresses, Offered(c, a)'
      PROVE  Offered(c, a) \/ Reserved(a, c)'
  BY <1>5 DEF Offered
<1>6. OffersStand'
  BY <1>1, <1>4, <1>5 DEF OffersStand
<1>7. RequestsStand'
  BY <1>1, <1>3, <1>4 DEF RequestsStand
<1>8. ASSUME NEW c \in Clients, Heard(c) PROVE Heard(c)'
  BY <1>4, <1>8 DEF Heard
<1>9. QED
  BY <1>2, <1>4, <1>6, <1>7, <1>8 DEF FramesStand, Steady

\* That goes for every step that leaves entries, offers and ips as they are and
\* sends nothing but questions and offers of no address.
LEMMA CalmPassing ==
  ASSUME FramesStand, UNCHANGED <<entry, offers, ips>>,
         \A s \in Servers : pool[s] \subseteq pool'[s],
         \A c \in Clients : typed'[c]["accept"] = 0 => typed[c]["accept"] = 0,
         \A f \in Frames : UnderWay(f)' =>
            UnderWay(f) \/ f.type = "DISCOVER" \/ (f.type = "OFFER" /\ f.ip \notin Addresses),
         \A f \in Frames : Pending(f)' /\ f.type = "ACK" => Wanted(f.mac, f.ip)
  PROVE  FramesStand' /\ Steady
<1>1. \A c \in Clients : \A o \in offers'[c] : Offered(c, o.ip)
  BY DEF Offered
<1>2. \A c \in Clients, a \in Addresses \cup {0} : Holds(c, a)' => Confirmed(c, a)
  BY DEF Confirmed, Holds
<1>3. \A c, a : (Leased(a, c) => Leased(a, c)') /\ (Reserved(a, c) => Reserved(a, c)')
  BY DEF Leased, Reserved
<1>4. QED
  BY <1>1, <1>2, <1>3, NothingNew

\* A server whose table, walk and write stay has them in order.
LEMMA TablesKept ==
  ASSUME TypeOK, Formed, Steady, NEW s \in Servers, SearchStands(s), WriteStands(s),
         entry'[s] = entry[s], writing'[s]["main"] = writing[s]["main"],
         search'[s] \subseteq search[s]
  PROVE  SearchStands(s)' /\ WriteStands(s)'
<1>1. SearchStands(s)'
  <2>1. \A q \in search'[s] : q.mac \in Clients /\ (q.for = "OFFER" \/ (q.for = "ACK" /\ Heard(q.mac)))
    BY DEF Formed, SearchStands
  <2>2. \A q \in search'[s] : q.for = "OFFER" \/ (q.for = "ACK" /\ Heard(q.mac)')
    BY <2>1 DEF Steady
  <2>3. QED
    BY <2>2 DEF SearchStands
<1>2. WriteStands(s)'
  <2> DEFINE w == writing[s]["main"]
             mac == entry[s][w.ip].mac
  <2>1. SUFFICES ASSUME w # Nothing PROVE WriteStands(s)'
    BY DEF WriteStands
  <2>2. w.ip \in Addresses
    BY <2>1, WritesType DEF Threads
  <2>3. mac \in Clients /\ mac # w.to.mac => typed'[mac]["accept"] # 0 /\ ~ Wanted(mac, w.ip)'
    BY <2>1, <2>2 DEF WriteStands, Steady
  <2>4. QED
    BY <2>1, <2>3 DEF WriteStands
<1>3. QED
  BY <1>1, <1>2

\* A step of one server leaves the tables of the others in order.
LEMMA OthersStand ==
  ASSUME TypeOK, Formed, TablesStand, Steady, NEW s \in Servers,
         Server(s) \/ Command(s) \/ Operator(s), SearchStands(s)', WriteStands(s)'
  PROVE  TablesStand'
<1>1. ASSUME NEW r \in Servers, r # s PROVE SearchStands(r)' /\ WriteStands(r)'
  <2>1. entry'[r] = entry[r] /\ writing'[r] = writing[r] /\ search'[r] = search[r]
    BY <1>1, OtherTables
  <2>2. QED
    BY <2>1, TablesKept DEF TablesStand
<1>2. QED
  BY <1>1 DEF TablesStand

\* A client's step leaves all of them in order.
LEMMA ClientsStand ==
  ASSUME TypeOK, Formed, TablesStand, Steady, UNCHANGED server
  PROVE  TablesStand'
<1>1. \A s \in Servers : /\ entry'[s] = entry[s] /\ writing'[s]["main"] = writing[s]["main"]
                         /\ search'[s] \subseteq search[s]
  BY DEF server, leases
<1>2. QED
  BY <1>1, TablesKept DEF TablesStand

\* What waits for an answer of a client that has been heard is none it wants.
LEMMA HeardWaits ==
  ASSUME TypeOK, Formed, NEW s \in Servers, NEW c \in Clients, Heard(c),
         NEW a \in pool[s], entry[s][a].mac = c, entry[s][a].waiting
  PROVE  typed[c]["accept"] # 0 /\ ~ Wanted(c, a)
<1>1. a \in Addresses
  BY DEF TypeOK
<1>2. ASSUME Wanted(c, a) PROVE FALSE
  <2>1. Leased(a, c)
    BY <1>1, <1>2 DEF Heard
  <2>2. PICK r \in Servers : a \in pool[r] /\ entry[r][a].mac = c /\ ~ entry[r][a].waiting
    BY <2>1 DEF Leased
  <2>3. a \in UNION Blocks[r] /\ a \in UNION Blocks[s]
    BY <2>2 DEF Formed
  <2>4. r = s
    BY <2>3, BlocksAssumption
  <2>5. QED
    BY <2>2, <2>4
<1>3. QED
  BY <1>2 DEF Heard

\* handle_hdcp_discover starts to look for an address.
LEMMA CalmDiscover ==
  ASSUME TypeOK, Formed, FramesStand, TablesStand, NEW s \in Servers, NEW n \in Machines,
         HandleDiscover(s, n)
  PROVE  (FramesStand /\ TablesStand)'
<1>1. Receive(s, n, {"DISCOVER"}) /\ UNCHANGED <<leases, writing, client, out>>
  BY DEF HandleDiscover
<1>2. \A f \in Frames : UnderWay(f)' => UnderWay(f)
  BY <1>1, SilenceUnderWay, ConstantTypes
<1>3. \A f \in Frames : Pending(f)' /\ f.type = "ACK" => Wanted(f.mac, f.ip)
  BY <1>1 DEF Pending, Wanted
<1>4. FramesStand' /\ Steady
  BY Zenon, <1>1, <1>2, <1>3, CalmPassing DEF leases, client, Receive
<1>5. WriteStands(s)'
  <2>1. SearchStands(s) /\ WriteStands(s) /\ UNCHANGED <<entry, writing>>
    BY <1>1 DEF TablesStand, leases
  <2> DEFINE w == writing[s]["main"]
             mac == entry[s][w.ip].mac
  <2>2. SUFFICES ASSUME w # Nothing PROVE WriteStands(s)'
    BY <2>1 DEF WriteStands
  <2>3. w.ip \in Addresses
    BY <2>2, WritesType DEF Threads
  <2>4. mac \in Clients /\ mac # w.to.mac => typed'[mac]["accept"] # 0 /\ ~ Wanted(mac, w.ip)'
    BY <1>4, <2>1, <2>2, <2>3 DEF WriteStands, Steady
  <2>5. QED
    BY <2>1, <2>2, <2>4 DEF WriteStands
<1>6. SearchStands(s)'
  <2> DEFINE q == [for |-> "OFFER", mac |-> Head(net[s][n]).mac, time |-> Head(net[s][n]).time,
                   back |-> n, at |-> 0]
  <2>1. search' = [search EXCEPT ![s] = {q}] /\ q.for = "OFFER"
    BY DEF HandleDiscover, StartSearch
  <2> HIDE DEF q
  <2>2. search'[s] = {q}
    BY <2>1 DEF TypeOK
  <2>3. QED
    BY <2>1, <2>2 DEF SearchStands
<1>7. Server(s)
  BY <1>1 DEF Server, Senders, Receive
<1>8. QED
  BY <1>4, <1>5, <1>6, <1>7, OthersStand

\* handle_hdcp_request looks at neither state nor mac; both are as they should be.
LEMMA CalmRequest ==
  ASSUME TypeOK, Formed, FramesStand, TablesStand, NEW s \in Servers, NEW n \in Machines,
         HandleRequest(s, n)
  PROVE  (FramesStand /\ TablesStand)'
<1> DEFINE f == Head(net[s][n])
           e == [entry[s][f.ip] EXCEPT !.waiting = FALSE, !.ttl = f.time]
           g == Frame("ACK", f.mac, f.ip, f.time)
<1>1. /\ Receive(s, n, {"REQUEST"}) /\ UNCHANGED <<leases, search, client, out>>
      /\ UNCHANGED writing
         \/ (f.ip \in pool[s] /\ Write(s, "main", f.ip, e, <<"waiting", "ttl">>, To(n, g)))
  BY DEF HandleRequest
<1>2. UnderWay(f) /\ f \in Frames /\ f.type = "REQUEST"
  BY <1>1, HeadUnderWay, ReceiveType, ConstantTypes
<1>3. f.mac \in Clients /\ f.ip \in Addresses \cup {0} /\ Wanted(f.mac, f.ip)
  BY <1>2 DEF Formed, Wanted, Frames
<1>4. \A h \in Frames : UnderWay(h)' => UnderWay(h)
  BY <1>1, SilenceUnderWay, ConstantTypes
<1>5. \A p \in To(n, g) : p.frame = g
  BY DEF To
<1>6. g.type = "ACK" /\ g.mac = f.mac /\ g.ip = f.ip
  BY DEF Frame
<1>7. ASSUME NEW h \in Frames, Pending(h)', h.type = "ACK" PROVE Wanted(h.mac, h.ip)
  <2>1. CASE Pending(h)
    BY <1>7, <2>1 DEF Wanted
  <2>2. CASE ~ Pending(h)
    <3> HIDE DEF e, g
    <3>1. Write(s, "main", f.ip, e, <<"waiting", "ttl">>, To(n, g))
      BY <1>1, <1>7, <2>2 DEF Pending
    <3>2. \E p \in To(n, g) : p.frame = h
      BY <1>7, <2>2, <3>1, WritePending
    <3>3. QED
      BY <1>3, <1>5, <1>6, <3>2
  <2>3. QED
    BY <2>1, <2>2
<1>8. FramesStand' /\ Steady
  BY <1>1, <1>4, <1>7, CalmPassing DEF leases, client, Receive
<1>9. CASE UNCHANGED writing
  <2>1. SearchStands(s)' /\ WriteStands(s)'
    BY <1>1, <1>8, <1>9, TablesKept DEF TablesStand, leases
  <2>2. Server(s)
    BY <1>1 DEF Server, Senders, Receive
  <2>3. QED
    BY <1>8, <2>1, <2>2, OthersStand
<1>10. CASE f.ip \in pool[s] /\ Write(s, "main", f.ip, e, <<"waiting", "ttl">>, To(n, g))
  <2>1. f.ip \in Addresses /\ f.ip # 0
    BY <1>10, ConstantTypes DEF TypeOK
  <2>2. e.mac = entry[s][f.ip].mac /\ ~ e.waiting
    <3>1. entry[s][f.ip] \in Entries
      BY <2>1 DEF TypeOK
    <3>2. QED
      BY <3>1 DEF Entries
  <2>3. entry[s][f.ip].mac = f.mac
    <3>1. Reserved(f.ip, f.mac)
      BY <1>3, <2>1 DEF FramesStand, RequestsStand
    <3>2. PICK r \in Servers : f.ip \in pool[r] /\ entry[r][f.ip].mac = f.mac
      BY <3>1 DEF Reserved
    <3>3. f.ip \in UNION Blocks[r] /\ f.ip \in UNION Blocks[s]
      BY <1>10, <3>2 DEF Formed
    <3>4. r = s
      BY <3>3, BlocksAssumption
    <3>5. QED
      BY <3>2, <3>4
  <2> DEFINE w == [ip |-> f.ip, to |-> e, left |-> <<"waiting", "ttl">>, answer |-> To(n, g)]
  <2>4. writing'[s]["main"] = w
    BY <1>10, WriteStep DEF Threads
  <2>5. w.ip = f.ip /\ w.to = e /\ w.answer = To(n, g)
    OBVIOUS
  <2>6. SearchStands(s)'
    <3>1. search'[s] = search[s]
      BY <1>1
    <3>2. \A q \in search[s] : q.mac \in Clients /\ (q.for = "OFFER" \/ (q.for = "ACK" /\ Heard(q.mac)))
      BY DEF Formed, TablesStand, SearchStands
    <3>3. QED
      BY <1>8, <3>1, <3>2 DEF SearchStands, Steady
  <2> HIDE DEF w, e, g, f
  <2>7. WriteStands(s)'
    <3>1. entry'[s][w.ip].mac = w.to.mac
      BY <1>1, <2>2, <2>5 DEF leases
    <3>2. \A p \in w.answer : p.frame.mac = w.to.mac /\ p.frame.ip = w.ip /\ p.frame.type = "ACK"
      BY <1>5, <1>6, <2>2, <2>3, <2>5
    <3>3. QED
      BY <2>2, <2>4, <2>5, <3>1, <3>2 DEF WriteStands
  <2>8. Server(s)
    BY <1>1 DEF Server, Senders, Receive
  <2>9. QED
    BY <1>8, <2>6, <2>7, <2>8, OthersStand
<1>11. QED
  BY <1>1, <1>9, <1>10

\* An ACK passed on: its client has accepted, and has what it wants.
LEMMA CalmAck ==
  ASSUME TypeOK, Formed, FramesStand, TablesStand, NEW s \in Servers, NEW n \in Machines,
         HandleAck(s, n)
  PROVE  (FramesStand /\ TablesStand)'
<1> DEFINE f == Head(net[s][n])
<1>1. Receive(s, n, {"ACK"}) /\ UNCHANGED <<leases, writing, client, out>>
  BY DEF HandleAck
<1>2. UnderWay(f) /\ f \in Frames /\ f.type = "ACK"
  BY <1>1, HeadUnderWay, ReceiveType, ConstantTypes
<1>3. f.mac \in Clients /\ f.ip \in Addresses \cup {0} /\ Confirmed(f.mac, f.ip)
  BY <1>2 DEF Formed, Confirmed, Frames
<1>4. Heard(f.mac)
  <2>1. Wanted(f.mac, f.ip) /\ Leased(f.ip, f.mac)
    BY <1>3 DEF Wanted, FramesStand, RequestsStand
  <2>2. typed[f.mac]["accept"] # 0
    BY <1>3, <2>1 DEF FramesStand, OffersStand
  <2>3. \A a \in Addresses \cup {0} : Wanted(f.mac, a) => a = f.ip
    BY <1>3, <2>1 DEF FramesStand, RequestsStand
  <2> HIDE DEF f
  <2>4. QED
    BY <2>1, <2>2, <2>3 DEF Heard
<1>5. \A h \in Frames : UnderWay(h)' => UnderWay(h)
  BY <1>1, SilenceUnderWay, ConstantTypes
<1>6. \A h \in Frames : Pending(h)' /\ h.type = "ACK" => Wanted(h.mac, h.ip)
  BY <1>1 DEF Pending, Wanted
<1>7. FramesStand' /\ Steady
  BY <1>1, <1>5, <1>6, CalmPassing DEF leases, client, Receive
<1>8. SearchStands(s)'
  <2> DEFINE q == [for |-> "ACK", mac |-> f.mac, time |-> 0, back |-> n, at |-> 0]
  <2>1. search' = [search EXCEPT ![s] = {q}] /\ q.for = "ACK" /\ q.mac = f.mac
    BY DEF HandleAck, StartSearch
  <2> HIDE DEF f, q
  <2>2. search'[s] = {q}
    BY <2>1 DEF TypeOK
  <2>3. q.mac \in Clients /\ Heard(q.mac)
    BY <1>3, <1>4, <2>1
  <2>4. \A c : c = q.mac => Heard(c)'
    BY <1>7, <2>3 DEF Steady
  <2>5. QED
    BY <2>1, <2>2, <2>4 DEF SearchStands
<1>9. WriteStands(s)'
  <2>1. writing'[s]["main"] = Nothing
    BY <1>1 DEF Receive, Free
  <2>2. QED
    BY <2>1 DEF WriteStands
<1>10. Server(s)
  BY <1>1 DEF Server, Senders, Receive
<1>11. QED
  BY <1>7, <1>8, <1>9, <1>10, OthersStand

\* get_one_ip takes an address that is nobody's, and a cancelled entry is none
\* that its client wants.
LEMMA CalmWalk ==
  ASSUME TypeOK, Formed, FramesStand, TablesStand, NEW s \in Servers, TableWhole(s),
         Pass(s) \/ Grant(s) \/ Cancel(s) \/ GiveUp(s)
  PROVE  (FramesStand /\ TablesStand)'
<1>1. s \in Machines /\ "main" \in Threads /\ Server(s)
  BY ConstantTypes DEF Threads, Server
<1>2. UNCHANGED <<leases, client, net, typed>>
  BY DEF Pass, Grant, Cancel, GiveUp
<1>3. \A q \in search[s] :
         q.mac \in Clients /\ (q.for = "OFFER" \/ (q.for = "ACK" /\ Heard(q.mac)))
  BY DEF Formed, TablesStand, SearchStands
<1>4. UNCHANGED writing => \A h \in Frames : Pending(h)' /\ h.type = "ACK" => Wanted(h.mac, h.ip)
  BY DEF Pending, Wanted
<1>5. UNCHANGED out => \A h \in Frames : UnderWay(h)' => UnderWay(h)
  BY <1>2 DEF UnderWay
<1>6. search' = [search EXCEPT ![s] = {}] => SearchStands(s)'
  BY DEF SearchStands, TypeOK
<1>7. CASE Pass(s)
  <2>1. PICK q \in search[s], a \in pool[s] : search' = [search EXCEPT ![s] = {[q EXCEPT !.at = a]}]
    BY <1>7 DEF Pass
  <2> DEFINE r == [q EXCEPT !.at = a]
  <2>2. r.mac = q.mac /\ r.for = q.for
    <3>1. q \in Searches
      BY DEF TypeOK
    <3>2. QED
      BY <3>1 DEF Searches
  <2>3. search' = [search EXCEPT ![s] = {r}]
    BY <2>1
  <2> HIDE DEF r
  <2>4. search'[s] = {r}
    BY <2>3 DEF TypeOK
  <2>5. UNCHANGED <<writing, out>>
    BY <1>7 DEF Pass
  <2>6. FramesStand' /\ Steady
    BY <1>2, <1>4, <1>5, <2>5, CalmPassing DEF leases, client
  <2>7. SearchStands(s)'
    <3>1. r.for = "OFFER" \/ (r.for = "ACK" /\ Heard(r.mac)')
      BY <1>3, <2>2, <2>6 DEF Steady
    <3>2. QED
      BY <2>4, <3>1 DEF SearchStands
  <2>8. WriteStands(s)'
    <3>1. writing'[s]["main"] = Nothing
      BY <1>7 DEF Pass, Reads
    <3>2. QED
      BY <3>1 DEF WriteStands
  <2>9. QED
    BY <1>1, <2>6, <2>7, <2>8, OthersStand
<1>8. CASE Grant(s)
  <2>1. PICK q \in search[s], a \in pool[s] :
          /\ Reads(s, q, a) /\ q.for # "ACK" /\ Fits(s, q, a)
          /\ Write(s, "main", a, Granted(q.mac, q.for = "OFFER", q.time),
                   IF q.for = "OFFER" THEN <<"allocated", "waiting", "ttl", "mac">>
                                      ELSE <<"allocated", "ttl", "mac", "waiting">>,
                   To(q.back, Frame(q.for, q.mac, a, q.time)))
    BY <1>8 DEF Grant
  <2> DEFINE to == Granted(q.mac, TRUE, q.time)
             order == <<"allocated", "waiting", "ttl", "mac">>
             g == Frame("OFFER", q.mac, a, q.time)
             w == [ip |-> a, to |-> to, left |-> order, answer |-> To(q.back, g)]
  <2>2. q.for = "OFFER"
    BY <1>3, <2>1
  <2>3. Write(s, "main", a, to, order, To(q.back, g))
    BY <2>1, <2>2
  <2>4. writing'[s]["main"] = w /\ w.ip = a /\ w.to = to /\ w.left = order /\ w.answer = To(q.back, g)
    <3>1. w.ip = a /\ w.to = to /\ w.left = order /\ w.answer = To(q.back, g)
      OBVIOUS
    <3> HIDE DEF to, order, g
    <3>2. writing'[s]["main"] = w
      BY <1>1, <2>3, WriteStep
    <3>3. QED
      BY <3>1, <3>2
  <2>5. \A p \in To(q.back, g) : p.frame = g
    BY DEF To
  <2>6. g.type = "OFFER" /\ g.mac = q.mac /\ g.ip = a
    BY DEF Frame
  <2>7. to.mac = q.mac /\ to.waiting = TRUE
    BY DEF Granted
  <2>8. entry[s][a].mac = NoMac
    <3>1. a \in Addresses /\ ~ entry[s][a].allocated /\ writing[s]["main"] = Nothing
      BY <2>1, <2>2 DEF Fits, Reads, TypeOK
    <3>2. QED
      BY <3>1 DEF TableWhole, Whole
  <2> HIDE DEF to, g, w
  <2>9. ASSUME NEW h \in Frames, Pending(h)', h.type = "ACK" PROVE Wanted(h.mac, h.ip)
    <3>1. Pending(h) \/ \E p \in To(q.back, g) : p.frame = h
      BY <2>3, <2>9, WritePending
    <3>2. QED
      BY <2>5, <2>6, <2>9, <3>1 DEF Wanted
  <2>10. FramesStand' /\ Steady
    BY <1>2, <1>5, <1>8, <2>9, CalmPassing DEF leases, client, Grant
  <2>11. WriteStands(s)'
    <3>1. entry'[s][w.ip].mac = NoMac /\ NoMac \notin Clients
      BY <1>2, <2>4, <2>8, MachinesAssumption DEF leases
    <3>2. \A p \in w.answer : p.frame.mac = w.to.mac /\ p.frame.ip = w.ip /\ p.frame.type = "OFFER"
      BY <2>4, <2>5, <2>6, <2>7
    <3>3. QED
      BY <2>4, <3>1, <3>2 DEF WriteStands
  <2>12. QED
    BY <1>1, <1>6, <1>8, <2>10, <2>11, OthersStand DEF Grant
<1>9. CASE Cancel(s)
  <2>1. PICK q \in search[s], a \in pool[s] :
          /\ q.for = "ACK" /\ Fits(s, q, a)
          /\ Write(s, "main", a, FreeEntry, <<"waiting", "allocated", "ttl", "mac">>, {})
    BY <1>9 DEF Cancel
  <2> DEFINE order == <<"waiting", "allocated", "ttl", "mac">>
             none == {}
             w == [ip |-> a, to |-> FreeEntry, left |-> order, answer |-> none]
  <2>2. writing'[s]["main"] = w /\ w.ip = a /\ w.to = FreeEntry /\ w.answer = {}
    <3>1. w.ip = a /\ w.to = FreeEntry /\ w.answer = {}
      OBVIOUS
    <3>2. Write(s, "main", a, FreeEntry, order, none)
      BY <2>1
    <3> HIDE DEF order, none
    <3>3. writing'[s]["main"] = w
      BY <1>1, <3>2, WriteStep
    <3>4. QED
      BY <3>1, <3>3
  <2>3. FreeEntry.waiting = FALSE
    BY DEF FreeEntry
  <2>4. entry[s][a].mac = q.mac /\ entry[s][a].waiting
    BY <2>1 DEF Fits
  <2>5. typed[q.mac]["accept"] # 0 /\ ~ Wanted(q.mac, a)
    BY <1>3, <2>1, <2>4, HeardWaits
  <2> HIDE DEF w
  <2>6. ASSUME NEW h \in Frames, Pending(h)', h.type = "ACK" PROVE Wanted(h.mac, h.ip)
    <3>1. Pending(h)
      BY <2>1, <2>6, WritePending
    <3>2. QED
      BY <2>6, <3>1 DEF Wanted
  <2>7. FramesStand' /\ Steady
    BY <1>2, <1>5, <1>9, <2>6, CalmPassing DEF leases, client, Cancel
  <2>8. WriteStands(s)'
    <3>1. entry'[s][w.ip].mac = q.mac
      BY <1>2, <2>2, <2>4 DEF leases
    <3>2. typed'[q.mac]["accept"] # 0 /\ ~ Wanted(q.mac, a)'
      <4>1. a \in Addresses \cup {0} /\ q.mac \in Clients
        BY <1>3 DEF TypeOK
      <4>2. QED
        BY <2>5, <2>7, <4>1 DEF Steady
    <3>3. QED
      BY <2>2, <2>3, <3>1, <3>2 DEF WriteStands
  <2>9. QED
    BY <1>1, <1>6, <1>9, <2>7, <2>8, OthersStand DEF Cancel
<1>10. CASE GiveUp(s)
  <2>1. PICK q \in search[s] :
           IF q.for = "ACK" THEN UNCHANGED out
           ELSE out' = [out EXCEPT ![s]["main"] = To(q.back, Frame(q.for, q.mac, 0, q.time))]
    BY <1>10 DEF GiveUp
  <2> DEFINE g == Frame(q.for, q.mac, 0, q.time)
  <2>2. \A p \in To(q.back, g) : p.frame.type = q.for /\ p.frame.ip = 0
    BY DEF To, Frame
  <2>3. UNCHANGED out \/ (q.for = "OFFER" /\ out' = [out EXCEPT ![s]["main"] = To(q.back, g)])
    BY <1>3, <2>1
  <2> HIDE DEF g
  <2>4. ASSUME NEW h, UnderWay(h)' PROVE UnderWay(h) \/ (h.type = "OFFER" /\ h.ip \notin Addresses)
    <3>1. CASE UNCHANGED out
      BY <1>2, <2>4, <3>1 DEF UnderWay
    <3>2. CASE q.for = "OFFER" /\ out' = [out EXCEPT ![s]["main"] = To(q.back, g)]
      <4>1. UnderWay(h) \/ \E p \in To(q.back, g) : p.frame = h
        BY <1>1, <1>2, <2>4, <3>2, DoneUnderWay
      <4>2. QED
        BY <2>2, <3>2, <4>1, ConstantTypes
    <3>3. QED
      BY <2>3, <3>1, <3>2
  <2>5. FramesStand' /\ Steady
    BY <1>2, <1>4, <1>10, <2>4, CalmPassing DEF leases, client, GiveUp
  <2>6. WriteStands(s)'
    <3>1. writing'[s]["main"] = Nothing
      BY <1>10 DEF GiveUp
    <3>2. QED
      BY <3>1 DEF WriteStands
  <2>7. QED
    BY <1>1, <1>6, <1>10, <2>5, <2>6, OthersStand DEF GiveUp
<1>11. QED
  BY <1>7, <1>8, <1>9, <1>10

\* The fields of an offer in their order: the mac is the last.
LEMMA OfferLeft ==
  \A left \in {<<"allocated", "waiting", "ttl", "mac">>, <<"waiting", "ttl", "mac">>,
               <<"ttl", "mac">>, <<"mac">>} :
    Len(left) # 1 =>
      /\ Head(left) # "mac"
      /\ Tail(left) \in {<<"allocated", "waiting", "ttl", "mac">>, <<"waiting", "ttl", "mac">>,
                         <<"ttl", "mac">>, <<"mac">>}
<1>1. Tail(<<"allocated", "waiting", "ttl", "mac">>) = <<"waiting", "ttl", "mac">>
  OBVIOUS
<1>2. Tail(<<"waiting", "ttl", "mac">>) = <<"ttl", "mac">>
  OBVIOUS
<1>3. Tail(<<"ttl", "mac">>) = <<"mac">>
  OBVIOUS
<1>4. /\ Head(<<"allocated", "waiting", "ttl", "mac">>) = "allocated"
      /\ Head(<<"waiting", "ttl", "mac">>) = "waiting"
      /\ Head(<<"ttl", "mac">>) = "ttl" /\ Len(<<"mac">>) = 1
  OBVIOUS
<1>5. QED
  BY <1>1, <1>2, <1>3, <1>4

\* A field is written: nothing that is wanted is taken away, and what goes out
\* then is an offer of what is reserved or an ACK of what is leased.
LEMMA CalmWrite ==
  ASSUME TypeOK, Formed, FramesStand, TablesStand, NEW s \in Servers, TableWhole(s),
         WriteField(s, "main")
  PROVE  (FramesStand /\ TablesStand)'
<1> DEFINE w == writing[s]["main"]
           v == writing'[s]["main"]
           d == entry[s][w.ip]
           e == entry'[s][w.ip]
<1>1. "main" \in Threads /\ UNCHANGED <<pool, search, client, net, typed>> /\ Server(s)
  BY DEF Threads, WriteField, Server
<1>2. w # Nothing /\ w.ip \in pool[s] /\ w.ip \in Addresses /\ w.to \in Entries
  BY <1>1, FieldStep DEF TableWhole
<1>3. \A r \in Servers, a \in Addresses : ~ (r = s /\ a = w.ip) => entry'[r][a] = entry[r][a]
  BY <1>1, FieldStep
<1>4. /\ e.waiting = IF Head(w.left) = "waiting" THEN w.to.waiting ELSE d.waiting
      /\ e.mac = IF Head(w.left) = "mac" THEN w.to.mac ELSE d.mac
  BY <1>1, FieldStep
<1>5. /\ \A p \in w.answer : /\ p.frame.mac = w.to.mac /\ p.frame.ip = w.ip
                             /\ p.frame.type = "OFFER" \/ (p.frame.type = "ACK" /\ ~ w.to.waiting)
      /\ d.mac \in Clients /\ d.mac # w.to.mac => typed[d.mac]["accept"] # 0 /\ ~ Wanted(d.mac, w.ip)
      /\ w.to.waiting =>
           /\ d.mac = NoMac
           /\ w.left \in {<<"allocated", "waiting", "ttl", "mac">>, <<"waiting", "ttl", "mac">>,
                          <<"ttl", "mac">>, <<"mac">>}
  BY <1>2 DEF TablesStand, WriteStands
<1>6. v = Nothing => e.waiting = w.to.waiting /\ e.mac = w.to.mac
  BY TableWritten
<1>7. \/ v = Nothing
      \/ /\ v # Nothing /\ Len(w.left) # 1 /\ v.ip = w.ip /\ v.to = w.to
         /\ v.left = Tail(w.left) /\ v.answer = w.answer
  BY <1>1, FieldStep
<1>8. \A f : /\ UnderWay(f)' => UnderWay(f) \/ (v = Nothing /\ \E p \in w.answer : p.frame = f)
             /\ Pending(f)' => Pending(f)
  BY <1>1, WriteUnderWay
<1>9. NoMac \notin Clients
  BY MachinesAssumption
<1>10. \A r \in Servers : pool[r] \subseteq Addresses
  BY DEF TypeOK
<1>11. \A p \in w.answer : Pending(p.frame)
  BY DEF Pending
<1> HIDE DEF w, v, d, e
<1>12. ASSUME NEW c \in Clients, NEW a \in Addresses \cup {0}, Wanted(c, a), Leased(a, c)
       PROVE  Leased(a, c)'
  <2>1. PICK r \in Servers : a \in pool[r] /\ entry[r][a].mac = c /\ ~ entry[r][a].waiting
    BY <1>12 DEF Leased
  <2>2. CASE ~ (r = s /\ a = w.ip)
    BY <1>1, <1>3, <1>10, <2>1, <2>2 DEF Leased
  <2>3. CASE r = s /\ a = w.ip
    <3>1. d.mac = c /\ ~ d.waiting
      BY <2>1, <2>3 DEF d
    <3>2. c = w.to.mac /\ ~ w.to.waiting
      BY <1>5, <1>9, <1>12, <2>3, <3>1
    <3>3. e.mac = c /\ ~ e.waiting
      BY <1>4, <3>1, <3>2
    <3>4. QED
      BY <1>1, <2>1, <2>3, <3>3 DEF Leased, e
  <2>4. QED
    BY <2>2, <2>3
<1>13. ASSUME NEW c \in Clients, NEW a \in Addresses \cup {0},
              typed[c]["accept"] = 0 \/ Wanted(c, a), Reserved(a, c)
       PROVE  Reserved(a, c)'
  <2>1. PICK r \in Servers : a \in pool[r] /\ entry[r][a].mac = c
    BY <1>13 DEF Reserved
  <2>2. CASE ~ (r = s /\ a = w.ip)
    BY <1>1, <1>3, <1>10, <2>1, <2>2 DEF Reserved
  <2>3. CASE r = s /\ a = w.ip
    <3>1. d.mac = c
      BY <2>1, <2>3 DEF d
    <3>2. c = w.to.mac
      BY <1>5, <1>13, <2>3, <3>1
    <3>3. e.mac = c
      BY <1>4, <3>1, <3>2
    <3>4. QED
      BY <1>1, <2>1, <2>3, <3>3 DEF Reserved, e
  <2>4. QED
    BY <2>2, <2>3
<1>14. ASSUME NEW f \in Frames, UnderWay(f)', ~ UnderWay(f)
       PROVE  \/ f.type = "OFFER" /\ Reserved(f.ip, f.mac)'
              \/ f.type = "ACK" /\ Wanted(f.mac, f.ip) /\ Leased(f.ip, f.mac)'
  <2>1. v = Nothing /\ \E p \in w.answer : p.frame = f
    BY <1>8, <1>14
  <2>2. /\ f.mac = w.to.mac /\ f.ip = w.ip /\ Pending(f)
        /\ f.type = "OFFER" \/ (f.type = "ACK" /\ ~ w.to.waiting)
    BY <1>5, <1>11, <2>1
  <2>3. e.mac = f.mac /\ (f.type = "ACK" => ~ e.waiting)
    BY <1>6, <2>1, <2>2
  <2>4. w.ip \in pool'[s]
    BY <1>1, <1>2
  <2>5. \A a : a = w.ip => Reserved(a, f.mac)'
    BY <2>3, <2>4 DEF Reserved, e
  <2>6. \A a : f.type = "ACK" /\ a = w.ip => Leased(a, f.mac)'
    BY <2>3, <2>4 DEF Leased, e
  <2>7. f.type = "ACK" => Wanted(f.mac, f.ip)
    BY <2>2 DEF Wanted
  <2>8. QED
    BY <2>2, <2>5, <2>6, <2>7
<1>15. FramesStand' /\ Steady
  <2>1. UNCHANGED <<offers, ips>>
    BY <1>1 DEF client
  <2>2. \A c \in Clients : \A o \in offers'[c] : Offered(c, o.ip)
    BY <2>1 DEF Offered
  <2>3. \A c \in Clients, a \in Addresses \cup {0} : Holds(c, a)' => Confirmed(c, a)
    BY <2>1 DEF Confirmed, Holds
  <2>4. \A f \in Frames : Pending(f)' /\ f.type = "ACK" => Wanted(f.mac, f.ip)
    BY <1>8 DEF Wanted
  <2>5. QED
    BY <1>1, <1>12, <1>13, <1>14, <2>2, <2>3, <2>4, NothingNew
<1>16. SearchStands(s)'
  <2>1. search'[s] = search[s]
    BY <1>1
  <2>2. \A q \in search[s] :
           q.mac \in Clients /\ (q.for = "OFFER" \/ (q.for = "ACK" /\ Heard(q.mac)))
    BY DEF Formed, TablesStand, SearchStands
  <2>3. QED
    BY <1>15, <2>1, <2>2 DEF SearchStands, Steady
<1>17. WriteStands(s)'
  <2>1. CASE v = Nothing
    BY <2>1 DEF WriteStands, v
  <2>2. CASE v # Nothing
    <3>1. /\ Len(w.left) # 1 /\ v.ip = w.ip /\ v.to = w.to
          /\ v.left = Tail(w.left) /\ v.answer = w.answer
      BY <1>7, <2>2
    <3>2. \A c \in Clients : \A a : c = e.mac /\ a = w.ip /\ c # w.to.mac =>
             typed'[c]["accept"] # 0 /\ ~ Wanted(c, a)'
      BY <1>2, <1>4, <1>5, <1>15 DEF Steady
    <3>3. w.to.waiting =>
            /\ e.mac = NoMac
            /\ v.left \in {<<"allocated", "waiting", "ttl", "mac">>, <<"waiting", "ttl", "mac">>,
                           <<"ttl", "mac">>, <<"mac">>}
      BY <1>4, <1>5, <3>1, OfferLeft
    <3>4. e = entry'[s][v.ip]
      BY <3>1 DEF e
    <3>5. QED
      BY <1>5, <3>1, <3>2, <3>3, <3>4 DEF WriteStands, v
  <2>3. QED
    BY <2>1, <2>2
<1>18. QED
  BY <1>1, <1>15, <1>16, <1>17, OthersStand

\* Addresses come to the pool.
LEMMA CalmPool ==
  ASSUME TypeOK, Formed, FramesStand, TablesStand, NEW s \in Servers,
         Insert(s) \/ \E block \in Blocks[s] : AddToPool(s, block),
         \A c \in Clients : typed'[c]["accept"] = 0 => typed[c]["accept"] = 0
  PROVE  (FramesStand /\ TablesStand)'
<1>1. /\ UNCHANGED <<entry, writing, search, client, out, net>>
      /\ \A r \in Servers : pool[r] \subseteq pool'[r]
  BY ZenonT(60) DEF Insert, AddToPool, Type, TypeOK, leases
<1>2. \A f : (UnderWay(f)' => UnderWay(f)) /\ (Pending(f)' => Pending(f))
  BY <1>1 DEF UnderWay, Pending
<1>3. FramesStand' /\ Steady
  BY <1>1, <1>2, CalmPassing DEF client, Wanted
<1>4. QED
  BY <1>1, <1>3, TablesKept DEF TablesStand

\* A server drops a frame.
LEMMA CalmDrop ==
  ASSUME TypeOK, Formed, FramesStand, TablesStand, NEW s \in Servers, NEW n \in Machines,
         Drop(s, n)
  PROVE  (FramesStand /\ TablesStand)'
<1>1. UNCHANGED <<server, client, out, typed>>
  BY DEF Drop, Receive
<1>2. \A f : (UnderWay(f)' => UnderWay(f)) /\ (Pending(f)' => Pending(f))
  BY <1>1, SilenceUnderWay, ConstantTypes DEF Drop, Pending, server
<1>3. FramesStand' /\ Steady
  BY <1>1, <1>2, CalmPassing DEF server, leases, client, Wanted
<1>4. QED
  BY <1>1, <1>3, ClientsStand

\* A client asks for the address it accepts: it has asked for none before.
LEMMA CalmSendRequest ==
  ASSUME TypeOK, Formed, FramesStand, TablesStand, Calm', NEW c \in Clients,
         NEW ip \in Addresses \cup {0}, NEW time \in Times[c], SendRequest(c, ip, time)
  PROVE  (FramesStand /\ TablesStand)'
<1>1. /\ Type(c, "accept") /\ UNCHANGED <<server, client>>
      /\ Broadcast(c, "cmd", Frame("REQUEST", c, ip, time))
      /\ Offered(c, ip)
  BY DEF SendRequest, Offered
<1>2. Silent /\ OffersStand /\ RequestsStand
  BY DEF FramesStand
<1>3. typed[c]["accept"] = 0 /\ \A d \in Clients : d # c => typed'[d]["accept"] = typed[d]["accept"]
  <2>1. c \in Machines /\ "accept" \in Commands /\ Clients \subseteq Machines
    BY ConstantTypes DEF Commands
  <2>2. typed' = [typed EXCEPT ![c]["accept"] = @ + 1]
    BY <1>1 DEF Type
  <2>3. typed[c]["accept"] \in Nat /\ typed'[c]["accept"] = typed[c]["accept"] + 1
    BY <2>1, <2>2 DEF TypeOK
  <2>4. typed'[c]["accept"] <= 1
    BY DEF Calm
  <2>5. \A d \in Clients : d # c => typed'[d]["accept"] = typed[d]["accept"]
    BY <2>1, <2>2 DEF TypeOK
  <2>6. QED
    BY <2>3, <2>4, <2>5
<1>4. \A a \in Addresses \cup {0} : ~ Wanted(c, a)
  BY <1>2, <1>3 DEF OffersStand
<1>5. ip \in Addresses => Reserved(ip, c)
  BY <1>1, <1>2, <1>3 DEF OffersStand
<1>6. \A h \in Frames : UnderWay(h)' =>
         UnderWay(h) \/ (h.type = "REQUEST" /\ h.mac = c /\ h.ip = ip)
  <2> SUFFICES ASSUME NEW h \in Frames, UnderWay(h)', ~ UnderWay(h)
               PROVE  h.type = "REQUEST" /\ h.mac = c /\ h.ip = ip
    OBVIOUS
  <2>1. h = Frame("REQUEST", c, ip, time)
    BY <1>1, CommandUnderWay, ConstantTypes DEF Type, Broadcast
  <2>2. QED
    BY <2>1 DEF Frame
<1>7. UNCHANGED <<pool, entry, writing, search, offers, ips>>
  BY <1>1 DEF server, leases, client
<1>8. Silent'
  BY <1>2, <1>6, <1>7 DEF Silent
<1>9. ASSUME NEW d \in Clients, NEW a \in Addresses \cup {0}
      PROVE  /\ Confirmed(d, a)' => Confirmed(d, a)
             /\ Offered(d, a)' => Offered(d, a)
             /\ Wanted(d, a)' => Wanted(d, a) \/ (d = c /\ a = ip)
             /\ Reserved(a, d)' <=> Reserved(a, d)
             /\ Leased(a, d)' <=> Leased(a, d)
  <2>1. Confirmed(d, a)' => Confirmed(d, a)
    BY <1>6, <1>7 DEF Confirmed, Holds
  <2>2. Offered(d, a)' => Offered(d, a)
    BY <1>6, <1>7 DEF Offered
  <2>3. \A f \in Frames : Pending(f)' => Pending(f)
    BY <1>7 DEF Pending
  <2>4. Wanted(d, a)' => Wanted(d, a) \/ (d = c /\ a = ip)
    BY <1>6, <2>1, <2>3 DEF Wanted
  <2>5. QED
    BY <1>7, <2>1, <2>2, <2>4 DEF Reserved, Leased
<1>10. typed'[c]["accept"] # 0
  BY <1>1, <1>3, ConstantTypes DEF Type, TypeOK, Commands
<1>11. OffersStand'
  BY <1>2, <1>3, <1>9, <1>10 DEF OffersStand
<1>12. RequestsStand'
  BY <1>2, <1>4, <1>5, <1>9 DEF RequestsStand
<1>13. ASSUME NEW d \in Clients, typed[d]["accept"] # 0
       PROVE  /\ typed'[d]["accept"] # 0
              /\ \A a \in Addresses \cup {0} : Wanted(d, a)' => Wanted(d, a)
              /\ Heard(d) => Heard(d)'
  <2>1. d # c
    BY <1>3, <1>13
  <2>2. typed'[d]["accept"] # 0
    BY <1>3, <1>13, <2>1
  <2>3. \A a \in Addresses \cup {0} : Wanted(d, a)' => Wanted(d, a)
    BY <1>9, <2>1
  <2>4. QED
    BY <1>9, <2>2, <2>3 DEF Heard
<1>14. ASSUME NEW s \in Servers PROVE SearchStands(s)'
  <2>1. \A q \in search'[s] : q.mac \in Clients /\ (q.for = "OFFER" \/ (q.for = "ACK" /\ Heard(q.mac)))
    BY <1>7 DEF Formed, TablesStand, SearchStands
  <2>2. \A d \in Clients : Heard(d) => Heard(d)'
    BY <1>13 DEF Heard
  <2>3. QED
    BY <2>1, <2>2 DEF SearchStands
<1>15. ASSUME NEW s \in Servers PROVE WriteStands(s)'
  <2> DEFINE w == writing[s]["main"]
             mac == entry[s][w.ip].mac
  <2>1. SUFFICES ASSUME w # Nothing PROVE WriteStands(s)'
    BY <1>7 DEF WriteStands
  <2>2. w.ip \in Addresses
    BY <2>1, WritesType DEF Threads
  <2>3. mac \in Clients /\ mac # w.to.mac => typed[mac]["accept"] # 0 /\ ~ Wanted(mac, w.ip)
    BY Zenon, <2>1 DEF TablesStand, WriteStands
  <2>4. \A d \in Clients : \A a : d = mac /\ a = w.ip /\ d # w.to.mac =>
           typed'[d]["accept"] # 0 /\ ~ Wanted(d, a)'
    BY <1>13, <2>2, <2>3
  <2>5. QED
    BY Zenon, <1>7, <2>1, <2>4 DEF TablesStand, WriteStands
<1>16. QED
  BY <1>8, <1>11, <1>12, <1>14, <1>15 DEF FramesStand, TablesStand

\* A client's main thread adds to what it knows only what was under way.
LEMMA CalmClient ==
  ASSUME TypeOK, Formed, FramesStand, TablesStand, NEW c \in Clients, NEW n \in Machines,
         \/ Relay(c, n) \/ HandleOffer(c, n) \/ HandleDhcpAck(c, n)
         \/ HandleTimeout(c, n) \/ Drop(c, n)
  PROVE  (FramesStand /\ TablesStand)'
<1> DEFINE f == Head(net[c][n])
<1>1. \A T : Receive(c, n, T) => UnderWay(f) /\ f \in Frames /\ f.type \in T
  BY HeadUnderWay, ReceiveType, ConstantTypes
<1>2. \A h \in Frames : UnderWay(h)' => UnderWay(h)
  <2>1. Client(c)
    <3>1. \A T : Receive(c, n, T) => n \in Senders(c)
      BY DEF Receive, Senders
    <3>2. QED
      BY Zenon, <3>1 DEF Client, Relay, HandleOffer, HandleDhcpAck, HandleTimeout, Drop, ReceiveMine
  <2>2. QED
    BY <2>1, ClientUnderWay
<1>3. UNCHANGED <<server, typed>>
  BY DEF Relay, HandleOffer, HandleDhcpAck, HandleTimeout, Drop, ReceiveMine, Receive
<1>4. \A d \in Clients : \A o \in offers'[d] : Offered(d, o.ip)
  <2>1. CASE HandleOffer(c, n)
    <3>1. UnderWay(f) /\ f \in Frames /\ f.type = "OFFER" /\ f.mac = c
      BY <1>1, <2>1 DEF HandleOffer, ReceiveMine
    <3>2. Offered(c, f.ip)
      BY <3>1 DEF Offered
    <3>3. offers' = [offers EXCEPT ![c] = @ \cup {[ip |-> f.ip, time |-> f.time]}]
      BY <2>1 DEF HandleOffer
    <3> HIDE DEF f
    <3>4. ASSUME NEW d \in Clients, NEW o \in offers'[d]
          PROVE  o \in offers[d] \/ (d = c /\ o.ip = f.ip)
      <4> DEFINE offer == [ip |-> f.ip, time |-> f.time]
      <4>1. offer.ip = f.ip
        OBVIOUS
      <4>2. offers' = [offers EXCEPT ![c] = @ \cup {offer}]
        BY <3>3
      <4> HIDE DEF offer
      <4>3. o \in offers'[d]
        BY <3>4
      <4>4. offers'[d] = IF d = c THEN offers[d] \cup {offer} ELSE offers[d]
        BY <4>2 DEF TypeOK
      <4>5. QED
        BY <4>1, <4>3, <4>4
    <3>5. QED
      BY <3>2, <3>4 DEF Offered
  <2>2. CASE ~ HandleOffer(c, n)
    <3>1. offers' = offers \/ offers' = [offers EXCEPT ![c] = {}]
      BY <2>2 DEF Relay, HandleDhcpAck, HandleTimeout, Drop, client
    <3>2. \A d \in Clients : offers'[d] \subseteq offers[d]
      BY <3>1 DEF TypeOK
    <3>3. QED
      BY <3>2 DEF Offered
  <2>3. QED
    BY <2>1, <2>2
<1>5. ASSUME NEW d \in Clients, NEW a \in Addresses \cup {0}, Holds(d, a)'
      PROVE  Confirmed(d, a)
  <2>1. CASE HandleDhcpAck(c, n)
    <3>1. UnderWay(f) /\ f \in Frames /\ f.type = "ACK" /\ f.mac = c
      BY <1>1, <2>1 DEF HandleDhcpAck, ReceiveMine
    <3>2. Confirmed(c, f.ip)
      BY <3>1 DEF Confirmed
    <3>3. ips' = [ips EXCEPT ![c][f.ip] = @ + 1]
      BY <2>1 DEF HandleDhcpAck
    <3> HIDE DEF f
    <3>4. ips'[d][a] = ips[d][a] \/ (d = c /\ a = f.ip)
      BY <3>3 DEF TypeOK
    <3>5. QED
      BY <1>5, <3>2, <3>4 DEF Confirmed, Holds
  <2>2. CASE HandleTimeout(c, n)
    <3>1. ips' = [ips EXCEPT ![c] = Without(f.ip, ips[c])]
      BY <2>2 DEF HandleTimeout
    <3> HIDE DEF f
    <3>2. CASE d = c /\ a = f.ip
      <4>1. ips'[c] = Without(a, ips[c]) /\ ips[c] \in [Addresses \cup {0} -> Nat]
        BY <3>1, <3>2 DEF TypeOK
      <4>2. ips'[c][a] = IF ips[c][a] > 0 THEN ips[c][a] - 1 ELSE 0
        BY <4>1 DEF Without
      <4>3. ips'[c][a] > 0
        BY <1>5, <3>2 DEF Holds
      <4>4. ips[d][a] > 0
        BY <3>2, <4>2, <4>3
      <4>5. QED
        BY <4>4 DEF Confirmed, Holds
    <3>3. CASE ~ (d = c /\ a = f.ip)
      <4>1. ips'[d][a] = ips[d][a]
        BY <3>1, <3>3 DEF Without, TypeOK
      <4>2. QED
        BY <1>5, <4>1 DEF Confirmed, Holds
    <3>4. QED
      BY <3>2, <3>3
  <2>3. CASE ~ HandleDhcpAck(c, n) /\ ~ HandleTimeout(c, n)
    <3>1. ips' = ips
      BY <2>3 DEF Relay, HandleOffer, Drop, client
    <3>2. QED
      BY <1>5, <3>1 DEF Confirmed, Holds
  <2>4. QED
    BY <2>1, <2>2, <2>3
<1>6. \A d, a : (Leased(a, d) => Leased(a, d)') /\ (Reserved(a, d) => Reserved(a, d)')
  BY <1>3 DEF Leased, Reserved, server, leases
<1>7. \A g \in Frames : Pending(g)' /\ g.type = "ACK" => Wanted(g.mac, g.ip)
  BY <1>3 DEF Pending, Wanted, server
<1>8. FramesStand' /\ Steady
  BY <1>2, <1>3, <1>4, <1>5, <1>6, <1>7, NothingNew
<1>9. QED
  BY <1>3, <1>8, ClientsStand

\* Every step of a calm network leaves offers, requests and leases in order.
LEMMA CalmStep == TypeOK /\ LeaseInv /\ [Next]_vars => CalmInv'
<1> SUFFICES ASSUME TypeOK, LeaseInv, [Next]_vars, Calm'
             PROVE  (FramesStand /\ TablesStand)'
  BY DEF CalmInv
<1>1. Calm /\ Formed /\ FramesStand /\ TablesStand /\ Silent
  BY CalmBefore DEF LeaseInv, CalmInv, FramesStand
<1>2. \A s \in Servers : Quiet(s) /\ TableWhole(s)
  BY <1>1, ConstantTypes DEF LeaseInv, TablesWhole, Untimed, Calm
<1>3. ASSUME NEW c \in Clients PROVE typed'[c]["accept"] = 0 => typed[c]["accept"] = 0
  <2>1. c \in Machines /\ "accept" \in Commands
    BY ConstantTypes DEF Commands
  <2>2. typed[c]["accept"] \in Nat /\ typed[c]["accept"] <= typed'[c]["accept"]
    BY ZenonT(60), <2>1, TypedStep DEF TypeOK
  <2>3. QED
    BY <2>2
<1> DEFINE stand == (FramesStand /\ TablesStand)'
<1>4. ASSUME NEW s \in Servers, NEW n \in Machines,
             HandleDiscover(s, n) \/ HandleRequest(s, n) \/ HandleAck(s, n) \/ Drop(s, n)
      PROVE  stand
  BY <1>1, <1>4, CalmDiscover, CalmRequest, CalmAck, CalmDrop
<1>5. ASSUME NEW s \in Servers,
             \/ Pass(s) \/ Grant(s) \/ Cancel(s) \/ GiveUp(s) \/ WriteField(s, "main")
             \/ Insert(s) \/ \E block \in Blocks[s] : AddToPool(s, block)
      PROVE  stand
  BY <1>1, <1>2, <1>3, <1>5, CalmWalk, CalmWrite, CalmPool
<1>6. ASSUME NEW c \in Clients, NEW n \in Machines,
             \/ Relay(c, n) \/ HandleOffer(c, n) \/ HandleDhcpAck(c, n)
             \/ HandleTimeout(c, n) \/ Drop(c, n)
      PROVE  stand
  BY <1>1, <1>6, CalmClient
<1>7. ASSUME NEW c \in Clients, NEW time \in Times[c], NEW ip \in Addresses \cup {0},
             SendRequest(c, ip, time)
      PROVE  stand
  BY <1>1, <1>7, CalmSendRequest
<1>8. ASSUME UNCHANGED <<server, client>>,
             \A f \in Frames : UnderWay(f)' => UnderWay(f) \/ f.type = "DISCOVER"
      PROVE  stand
  <2>1. /\ UNCHANGED <<entry, offers, ips>>
        /\ \A s \in Servers : pool[s] \subseteq pool'[s]
    BY <1>8 DEF server, leases, client
  <2>2. \A f \in Frames : Pending(f)' /\ f.type = "ACK" => Wanted(f.mac, f.ip)
    BY <1>8 DEF Pending, Wanted, server
  <2>3. FramesStand' /\ Steady
    BY <1>1, <1>3, <1>8, <2>1, <2>2, CalmPassing
  <2>4. QED
    BY <1>1, <1>8, <2>3, ClientsStand
<1> HIDE DEF stand
<1>9. ASSUME NEW c \in Clients, NEW time \in Times[c], SendDiscover(c, time) PROVE stand
  <2>1. ASSUME NEW f \in Frames, UnderWay(f)', ~ UnderWay(f) PROVE f.type = "DISCOVER"
    <3>1. f = Frame("DISCOVER", c, 0, time)
      BY <1>9, <2>1, CommandUnderWay, ConstantTypes DEF SendDiscover, Type, Broadcast
    <3>2. QED
      BY <3>1 DEF Frame
  <2>2. QED
    BY <1>8, <1>9, <2>1 DEF SendDiscover
<1>10. ASSUME NEW m \in Machines, NEW t \in Threads, SendFrame(m, t) PROVE stand
  <2>1. UNCHANGED <<server, client>>
    BY <1>10 DEF SendFrame
  <2>2. QED
    BY <1>8, <1>10, <2>1, SendUnderWay
<1>11. ASSUME UNCHANGED <<server, client, out, net>> PROVE stand
  BY <1>8, <1>11 DEF UnderWay
<1>12. ASSUME NEW m \in Machines, DataRace(m) PROVE stand
  BY <1>11, <1>12 DEF DataRace
<1>13. ASSUME UNCHANGED vars PROVE stand
  BY <1>11, <1>13 DEF vars
<1>14. stand
  BY <1>1, <1>2, <1>4, <1>5, <1>6, <1>7, <1>9, <1>10, <1>12, <1>13, CalmSteps
<1>15. QED
  BY <1>14 DEF stand

-----------------------------------------------------------------------------
(***************************************************************************)
(* Theorems.                                                               *)
(***************************************************************************)

\* At the start there is nothing to be out of order.
LEMMA LeaseInit == Init => LeaseInv
<1> SUFFICES ASSUME Init PROVE LeaseInv
  OBVIOUS
<1>1. \A s \in Servers : /\ pool[s] = {} /\ adding[s] = {} /\ search[s] = {}
                         /\ writing[s]["main"] = Nothing /\ writing[s]["cmd"] = Nothing
                         /\ count[s] = {} /\ due[s] = {} /\ told[s] = {}
                         /\ \A a \in Addresses : entry[s][a] = FreeEntry
  BY DEF Init, Threads
<1>2. Nothing.answer = {}
  BY DEF Nothing
<1>3. ASSUME NEW f PROVE ~ UnderWay(f) /\ ~ Pending(f)
  <2>1. \A m, n \in Machines : DOMAIN net[m][n] = {}
    BY DEF Init
  <2>2. \A m \in Machines, t \in Threads : out[m][t] = {}
    BY DEF Init
  <2>3. QED
    BY <1>1, <1>2, <2>1, <2>2 DEF UnderWay, Pending
<1>4. TablesWhole
  <2>1. \A s \in Servers, a \in Addresses : Whole(s, a, entry[s][a])
    BY <1>1, WholeEntries
  <2>2. \A s \in Servers : TableWhole(s)
    BY <1>1, <2>1 DEF TableWhole
  <2>3. QED
    BY <1>1, <2>2 DEF TablesWhole, Quiet
<1>5. Formed
  BY <1>1, <1>2, <1>3 DEF Formed
<1>6. \A c \in Clients, a \in Addresses \cup {0} : ~ Wanted(c, a) /\ ~ Offered(c, a) /\ ~ Confirmed(c, a)
  BY <1>3 DEF Init, Wanted, Confirmed, Offered, Holds
<1>7. FramesStand
  BY <1>3, <1>6 DEF Silent, OffersStand, RequestsStand, FramesStand
<1>8. TablesStand
  BY <1>1 DEF TablesStand, SearchStands, WriteStands
<1>9. QED
  BY <1>4, <1>5, <1>7, <1>8 DEF LeaseInv, CalmInv

\* In every network the inductive invariant holds in every state.
LEMMA LeaseAlways == Spec => [](TypeOK /\ LeaseInv)
<1>1. Init => TypeOK /\ LeaseInv
  BY TypeInit, LeaseInit
<1>2. TypeOK /\ LeaseInv /\ [Next]_vars => (TypeOK /\ LeaseInv)'
  <2> SUFFICES ASSUME TypeOK, LeaseInv, [Next]_vars PROVE TypeOK' /\ LeaseInv'
    OBVIOUS
  <2>1. Formed /\ TablesWhole
    BY DEF LeaseInv
  <2>2. QED
    BY <2>1, TypeStep, FormedStep, TablesStep, CalmStep DEF LeaseInv
<1>3. QED
  BY <1>1, <1>2, PTL DEF Spec

\* Whatever is typed but advance_time, and whatever crosses, the table of a
\* server agrees with itself whenever its main thread is done with a frame:
\* allocated, waiting and mac of an entry (get_one_ip and the places that reset
\* an entry).
THEOREM EntriesWhole == Spec => []EntriesAreWhole
<1>1. ASSUME LeaseInv PROVE EntriesAreWhole
  <2> SUFFICES ASSUME NEW s \in Servers, NEW a \in Addresses, Untimed(s), Free(s, "main")
               PROVE  Whole(s, a, entry[s][a])
    BY DEF EntriesAreWhole, Untimed, Whole
  <2>1. writing[s]["main"] = Nothing
    BY ConstantTypes DEF Free
  <2>2. QED
    BY <1>1, <2>1 DEF LeaseInv, TablesWhole, TableWhole
<1>2. QED
  BY <1>1, LeaseAlways, PTL

\* While the network is calm what a client holds is its lease at some server
\* (handle_dhcp_ack against handle_hdcp_request and handle_hdcp_ack).
THEOREM Recorded == Spec => []LeasesAreRecorded
<1>1. LeaseInv => LeasesAreRecorded
  BY DEF LeaseInv, CalmInv, FramesStand, RequestsStand, Confirmed, LeasesAreRecorded
<1>2. QED
  BY <1>1, LeaseAlways, PTL

\* While the network is calm no two clients hold one address: it is in the pool
\* of one server, whose entry has the mac of one of them.
THEOREM Exclusive == Spec => []LeasesAreExclusive
<1>1. ASSUME TypeOK, LeaseInv PROVE LeasesAreExclusive
  <2> SUFFICES ASSUME Calm, NEW c \in Clients, NEW d \in Clients, NEW a \in Addresses \cup {0},
                      Holds(c, a), Holds(d, a)
               PROVE  c = d
    BY DEF LeasesAreExclusive
  <2>1. Leased(a, c) /\ Leased(a, d)
    BY <1>1 DEF LeaseInv, CalmInv, FramesStand, RequestsStand, Confirmed
  <2>2. PICK s \in Servers : a \in pool[s] /\ entry[s][a].mac = c
    BY <2>1 DEF Leased
  <2>3. PICK r \in Servers : a \in pool[r] /\ entry[r][a].mac = d
    BY <2>1 DEF Leased
  <2>4. a \in UNION Blocks[s] /\ a \in UNION Blocks[r]
    BY <1>1, <2>2, <2>3 DEF LeaseInv, Formed
  <2>5. r = s
    BY <2>4, BlocksAssumption
  <2>6. QED
    BY <2>2, <2>3, <2>5
<1>2. QED
  BY <1>1, LeaseAlways, PTL
=============================================================================
