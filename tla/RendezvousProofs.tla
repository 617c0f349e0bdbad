-------------------------- MODULE RendezvousProofs --------------------------
(***************************************************************************)
(* Proofs about Rendezvous, for any number of clients and NATs, behind     *)
(* which clients route for each other, and for all lines typed.            *)
(***************************************************************************)
EXTENDS Rendezvous, FiniteSetTheorems, TLAPS

-----------------------------------------------------------------------------
(***************************************************************************)
(* The inductive invariant.  What makes it inductive is a property of      *)
(* addresses: whatever a NAT does from now on, a frame that is sent to the *)
(* address comes to nobody but the client with a certain ip.  It survives  *)
(* new ports and resets as long as no port is given twice, which is what   *)
(* Regular says; types are kept whatever the addresses are.                *)
(***************************************************************************)

\* If j is the ip of a client, then it is i.
OnlyTo(j, i) == \A c \in Clients : ip[c] = j => j = i

\* What is sent to a reaches no client but the one with ip i.
Leads(a, i) ==
  /\ OnlyTo(a.ip, i)
  /\ \A n \in Nats : a.ip = ip[n] =>
       /\ a.port < next_port[n]
       /\ \A e \in mapping[n] : e.port = a.port => OnlyTo(e.inside.ip, i)

\* It reaches no client but the one registered for id i,
Reaches(a, i) == slot[i].valid /\ Leads(a, slot[i].local.ip)

\* or nobody.
Names(a, i) == a = NoAddress \/ Reaches(a, i)

\* It is not the ip of a NAT.
NotOfNat(i) == \A n \in Nats : i # ip[n]

\* A NAT has given no port twice.
MapInv ==
  \A n \in Nats :
    /\ \A e \in mapping[n] : e.port < next_port[n]
    /\ \A d, e \in mapping[n] : d.port = e.port => d = e

\* The ids given so far are those below the index, and the public address of each
\* leads to the owner of the local one.
SlotInv ==
  \A i \in Ids : slot[i].valid =>
    /\ i < current_id_index
    /\ NotOfNat(slot[i].local.ip)
    /\ Leads(slot[i].public, slot[i].local.ip)

\* What a client knows of id i leads to the owner of i.
PeerInv ==
  \A c \in Clients, i \in Ids :
    Names(peers_data[c][i].local, i) /\ Names(peers_data[c][i].public, i)

\* Somebody who is registered for id i knows id j.
Acquainted(i, j) ==
  \E d \in Clients : Owns(d, i) /\ peers_data[d][j].known

\* What the receiver of f will make of it is true.
FrameInv(f) ==
  /\ f.type \in {"ASSIGNING_ID", "UPDATING_INFO"} =>
       NotOfNat(f.local.ip) /\ Leads(f.src, f.local.ip)
  /\ f.type = "ASSIGNING_ID" /\ f.id # 0 => Names(f.dst, f.id)
  /\ f.type = "GETTING_IP" => Names(f.local, f.id) /\ Names(f.public, f.id)
  /\ f.type = "PING" => Reaches(f.src, f.id)
  /\ f.type \in {"PING", "PONG"} => \E j \in Ids : Acquainted(f.id, j) /\ Names(f.dst, j)
  /\ f.type = "MESSAGE" => Names(f.dst, f.for)

\* What comes to a NAT from outside is for it.
Arrives(n, m, f) == n \in Nats /\ m \notin Behind(n) => f.dst.ip = ip[n]

\* Frames under way.
NetInv ==
  \A m, n \in Machines : \A f \in Range(net[m][n]) : FrameInv(f) /\ Arrives(m, n, f)

\* Frames that threads have still to send.
OutInv == \A c \in Clients, t \in Threads : \A f \in out[c][t] : FrameInv(f)

\* What IdsAreOwned and SessionsAreKnownToBoth say, where addresses are regular.
IdsOwned == \A c \in Clients : my_id[c] # -1 => Owns(c, my_id[c])
SessionsKnown ==
  \A c \in Clients, i \in Ids : Ready(peers_data[c][i]) =>
    \E d \in Clients, j \in Ids : Owns(d, i) /\ Owns(c, j) /\ peers_data[d][j].known

\* What the machines know.
StateInv == MapInv /\ SlotInv /\ IdsOwned /\ PeerInv /\ SessionsKnown

\* All of it.
IndInv == TypeOK /\ StateInv /\ NetInv /\ OutInv
-----------------------------------------------------------------------------
(***************************************************************************)
(* Types.                                                                  *)
(***************************************************************************)

\* Numbers and ips.
LEMMA ConstantTypes ==
  /\ Ids \subseteq Nat /\ 0 \in Ids /\ 1 \in Ids /\ Slots - 1 \in Ids
  /\ Ports \subseteq Nat /\ 0 \in Ports
  /\ \A m \in Machines : ip[m] \in Ips
  /\ NoIp \in Ips /\ BoxIp \in Ips
  /\ Clients \subseteq Machines /\ Nats \subseteq Machines /\ Server \in Machines
  /\ Clients \cap Nats = {} /\ Server \notin Clients /\ Server \notin Nats
BY InputAssumption, MachinesAssumption DEF Ids, Ports, Ips, Machines

\* Addresses.
LEMMA AddressType ==
  ASSUME NEW i \in Ips, NEW port \in Nat
  PROVE  Address(i, port) \in Addresses /\ Address(i, port).ip = i /\ Address(i, port).port = port
BY DEF Address, Addresses

\* A machine's own address.
LEMMA OwnType ==
  ASSUME NEW m \in Machines, NEW port \in Nat
  PROVE  Own(m, port) \in Addresses /\ Own(m, port).ip = ip[m] /\ Own(m, port).port = port
BY ConstantTypes, AddressType DEF Own

\* The addresses that never change.
LEMMA FixedAddresses ==
  /\ NoAddress \in Addresses /\ NoAddress.ip = NoIp
  /\ ServerAddress \in Addresses /\ ServerAddress.ip = ip[Server]
<1>1. NoIp \in Ips /\ ip[Server] \in Ips
  BY ConstantTypes
<1>2. QED
  BY <1>1, AddressType DEF NoAddress, ServerAddress

\* frameFactory makes a frame.
IsFrame(f, type, src, dst, id, local, public, for) ==
  /\ f \in Frames /\ f.type = type /\ f.src = src /\ f.dst = dst /\ f.id = id
  /\ f.local = local /\ f.public = public /\ f.for = for

\* A frame with nothing but a header.
LEMMA FrameType ==
  ASSUME NEW type \in Types, NEW src \in Addresses, NEW dst \in Addresses, NEW id \in Ids
  PROVE  IsFrame(Frame(type, src, dst, id), type, src, dst, id, NoAddress, NoAddress, 0)
BY ConstantTypes, FixedAddresses DEF Frame, Frames, IsFrame

\* A client's request has its own address in it.
LEMMA RequestType ==
  ASSUME NEW c \in Clients, NEW type \in Types, NEW port \in Ports
  PROVE  IsFrame(Request(c, type, port), type, Own(c, port), ServerAddress, 0,
                 Own(c, port), NoAddress, 0)
<1>1. Own(c, port) \in Addresses /\ ServerAddress \in Addresses /\ 0 \in Ids /\ NoAddress \in Addresses
  BY OwnType, FixedAddresses, ConstantTypes
<1>2. QED
  BY <1>1 DEF Request, Frame, Frames, IsFrame

\* A client without an id sends something else to its peers.
LEMMA ToPeerType ==
  ASSUME TypeOK, NEW c \in Clients, NEW type \in Types, NEW dst \in Addresses
  PROVE  IF my_id[c] = -1
         THEN IsFrame(ToPeer(c, type, dst), "STATUS_RESPOND", Own(c, local_port[c]), dst, Slots - 1,
                      NoAddress, NoAddress, 0)
         ELSE IsFrame(ToPeer(c, type, dst), type, Own(c, local_port[c]), dst, my_id[c],
                      NoAddress, NoAddress, 0)
<1>1. Own(c, local_port[c]) \in Addresses /\ "STATUS_RESPOND" \in Types /\ Slots - 1 \in Ids
  BY OwnType, ConstantTypes DEF TypeOK, Types
<1>2. my_id[c] # -1 => my_id[c] \in Ids
  BY DEF TypeOK
<1>3. QED
  BY <1>1, <1>2, FrameType DEF ToPeer

\* Frames on wires.
Wires == [Machines -> [Machines -> Seq(Frames)]]

\* The wires next are those of wires with, perhaps, f added on those from m to S.
Adds(wires, next, S, m, f) ==
  /\ next \in Wires
  /\ \A x, y \in Machines : \A g \in Range(next[x][y]) :
       g \in Range(wires[x][y]) \/ (x \in S /\ y = m /\ g = f)

\* One element less, and one more.
LEMMA TailOf ==
  ASSUME NEW q \in Seq(Frames), q # <<>>
  PROVE  /\ Head(q) \in Frames /\ Head(q) \in Range(q)
         /\ Tail(q) \in Seq(Frames) /\ Range(Tail(q)) \subseteq Range(q)
<1>1. Head(q) \in Frames /\ Tail(q) \in Seq(Frames) /\ Head(q) = q[1] /\ 1 \in DOMAIN q
  OBVIOUS
<1>2. ASSUME NEW k \in DOMAIN Tail(q) PROVE k + 1 \in DOMAIN q /\ Tail(q)[k] = q[k + 1]
  OBVIOUS
<1>3. QED
  BY <1>1, <1>2 DEF Range

\* One element more.
LEMMA AppendOf ==
  ASSUME NEW q \in Seq(Frames), NEW f \in Frames
  PROVE  Append(q, f) \in Seq(Frames) /\ Range(Append(q, f)) \subseteq Range(q) \cup {f}
<1>1. Append(q, f) \in Seq(Frames)
  OBVIOUS
<1>2. ASSUME NEW k \in DOMAIN Append(q, f)
      PROVE  (k \in DOMAIN q /\ Append(q, f)[k] = q[k]) \/ Append(q, f)[k] = f
  OBVIOUS
<1>3. QED
  BY <1>1, <1>2 DEF Range

\* A frame is taken.
LEMMA TakenAdds ==
  ASSUME TypeOK, NEW m \in Machines, NEW n \in Machines, net[m][n] # <<>>, NEW f
  PROVE  /\ Adds(net, Taken(m, n), {}, n, f)
         /\ Head(net[m][n]) \in Frames /\ Head(net[m][n]) \in Range(net[m][n])
<1>1. net \in Wires /\ net[m][n] \in Seq(Frames)
  BY DEF TypeOK, Wires
<1>2. PICK q : q = Tail(net[m][n])
  OBVIOUS
<1>3. /\ q \in Seq(Frames) /\ Range(q) \subseteq Range(net[m][n])
      /\ Head(net[m][n]) \in Frames /\ Head(net[m][n]) \in Range(net[m][n])
  BY <1>1, <1>2, TailOf
<1>4. PICK next : next = Taken(m, n)
  OBVIOUS
<1>5. /\ next \in Wires
      /\ \A x, y \in Machines : next[x][y] = IF x = m /\ y = n THEN q ELSE net[x][y]
  BY <1>1, <1>2, <1>3, <1>4 DEF Taken, Wires
<1>6. \A x, y \in Machines : Range(next[x][y]) \subseteq Range(net[x][y])
  BY <1>3, <1>5
<1>7. QED
  BY <1>3, <1>4, <1>5, <1>6 DEF Adds

\* A frame is put on wires.
LEMMA PutAdds ==
  ASSUME NEW wires \in Wires, NEW m \in Machines, NEW S, NEW f \in Frames
  PROVE  Adds(wires, Put(wires, m, S, f), S, m, f)
<1>1. PICK next : next = Put(wires, m, S, f)
  OBVIOUS
<1>2. \A x \in Machines : /\ wires[x][m] \in Seq(Frames) /\ Append(wires[x][m], f) \in Seq(Frames)
                          /\ Range(Append(wires[x][m], f)) \subseteq Range(wires[x][m]) \cup {f}
  BY AppendOf DEF Wires
<1>3. /\ next \in Wires
      /\ \A x, y \in Machines :
           next[x][y] = IF x \in S /\ y = m THEN Append(wires[x][m], f) ELSE wires[x][y]
  BY <1>1, <1>2 DEF Put, Wires
<1>4. ASSUME NEW x \in Machines, NEW y \in Machines, NEW g \in Range(next[x][y])
      PROVE  g \in Range(wires[x][y]) \/ (x \in S /\ y = m /\ g = f)
  BY <1>2, <1>3, <1>4
<1>5. QED
  BY <1>1, <1>3, <1>4 DEF Adds

\* A frame is taken and another one put.
LEMMA TakenPutAdds ==
  ASSUME TypeOK, NEW a \in Machines, NEW b \in Machines, net[a][b] # <<>>,
         NEW m \in Machines, NEW S, NEW f \in Frames
  PROVE  Adds(net, Put(Taken(a, b), m, S, f), S, m, f)
<1>1. PICK wires, next : wires = Taken(a, b) /\ next = Put(wires, m, S, f)
  OBVIOUS
<1>2. Adds(net, wires, {}, b, f)
  BY <1>1, TakenAdds
<1>3. Adds(wires, next, S, m, f)
  BY <1>1, <1>2, PutAdds DEF Adds
<1>4. ASSUME NEW x \in Machines, NEW y \in Machines, NEW g \in Range(next[x][y])
      PROVE  g \in Range(net[x][y]) \/ (x \in S /\ y = m /\ g = f)
  BY <1>2, <1>3, <1>4 DEF Adds
<1>5. next \in Wires
  BY <1>3 DEF Adds
<1>6. QED
  BY <1>1, <1>4, <1>5 DEF Adds

-----------------------------------------------------------------------------
(***************************************************************************)
(* What has been said stays true.                                          *)
(***************************************************************************)

\* No step takes away a registration, gives a port again or forgets a peer.
Keeps ==
  /\ \A i \in Ids : slot[i].valid => slot'[i].valid /\ slot'[i].local.ip = slot[i].local.ip
  /\ \A n \in Nats :
       /\ next_port[n] <= next_port'[n]
       /\ \A e \in mapping'[n] : e \in mapping[n] \/ next_port[n] <= e.port
  /\ \A c \in Clients, i \in Ids : peers_data[c][i].known => peers_data'[c][i].known

\* An address leads where it led,
LEMMA LeadsKept ==
  ASSUME TypeOK, TypeOK', Keeps, NEW a \in Addresses, NEW i, Leads(a, i)
  PROVE  Leads(a, i)'
<1> SUFFICES ASSUME NEW n \in Nats, a.ip = ip[n]
             PROVE  /\ a.port < next_port'[n]
                    /\ \A e \in mapping'[n] : e.port = a.port => OnlyTo(e.inside.ip, i)
  BY DEF Leads, OnlyTo
<1>1. /\ a.port \in Nat /\ next_port[n] \in Nat /\ next_port'[n] \in Nat
      /\ \A e \in mapping'[n] : e.port \in Nat
  BY DEF TypeOK, Addresses
<1>2. next_port[n] <= next_port'[n] /\ a.port < next_port[n]
  BY DEF Keeps, Leads
<1>3. a.port < next_port'[n]
  BY <1>1, <1>2
<1>4. ASSUME NEW e \in mapping'[n], e.port = a.port PROVE OnlyTo(e.inside.ip, i)
  <2>1. e \in mapping[n]
    BY <1>1, <1>2, <1>4 DEF Keeps
  <2>2. QED
    BY <1>4, <2>1 DEF Leads
<1>5. QED
  BY <1>3, <1>4

\* reaches whom it reached,
LEMMA ReachesKept ==
  ASSUME TypeOK, TypeOK', Keeps, NEW a \in Addresses, NEW i \in Ids, Reaches(a, i)
  PROVE  Reaches(a, i)'
<1>1. slot'[i].valid /\ slot'[i].local.ip = slot[i].local.ip
  BY DEF Keeps, Reaches
<1>2. PICK j : j = slot[i].local.ip
  OBVIOUS
<1>3. Leads(a, j)'
  BY <1>2, LeadsKept DEF Reaches
<1>4. QED
  BY <1>1, <1>2, <1>3 DEF Reaches, Leads

\* and names whom it named.
LEMMA NamesKept ==
  ASSUME TypeOK, TypeOK', Keeps, NEW a \in Addresses, NEW i \in Ids, Names(a, i)
  PROVE  Names(a, i)'
BY ReachesKept DEF Names

\* Who knows a peer goes on knowing it.
LEMMA AcquaintedKept ==
  ASSUME Keeps, NEW i \in Ids, NEW j \in Ids, Acquainted(i, j)
  PROVE  Acquainted(i, j)'
<1>1. PICK d \in Clients : Owns(d, i) /\ peers_data[d][j].known
  BY DEF Acquainted
<1>2. Owns(d, i)' /\ (peers_data[d][j].known)'
  BY <1>1 DEF Keeps, Owns
<1>3. QED
  BY <1>2 DEF Acquainted

\* A frame under way goes on saying what is true.
LEMMA FrameKept ==
  ASSUME TypeOK, TypeOK', Keeps, NEW f \in Frames, FrameInv(f)
  PROVE  FrameInv(f)'
<1>1. /\ f.src \in Addresses /\ f.dst \in Addresses /\ f.local \in Addresses /\ f.public \in Addresses
      /\ f.id \in Ids /\ f.for \in Ids
  BY DEF Frames
<1>2. ASSUME f.type \in {"ASSIGNING_ID", "UPDATING_INFO"}
      PROVE  NotOfNat(f.local.ip)' /\ Leads(f.src, f.local.ip)'
  BY <1>1, <1>2, LeadsKept DEF FrameInv, NotOfNat
<1>3. ASSUME f.type = "ASSIGNING_ID", f.id # 0 PROVE Names(f.dst, f.id)'
  BY <1>1, <1>3, NamesKept DEF FrameInv
<1>4. ASSUME f.type = "GETTING_IP" PROVE Names(f.local, f.id)' /\ Names(f.public, f.id)'
  BY <1>1, <1>4, NamesKept DEF FrameInv
<1>5. ASSUME f.type = "PING" PROVE Reaches(f.src, f.id)'
  BY <1>1, <1>5, ReachesKept DEF FrameInv
<1>6. ASSUME f.type \in {"PING", "PONG"}
      PROVE  \E j \in Ids : Acquainted(f.id, j)' /\ Names(f.dst, j)'
  <2>1. PICK j \in Ids : Acquainted(f.id, j) /\ Names(f.dst, j)
    BY <1>6 DEF FrameInv
  <2>2. QED
    BY <1>1, <2>1, NamesKept, AcquaintedKept
<1>7. ASSUME f.type = "MESSAGE" PROVE Names(f.dst, f.for)'
  BY <1>1, <1>7, NamesKept DEF FrameInv
<1>8. QED
  BY <1>2, <1>3, <1>4, <1>5, <1>6, <1>7 DEF FrameInv

\* A step that adds, at most, a frame to the wires from m to S.
LEMMA NetStep ==
  ASSUME TypeOK, TypeOK', NetInv, Keeps, NEW S, NEW m \in Machines, NEW f,
         Adds(net, net', S, m, f),
         S \cap Machines # {} => FrameInv(f)',
         \A x \in S : Arrives(x, m, f)
  PROVE  NetInv'
<1> SUFFICES ASSUME NEW x \in Machines, NEW y \in Machines, NEW g \in Range(net'[x][y])
             PROVE  FrameInv(g)' /\ Arrives(x, y, g)
  BY DEF NetInv, Arrives, Behind
<1>1. CASE g \in Range(net[x][y])
  <2>1. net[x][y] \in Seq(Frames)
    BY DEF TypeOK
  <2>2. g \in Frames
    BY <1>1, <2>1 DEF Range
  <2>3. FrameInv(g) /\ Arrives(x, y, g)
    BY <1>1 DEF NetInv
  <2>4. QED
    BY <2>2, <2>3, FrameKept
<1>2. CASE x \in S /\ y = m /\ g = f
  BY <1>2
<1>3. QED
  BY <1>1, <1>2 DEF Adds

\* A step after which a thread may have frame f to send.
LEMMA OutStep ==
  ASSUME TypeOK, TypeOK', OutInv, Keeps, NEW f,
         \A c \in Clients, t \in Threads : out'[c][t] \subseteq out[c][t] \cup {f},
         (\E c \in Clients, t \in Threads : f \in out'[c][t] \ out[c][t]) => FrameInv(f)'
  PROVE  OutInv'
<1> SUFFICES ASSUME NEW c \in Clients, NEW t \in Threads, NEW g \in out'[c][t]
             PROVE  FrameInv(g)'
  BY DEF OutInv
<1>1. CASE g \in out[c][t]
  <2>1. g \in Frames /\ FrameInv(g)
    BY <1>1 DEF TypeOK, OutInv
  <2>2. QED
    BY <2>1, FrameKept
<1>2. CASE g \notin out[c][t]
  BY <1>2
<1>3. QED
  BY <1>1, <1>2

\* The state says what it said, where nothing that it is about has changed.
LEMMA StateStays ==
  ASSUME TypeOK, StateInv,
         UNCHANGED <<slot, current_id_index, my_id, peers_data, mapping, next_port>>
  PROVE  StateInv' /\ Keeps
<1>1. StateInv'
  BY DEF StateInv, MapInv, SlotInv, PeerInv, IdsOwned, SessionsKnown, Owns, Names,
         Reaches, NotOfNat, Leads, Ready, OnlyTo
<1>2. Keeps
  BY DEF Keeps, TypeOK
<1>3. QED
  BY <1>1, <1>2

-----------------------------------------------------------------------------
(***************************************************************************)
(* New frames.                                                             *)
(***************************************************************************)

\* Clients and NATs have different ips, and nobody has the ip of nobody.
LEMMA IpsDiffer ==
  ASSUME DistinctIps
  PROVE  /\ \A c \in Clients : NotOfNat(ip[c])
         /\ \A i : OnlyTo(NoIp, i) /\ OnlyTo(BoxIp, i) /\ OnlyTo(ip[Server], i)
         /\ \A n \in Nats : \A i : OnlyTo(ip[n], i)
         /\ NotOfNat(NoIp) /\ NotOfNat(BoxIp) /\ NotOfNat(ip[Server])
         /\ \A c, d \in Clients : ip[c] = ip[d] => c = d
BY ConstantTypes, IpAssumption DEF OnlyTo, NotOfNat, DistinctIps

\* An address of no NAT leads where its ip says.
LEMMA DirectLeads ==
  ASSUME NEW a, NEW i, OnlyTo(a.ip, i), NotOfNat(a.ip)
  PROVE  Leads(a, i) /\ Leads(a, i)'
BY DEF Leads, NotOfNat, OnlyTo

\* A request has the client's own address in it.
LEMMA RequestInv ==
  ASSUME DistinctIps, NEW c \in Clients, NEW port \in Ports, NEW f,
         NEW type \in {"ASSIGNING_ID", "UPDATING_INFO", "STATUS"}, f = Request(c, type, port)
  PROVE  f \in Frames /\ FrameInv(f)'
<1>1. port \in Nat /\ c \in Machines /\ type \in Types
  BY ConstantTypes DEF Types
<1>2. IsFrame(f, type, Own(c, port), ServerAddress, 0, Own(c, port), NoAddress, 0)
  BY <1>1, RequestType
<1>3. f.src.ip = ip[c] /\ f.local.ip = ip[c]
  BY <1>1, <1>2, OwnType DEF IsFrame
<1>4. NotOfNat(f.local.ip) /\ OnlyTo(f.src.ip, f.local.ip) /\ NotOfNat(f.src.ip)
  BY <1>3, IpsDiffer DEF OnlyTo
<1>5. Leads(f.src, f.local.ip)'
  BY <1>4, DirectLeads
<1>6. f.id = 0 /\ f.type = type
  BY <1>2 DEF IsFrame
<1>7. QED
  BY <1>2, <1>4, <1>5, <1>6 DEF FrameInv, NotOfNat, IsFrame

\* A DROP names nobody,
LEMMA DropInv ==
  ASSUME DistinctIps, NEW n \in Nats, NEW port \in Nat, NEW g \in Frames, NEW f, f = Drop(n, port, g)
  PROVE  f \in Frames /\ f.dst = g.src /\ FrameInv(f)'
<1>1. /\ Address(BoxIp, port) \in Addresses /\ Address(BoxIp, port).ip = BoxIp
      /\ g.src \in Addresses /\ 0 \in Ids /\ "ASSIGNING_ID" \in Types
  BY ConstantTypes, AddressType DEF Frames, Types
<1>2. IsFrame(f, "ASSIGNING_ID", Address(BoxIp, port), g.src, 0, NoAddress, NoAddress, 0)
  BY <1>1, FrameType DEF Drop
<1>3. NotOfNat(f.local.ip) /\ OnlyTo(f.src.ip, f.local.ip) /\ NotOfNat(f.src.ip)
  BY <1>1, <1>2, IpsDiffer, FixedAddresses DEF IsFrame
<1>4. Leads(f.src, f.local.ip)'
  BY <1>3, DirectLeads
<1>5. QED
  BY <1>2, <1>3, <1>4 DEF FrameInv, NotOfNat, IsFrame

\* and neither do these.
LEMMA PlainInv ==
  ASSUME NEW f, NEW type \in {"STATUS_RESPOND", "NAT_UPDATED", "GETTING_IP"},
         NEW src \in Addresses, NEW dst \in Addresses, NEW id \in Ids, f = Frame(type, src, dst, id)
  PROVE  f \in Frames /\ FrameInv(f)'
<1>1. IsFrame(f, type, src, dst, id, NoAddress, NoAddress, 0)
  BY FrameType DEF Types
<1>2. QED
  BY <1>1 DEF FrameInv, IsFrame, Names

\* The frame m takes from n.
LEMMA TakesOne ==
  ASSUME TypeOK, NetInv, NEW m \in Machines, NEW n \in Machines, net[m][n] # <<>>
  PROVE  \E f \in Frames : f = Head(net[m][n]) /\ FrameInv(f) /\ Arrives(m, n, f)
<1>1. PICK f : f = Head(net[m][n])
  OBVIOUS
<1>2. f \in Frames /\ f \in Range(net[m][n])
  BY <1>1, TakenAdds
<1>3. FrameInv(f) /\ Arrives(m, n, f)
  BY <1>2 DEF NetInv
<1>4. QED
  BY <1>1, <1>2, <1>3

\* Who routes for a client is no NAT.
LEMMA EntryIsNoNat ==
  ASSUME NEW c \in Clients
  PROVE  Entry(c) \notin Nats
BY ConstantTypes, RelayAssumption DEF Entry

\* From outside a NAT is sent to as such only.
LEMMA HopArrives ==
  ASSUME NEW m \in Clients \cup {Server}, NEW f, NEW x \in Hop(m, f.dst.ip)
  PROVE  Arrives(x, m, f)
<1> SUFFICES ASSUME x \in Nats, m \notin Behind(x) PROVE f.dst.ip = ip[x]
  BY DEF Arrives
<1>1. x \notin Clients /\ x # Server /\ x \in Machines
  BY ConstantTypes
<1>2. PICK i, place, near, beyond :
        /\ i = f.dst.ip
        /\ place = (IF m = Server THEN Outside ELSE lan[m])
        /\ near = (IF place = Outside THEN Out(i) ELSE {d \in Behind(place) : ip[d] = i})
        /\ beyond = {d \in Clients : relay[d] = m /\ ip[d] = i}
  OBVIOUS
<1>3. x \in (IF beyond # {} THEN beyond
             ELSE IF Entry(m) # m THEN {Entry(m)}
             ELSE IF near = {} /\ place # Outside THEN {place}
             ELSE Entries(near) \ {m})
  BY <1>2 DEF Hop
<1>4. x \notin beyond
  BY <1>1, <1>2
<1>5. x # Entry(m) \/ Entry(m) = m
  BY EntryIsNoNat, ConstantTypes DEF Entry
<1>6. x # place
  BY <1>1, <1>2, ConstantTypes, MachinesAssumption DEF Behind
<1>7. PICK d \in near : x = Entry(d)
  BY <1>3, <1>4, <1>5, <1>6 DEF Entries
<1>8. d \notin Clients /\ x = d
  BY <1>7, EntryIsNoNat DEF Entry
<1>9. QED
  BY <1>2, <1>7, <1>8 DEF Out, Behind

\* So a NAT sends to others,
LEMMA OutsideArrives ==
  ASSUME NEW m, NEW f, NEW x \in Entries(Out(f.dst.ip))
  PROVE  Arrives(x, m, f)
<1>1. PICK d \in Out(f.dst.ip) : x = Entry(d)
  BY DEF Entries
<1>2. QED
  BY <1>1, EntryIsNoNat DEF Arrives, Entry, Out

\* and it sends inside to clients only.
LEMMA InsideArrives ==
  ASSUME NEW m, NEW f, NEW S, S \subseteq Clients, NEW x \in Entries(S)
  PROVE  Arrives(x, m, f)
BY EntryIsNoNat DEF Arrives, Entries

-----------------------------------------------------------------------------
(***************************************************************************)
(* Steps that change nothing the invariant says of the machines.           *)
(***************************************************************************)

\* Such a step sends or puts at most one frame, which has to be true.
LEMMA PassiveStep ==
  ASSUME IndInv, TypeOK',
         UNCHANGED <<slot, current_id_index, my_id, peers_data, mapping, next_port>>,
         NEW S, NEW m \in Machines, NEW f, Adds(net, net', S, m, f),
         S \cap Machines # {} => FrameInv(f)',
         \A x \in S : Arrives(x, m, f),
         NEW g, \A c \in Clients, t \in Threads : out'[c][t] \subseteq out[c][t] \cup {g},
         (\E c \in Clients, t \in Threads : g \in out'[c][t] \ out[c][t]) => FrameInv(g)'
  PROVE  IndInv'
<1>1. StateInv' /\ Keeps
  BY StateStays DEF IndInv
<1>2. NetInv'
  BY <1>1, NetStep DEF IndInv
<1>3. OutInv'
  BY <1>1, OutStep DEF IndInv
<1>4. QED
  BY <1>1, <1>2, <1>3 DEF IndInv

\* The wires are as they were.
LEMMA StaysAdds ==
  ASSUME TypeOK, net' = net, NEW m, NEW f
  PROVE  Adds(net, net', {}, m, f)
BY DEF Adds, TypeOK, Wires

\* A thread has f to send.
LEMMA SendType ==
  ASSUME TypeOK, NEW c \in Clients, NEW t \in Threads, NEW f \in Frames, Send(c, t, f)
  PROVE  /\ out' \in [Clients -> [Threads -> SUBSET Frames]]
         /\ \A d \in Clients, u \in Threads : out'[d][u] \subseteq out[d][u] \cup {f}
<1>1. out' \in [Clients -> [Threads -> SUBSET Frames]]
  BY DEF Send, TypeOK
<1>2. \A d \in Clients, u \in Threads : out'[d][u] = IF d = c /\ u = t THEN {f} ELSE out[d][u]
  BY DEF Send, TypeOK
<1>3. QED
  BY <1>1, <1>2

\* A line is typed.
LEMMA TypedType ==
  ASSUME TypeOK, NEW m \in Machines, NEW op \in Commands, NEW arg \in Nat, Typed(m, <<op, arg>>)
  PROVE  typed' \in [Machines -> Seq(Lines)]
<1>1. <<op, arg>> \in Lines
  BY DEF Lines
<1>2. typed[m] \in Seq(Lines)
  BY DEF TypeOK
<1>3. Append(typed[m], <<op, arg>>) \in Seq(Lines)
  BY <1>1, <1>2
<1>4. QED
  BY <1>3 DEF Typed, TypeOK

\* A client's main thread takes a frame.
LEMMA ReceiveTakes ==
  ASSUME TypeOK, NetInv, NEW c \in Clients, NEW n \in Machines, NEW T, Receive(c, n, T), NEW g
  PROVE  /\ Adds(net, net', {}, n, g)
         /\ \E f \in Frames : /\ f = Head(net[c][n]) /\ FrameInv(f) /\ f.type \in T
                              /\ f.dst.ip = ip[c]
<1>1. c \in Machines /\ net[c][n] # <<>> /\ net' = Taken(c, n)
  BY ConstantTypes DEF Receive, Comes
<1>2. Adds(net, net', {}, n, g)
  BY <1>1, TakenAdds
<1>3. PICK f \in Frames : f = Head(net[c][n]) /\ FrameInv(f)
  BY <1>1, TakesOne
<1>4. f.type \in T /\ f.dst.ip = ip[c]
  BY <1>3 DEF Receive, Comes
<1>5. QED
  BY <1>2, <1>3, <1>4

\* A client sends.
LEMMA SendFrameStep ==
  ASSUME IndInv, NEW c \in Clients, NEW t \in Threads, SendFrame(c, t)
  PROVE  IndInv'
<1>1. PICK f \in out[c][t] : /\ net' = Put(net, c, Hop(c, f.dst.ip), f)
                             /\ out' = [out EXCEPT ![c][t] = @ \ {f}]
  BY DEF SendFrame
<1>2. f \in Frames /\ FrameInv(f) /\ c \in Machines /\ net \in Wires
  BY ConstantTypes DEF IndInv, TypeOK, OutInv, Wires
<1>3. PICK S : S = Hop(c, f.dst.ip)
  OBVIOUS
<1>4. Adds(net, net', S, c, f)
  BY <1>1, <1>2, <1>3, PutAdds
<1>5. /\ out' \in [Clients -> [Threads -> SUBSET Frames]]
      /\ \A d \in Clients, u \in Threads : out'[d][u] \subseteq out[d][u] \cup {f}
  BY <1>1 DEF IndInv, TypeOK
<1>6. UNCHANGED <<server, client, nat, alive, typed, astray>>
  BY DEF SendFrame
<1>7. TypeOK'
  BY <1>4, <1>5, <1>6 DEF IndInv, TypeOK, Adds, Wires, server, client, nat
<1>8. StateInv' /\ Keeps
  BY <1>6, StateStays DEF IndInv, server, client, nat
<1>9. FrameInv(f)'
  BY <1>2, <1>7, <1>8, FrameKept DEF IndInv
<1>10. \A x \in S : Arrives(x, c, f)
  BY <1>3, HopArrives
<1>11. QED
  BY <1>2, <1>4, <1>5, <1>6, <1>7, <1>9, <1>10, PassiveStep DEF server, client, nat

\* A machine passes a frame on.
LEMMA RouteFrameStep ==
  ASSUME IndInv, NEW m \in Clients \cup {Server}, NEW n \in Machines, RouteFrame(m, n)
  PROVE  IndInv'
<1>1. m \in Machines /\ net[m][n] # <<>>
  BY ConstantTypes DEF RouteFrame
<1>2. PICK f \in Frames : f = Head(net[m][n]) /\ FrameInv(f)
  BY <1>1, TakesOne DEF IndInv
<1>3. PICK S : S = Hop(m, f.dst.ip)
  OBVIOUS
<1>4. net' = Put(Taken(m, n), m, S, f)
  BY <1>2, <1>3 DEF RouteFrame
<1>5. Adds(net, net', S, m, f)
  BY <1>1, <1>2, <1>4, TakenPutAdds DEF IndInv
<1>6. UNCHANGED <<server, client, nat, out, alive, typed, astray>>
  BY DEF RouteFrame
<1>7. TypeOK'
  BY <1>5, <1>6 DEF IndInv, TypeOK, Adds, Wires, server, client, nat
<1>8. StateInv' /\ Keeps
  BY <1>6, StateStays DEF IndInv, server, client, nat
<1>9. FrameInv(f)'
  BY <1>2, <1>7, <1>8, FrameKept DEF IndInv
<1>10. \A x \in S : Arrives(x, m, f)
  BY <1>3, HopArrives
<1>11. \A c \in Clients, t \in Threads : out'[c][t] \subseteq out[c][t] \cup {f}
  BY <1>6
<1>12. QED
  BY <1>1, <1>5, <1>6, <1>7, <1>9, <1>10, <1>11, PassiveStep DEF server, client, nat

\* The server answers, whatever its handler does to its tables.
LEMMA AnswerAdds ==
  ASSUME TypeOK, NEW n \in Machines, net[Server][n] # <<>>, NEW f \in Frames, Answer(n, f)
  PROVE  \E S : Adds(net, net', S, Server, f) /\ \A x \in S : Arrives(x, Server, f)
<1>1. PICK S : S = Hop(Server, f.dst.ip)
  OBVIOUS
<1>2. Adds(net, net', S, Server, f)
  BY <1>1, ConstantTypes, TakenPutAdds DEF Answer
<1>3. \A x \in S : Arrives(x, Server, f)
  BY <1>1, HopArrives
<1>4. QED
  BY <1>2, <1>3

\* The server takes a frame.
LEMMA ServerTakesOne ==
  ASSUME TypeOK, NetInv, NEW n \in Machines, NEW T, ServerTakes(n, T)
  PROVE  /\ net[Server][n] # <<>>
         /\ \E f \in Frames : f = Head(net[Server][n]) /\ FrameInv(f) /\ f.type \in T
         /\ UNCHANGED <<client, nat, out, typed, astray>>
<1>1. Server \in Machines /\ net[Server][n] # <<>>
  BY ConstantTypes DEF ServerTakes, Comes
<1>2. PICK f \in Frames : f = Head(net[Server][n]) /\ FrameInv(f)
  BY <1>1, TakesOne
<1>3. f.type \in T
  BY <1>2 DEF ServerTakes, Comes
<1>4. QED
  BY <1>1, <1>2, <1>3 DEF ServerTakes

\* The server says which addresses belong to an id.
LEMMA GettingIpStep ==
  ASSUME DistinctIps, IndInv, NEW n \in Machines, HandleRequestGettingIp(n)
  PROVE  IndInv'
<1>1. /\ net[Server][n] # <<>> /\ UNCHANGED <<server, client, nat, out, alive, typed, astray>>
      /\ \E f \in Frames : f = Head(net[Server][n]) /\ FrameInv(f) /\ f.type \in {"GETTING_IP"}
  BY ServerTakesOne DEF HandleRequestGettingIp, IndInv
<1>2. PICK f \in Frames : f = Head(net[Server][n])
  BY <1>1
<1>3. UNCHANGED <<slot, current_id_index, my_id, peers_data, mapping, next_port>>
  BY <1>1 DEF server, client, nat
<1>4. StateInv' /\ Keeps
  BY <1>3, StateStays DEF IndInv
<1>5. f.src \in Addresses /\ f.id \in Ids /\ ServerAddress \in Addresses
  BY FixedAddresses DEF Frames
<1>6. CASE slot[f.id].valid /\ \E i \in Ids : slot[i].public = f.src
  <2>1. PICK wanted : wanted = slot[f.id]
    OBVIOUS
  <2>2. wanted.local \in Addresses /\ wanted.public \in Addresses /\ wanted.valid
    BY <1>5, <1>6, <2>1 DEF IndInv, TypeOK, Slot
  <2>3. PICK g : g = [Frame("GETTING_IP", ServerAddress, f.src, f.id)
                        EXCEPT !.local = wanted.local, !.public = wanted.public]
    OBVIOUS
  <2>4. /\ g \in Frames /\ g.type = "GETTING_IP" /\ g.id = f.id
        /\ g.local = wanted.local /\ g.public = wanted.public
    BY <1>5, <2>2, <2>3, ConstantTypes, FixedAddresses DEF Frame, Frames, Types
  <2>5. Answer(n, g)
    BY <1>2, <1>6, <2>1, <2>3 DEF HandleRequestGettingIp
  <2>6. PICK S : Adds(net, net', S, Server, g) /\ \A x \in S : Arrives(x, Server, g)
    BY <1>1, <2>4, <2>5, AnswerAdds DEF IndInv
  <2>7. TypeOK'
    BY <1>1, <2>6 DEF IndInv, TypeOK, Adds, Wires, server, client, nat
  <2>8. Leads(wanted.public, wanted.local.ip) /\ NotOfNat(wanted.local.ip)
    BY <1>5, <2>1, <2>2 DEF IndInv, StateInv, SlotInv
  <2>9. Leads(wanted.local, wanted.local.ip)
    BY <2>8, DirectLeads DEF OnlyTo
  <2>10. Names(g.local, g.id) /\ Names(g.public, g.id)
    BY <2>1, <2>2, <2>4, <2>8, <2>9 DEF Names, Reaches
  <2>11. FrameInv(g)
    BY <2>4, <2>10 DEF FrameInv
  <2>12. FrameInv(g)'
    BY <1>4, <2>4, <2>7, <2>11, FrameKept DEF IndInv
  <2>13. \A c \in Clients, t \in Threads : out'[c][t] \subseteq out[c][t] \cup {g}
    BY <1>1
  <2>14. QED
    BY <1>3, <2>6, <2>7, <2>12, <2>13, ConstantTypes, PassiveStep
<1>7. CASE ~ (slot[f.id].valid /\ \E i \in Ids : slot[i].public = f.src)
  <2>1. net' = Taken(Server, n)
    BY <1>2, <1>7 DEF HandleRequestGettingIp
  <2>2. Adds(net, net', {}, n, f)
    BY <1>1, <2>1, ConstantTypes, TakenAdds DEF IndInv
  <2>3. TypeOK'
    BY <1>1, <2>2 DEF IndInv, TypeOK, Adds, Wires, server, client, nat
  <2>4. \A c \in Clients, t \in Threads : out'[c][t] \subseteq out[c][t]
    BY <1>1
  <2>5. FrameInv(f)'
    BY <1>1, <1>2, <1>4, <2>3, FrameKept DEF IndInv
  <2>6. QED
    BY <1>3, <2>2, <2>3, <2>4, <2>5, PassiveStep
<1>8. QED
  BY <1>6, <1>7

\* The server tells a client whether it is behind a NAT.
LEMMA StatusStep ==
  ASSUME DistinctIps, IndInv, NEW n \in Machines, HandleStatus(n)
  PROVE  IndInv'
<1>1. /\ net[Server][n] # <<>> /\ UNCHANGED <<server, client, nat, out, alive, typed, astray>>
      /\ \E f \in Frames : f = Head(net[Server][n]) /\ FrameInv(f) /\ f.type \in {"STATUS"}
  BY ServerTakesOne DEF HandleStatus, IndInv
<1>2. PICK f \in Frames : f = Head(net[Server][n])
  BY <1>1
<1>3. UNCHANGED <<slot, current_id_index, my_id, peers_data, mapping, next_port>>
  BY <1>1 DEF server, client, nat
<1>4. PICK id : id = (IF f.local = f.src THEN 1 ELSE 0)
  OBVIOUS
<1>5. f.src \in Addresses /\ id \in Ids /\ ServerAddress \in Addresses
  BY <1>4, FixedAddresses, ConstantTypes DEF Frames
<1>6. PICK g : g = Frame("STATUS_RESPOND", ServerAddress, f.src, id)
  OBVIOUS
<1>7. g \in Frames /\ FrameInv(g)'
  BY <1>5, <1>6, PlainInv
<1>8. Answer(n, g)
  BY <1>2, <1>4, <1>6 DEF HandleStatus
<1>9. PICK S : Adds(net, net', S, Server, g) /\ \A x \in S : Arrives(x, Server, g)
  BY <1>1, <1>7, <1>8, AnswerAdds DEF IndInv
<1>10. TypeOK'
  BY <1>1, <1>9 DEF IndInv, TypeOK, Adds, Wires, server, client, nat
<1>11. \A c \in Clients, t \in Threads : out'[c][t] \subseteq out[c][t] \cup {g}
  BY <1>1
<1>12. QED
  BY <1>3, <1>7, <1>9, <1>10, <1>11, ConstantTypes, PassiveStep

\* A client takes a frame, and its main thread may have one to send.
LEMMA ReactStep ==
  ASSUME DistinctIps, IndInv, NEW c \in Clients, NEW n \in Machines, NEW T, Receive(c, n, T),
         UNCHANGED <<my_id, peers_data>>,
         local_port' \in [Clients -> Ports],
         NEW g \in Frames, Send(c, "main", g) \/ UNCHANGED out,
         Send(c, "main", g) => FrameInv(g)'
  PROVE  IndInv'
<1>1. Adds(net, net', {}, n, g)
  BY ReceiveTakes DEF IndInv
<1>2. /\ out' \in [Clients -> [Threads -> SUBSET Frames]]
      /\ \A d \in Clients, t \in Threads : out'[d][t] \subseteq out[d][t] \cup {g}
  BY SendType DEF IndInv, TypeOK, Threads
<1>3. UNCHANGED <<server, nat, alive, typed, astray>>
  BY DEF Receive
<1>4. TypeOK'
  BY <1>1, <1>2, <1>3 DEF IndInv, TypeOK, Adds, Wires, server, nat
<1>5. UNCHANGED <<slot, current_id_index, my_id, peers_data, mapping, next_port>>
  BY <1>3 DEF server, nat
<1>6. CASE Send(c, "main", g)
  BY <1>1, <1>2, <1>4, <1>5, <1>6, PassiveStep
<1>7. CASE UNCHANGED out
  BY <1>1, <1>2, <1>4, <1>5, <1>7, PassiveStep
<1>8. QED
  BY <1>6, <1>7

\* A client asks again from another port.
LEMMA HandleDropStep ==
  ASSUME DistinctIps, IndInv, NEW c \in Clients, NEW n \in Machines, HandleDrop(c, n)
  PROVE  IndInv'
<1>1. /\ Receive(c, n, {"ASSIGNING_ID"}) /\ UNCHANGED <<my_id, peers_data>>
  BY DEF HandleDrop
<1>2. PICK port : port = (local_port[c] + Step) % PortRange
  OBVIOUS
<1>3. port \in Ports
  <2>1. local_port[c] \in Nat
    BY DEF IndInv, TypeOK, Ports
  <2>2. PICK sum : sum = local_port[c] + Step
    OBVIOUS
  <2>3. sum \in Nat /\ PortRange \in Nat \ {0}
    BY <2>1, <2>2, InputAssumption
  <2>4. QED
    BY <1>2, <2>2, <2>3 DEF Ports
<1>4. PICK g : g = Request(c, "ASSIGNING_ID", port)
  OBVIOUS
<1>5. g \in Frames /\ FrameInv(g)'
  BY <1>3, <1>4, RequestInv
<1>6. /\ UNCHANGED local_port \/ local_port' = [local_port EXCEPT ![c] = port]
      /\ Send(c, "main", g) \/ UNCHANGED out
  <2>1. CASE Head(net[c][n]).src.port = 1234
    BY <1>2, <1>4, <2>1 DEF HandleDrop
  <2>2. CASE Head(net[c][n]).src.port # 1234
    BY <2>2 DEF HandleDrop
  <2>3. QED
    BY <2>1, <2>2
<1>7. local_port' \in [Clients -> Ports]
  BY <1>3, <1>6 DEF IndInv, TypeOK
<1>8. QED
  BY <1>1, <1>5, <1>6, <1>7, ReactStep

\* It tells the server its new addresses.
LEMMA HandleNatUpdatedStep ==
  ASSUME DistinctIps, IndInv, NEW c \in Clients, NEW n \in Machines, HandleNatUpdated(c, n)
  PROVE  IndInv'
<1>1. PICK g : g = Request(c, "UPDATING_INFO", local_port[c])
  OBVIOUS
<1>2. local_port[c] \in Ports
  BY DEF IndInv, TypeOK
<1>3. g \in Frames /\ FrameInv(g)'
  BY <1>1, <1>2, RequestInv
<1>4. /\ Receive(c, n, {"NAT_UPDATED"}) /\ UNCHANGED <<my_id, peers_data, local_port>>
      /\ Send(c, "main", g)
  BY <1>1 DEF HandleNatUpdated, client
<1>5. QED
  BY <1>3, <1>4, ReactStep DEF IndInv, TypeOK

\* It prints.
LEMMA HandlePrintedStep ==
  ASSUME DistinctIps, IndInv, NEW c \in Clients, NEW n \in Machines, HandlePrinted(c, n)
  PROVE  IndInv'
<1>1. PICK g : g = Request(c, "STATUS", local_port[c])
  OBVIOUS
<1>2. g \in Frames /\ FrameInv(g)'
  BY <1>1, RequestInv DEF IndInv, TypeOK
<1>3. /\ Receive(c, n, {"MESSAGE", "STATUS_RESPOND"})
      /\ UNCHANGED <<my_id, peers_data, local_port, out>>
  BY DEF HandlePrinted, client
<1>4. QED
  BY <1>2, <1>3, ReactStep DEF IndInv, TypeOK

\* A line is typed at a client, after which its command thread may have g to send.
LEMMA TypedStep ==
  ASSUME IndInv, NEW c \in Clients, NEW op \in Commands, NEW arg \in Nat, Type(c, op, arg),
         local_port' \in [Clients -> Ports],
         NEW g \in Frames, Send(c, "cmd", g) \/ UNCHANGED out,
         peers_data' \in [Clients -> [Ids -> Peer]], astray' \in SUBSET Machines
  PROVE  /\ TypeOK' /\ Adds(net, net', {}, c, g) /\ UNCHANGED <<server, nat, my_id>>
         /\ \A d \in Clients, t \in Threads : out'[d][t] \subseteq out[d][t] \cup {g}
<1>1. UNCHANGED <<server, nat, net, alive, my_id>> /\ c \in Machines
  BY ConstantTypes DEF Type
<1>2. /\ out' \in [Clients -> [Threads -> SUBSET Frames]]
      /\ \A d \in Clients, t \in Threads : out'[d][t] \subseteq out[d][t] \cup {g}
  BY SendType DEF IndInv, TypeOK, Threads
<1>3. typed' \in [Machines -> Seq(Lines)]
  BY <1>1, TypedType DEF Type, IndInv
<1>4. Adds(net, net', {}, c, g)
  BY <1>1, StaysAdds DEF IndInv
<1>5. TypeOK'
  BY <1>1, <1>2, <1>3 DEF IndInv, TypeOK, server, nat
<1>6. QED
  BY <1>1, <1>2, <1>4, <1>5

\* A client is told to ask for an id,
LEMMA ConnectStep ==
  ASSUME DistinctIps, IndInv, NEW c \in Clients, NEW port \in Ports, SendRequestAssigningId(c, port)
  PROVE  IndInv'
<1>1. PICK g : g = Request(c, "ASSIGNING_ID", port)
  OBVIOUS
<1>2. g \in Frames /\ FrameInv(g)'
  BY <1>1, RequestInv
<1>3. /\ Type(c, "connect", port) /\ Send(c, "cmd", g) /\ UNCHANGED peers_data
      /\ "connect" \in Commands /\ port \in Nat
  BY <1>1, ConstantTypes DEF SendRequestAssigningId, Commands
<1>4. /\ local_port' \in [Clients -> Ports] /\ peers_data' \in [Clients -> [Ids -> Peer]]
      /\ astray' \in SUBSET Machines
  BY DEF SendRequestAssigningId, IndInv, TypeOK
<1>5. /\ TypeOK' /\ Adds(net, net', {}, c, g) /\ UNCHANGED <<server, nat, my_id>>
      /\ \A d \in Clients, t \in Threads : out'[d][t] \subseteq out[d][t] \cup {g}
  BY <1>2, <1>3, <1>4, TypedStep
<1>6. QED
  BY <1>2, <1>3, <1>5, ConstantTypes, PassiveStep DEF server, nat

\* to ask for the addresses of a peer,
LEMMA InfoStep ==
  ASSUME DistinctIps, IndInv, NEW c \in Clients, NEW i \in Ids, SendRequestGettingIp(c, i)
  PROVE  IndInv'
<1>1. PICK g : g = Frame("GETTING_IP", Own(c, local_port[c]), ServerAddress, i)
  OBVIOUS
<1>2. c \in Machines /\ local_port[c] \in Nat /\ i \in Nat
  BY ConstantTypes DEF IndInv, TypeOK
<1>3. Own(c, local_port[c]) \in Addresses /\ ServerAddress \in Addresses
  BY <1>2, OwnType, FixedAddresses
<1>4. g \in Frames /\ FrameInv(g)'
  BY <1>1, <1>3, PlainInv
<1>5. /\ Type(c, "info", i) /\ Send(c, "cmd", g) /\ UNCHANGED <<local_port, peers_data, astray>>
      /\ "info" \in Commands
  BY <1>1 DEF SendRequestGettingIp, Commands
<1>6. /\ TypeOK' /\ Adds(net, net', {}, c, g) /\ UNCHANGED <<server, nat, my_id>>
      /\ \A d \in Clients, t \in Threads : out'[d][t] \subseteq out[d][t] \cup {g}
  BY <1>2, <1>4, <1>5, TypedStep DEF IndInv, TypeOK
<1>7. QED
  BY <1>2, <1>4, <1>5, <1>6, PassiveStep DEF server, nat

\* and to ask whether it is behind a NAT.
LEMMA SendStatusStep ==
  ASSUME DistinctIps, IndInv, NEW c \in Clients, SendStatus(c)
  PROVE  IndInv'
<1>1. PICK g : g = Request(c, "STATUS", local_port[c])
  OBVIOUS
<1>2. g \in Frames /\ FrameInv(g)'
  BY <1>1, RequestInv DEF IndInv, TypeOK
<1>3. /\ Type(c, "status", 0) /\ Send(c, "cmd", g) /\ UNCHANGED <<local_port, peers_data, astray>>
      /\ "status" \in Commands /\ c \in Machines
  BY <1>1, ConstantTypes DEF SendStatus, Commands
<1>4. /\ TypeOK' /\ Adds(net, net', {}, c, g) /\ UNCHANGED <<server, nat, my_id>>
      /\ \A d \in Clients, t \in Threads : out'[d][t] \subseteq out[d][t] \cup {g}
  BY <1>2, <1>3, TypedStep DEF IndInv, TypeOK
<1>5. QED
  BY <1>2, <1>3, <1>4, PassiveStep DEF server, nat

\* A client's process dies.
LEMMA DataRaceStep ==
  ASSUME IndInv, NEW c \in Clients, DataRace(c)
  PROVE  IndInv'
<1>1. UNCHANGED <<server, client, nat, out, net, typed, astray>> /\ alive' \in SUBSET Machines
  BY DEF DataRace, IndInv, TypeOK
<1>2. TypeOK'
  BY <1>1 DEF IndInv, TypeOK, server, client, nat
<1>3. PICK f : f = NoAddress
  OBVIOUS
<1>4. Adds(net, net', {}, c, f)
  BY <1>1, StaysAdds DEF IndInv
<1>5. \A d \in Clients, t \in Threads : out'[d][t] \subseteq out[d][t] /\ c \in Machines
  BY <1>1, ConstantTypes
<1>6. QED
  BY <1>1, <1>2, <1>4, <1>5, ConstantTypes, PassiveStep DEF server, client, nat

\* A port is blocked.
LEMMA NatBlockStep ==
  ASSUME IndInv, NEW n \in Nats, NEW port \in Ports, NatBlock(n, port)
  PROVE  IndInv'
<1>1. /\ UNCHANGED <<server, client, mapping, punched, next_port, out, net, alive, astray>>
      /\ n \in Machines /\ port \in Nat /\ "block" \in Commands /\ Typed(n, <<"block", port>>)
  BY ConstantTypes DEF NatBlock, Commands
<1>2. typed' \in [Machines -> Seq(Lines)]
  BY <1>1, TypedType DEF IndInv
<1>3. blocked' \in [Nats -> SUBSET Nat]
  BY <1>1 DEF NatBlock, IndInv, TypeOK
<1>4. TypeOK'
  BY <1>1, <1>2, <1>3 DEF IndInv, TypeOK, server, client
<1>5. PICK f : f = NoAddress
  OBVIOUS
<1>6. Adds(net, net', {}, n, f)
  BY <1>1, StaysAdds DEF IndInv
<1>7. \A d \in Clients, t \in Threads : out'[d][t] \subseteq out[d][t]
  BY <1>1
<1>8. QED
  BY <1>1, <1>4, <1>6, <1>7, PassiveStep DEF server, client

-----------------------------------------------------------------------------
(***************************************************************************)
(* The NATs.                                                               *)
(***************************************************************************)

\* Inside, a frame goes on to whom it was meant for.
LEMMA InboundInv ==
  ASSUME DistinctIps, NEW n \in Nats, NEW e \in mapping[n], NEW f \in Frames, FrameInv(f), f.dst.ip = ip[n],
         f.dst.port = e.port, NotOfNat(e.inside.ip), e.inside \in Addresses,
         NEW g, g = [f EXCEPT !.dst = e.inside]
  PROVE  g \in Frames /\ FrameInv(g)
<1>1. /\ g \in Frames /\ g.type = f.type /\ g.src = f.src /\ g.dst = e.inside /\ g.id = f.id
      /\ g.local = f.local /\ g.public = f.public /\ g.for = f.for
  BY DEF Frames
<1>2. f.dst # NoAddress
  BY FixedAddresses, IpsDiffer DEF NotOfNat
<1>3. ASSUME NEW i, Names(f.dst, i) PROVE Names(g.dst, i)
  <2>1. slot[i].valid /\ Leads(f.dst, slot[i].local.ip)
    BY <1>2, <1>3 DEF Names, Reaches
  <2>2. OnlyTo(e.inside.ip, slot[i].local.ip)
    BY <2>1 DEF Leads
  <2>3. Leads(g.dst, slot[i].local.ip)
    BY <1>1, <2>2 DEF Leads, NotOfNat
  <2>4. QED
    BY <2>1, <2>3 DEF Names, Reaches
<1>4. QED
  BY <1>1, <1>3, Zenon DEF FrameInv

\* The mappings that let f in, and what becomes of f.
Asked(n, f) ==
  {e \in mapping[n] : e.port = f.dst.port /\ [port |-> e.port, remote |-> f.src] \in punched[n]}

\* Where the DROP goes that answers a frame not let in.
Rejected(f) == IF f.src.ip = BoxIp THEN {} ELSE Entries(Out(f.src.ip))

\* What becomes of one that is.
Rewritten(f, e) == [f EXCEPT !.dst = e.inside]

\* It goes to the client inside.
LetsIn(n, m, f) ==
  \E e \in Asked(n, f) :
    net' = Put(Taken(n, m), n, Entries({c \in Behind(n) : ip[c] = e.inside.ip}), Rewritten(f, e))

\* Either it is let in or it is answered.
LEMMA InboundCases ==
  ASSUME NEW n, NEW m, NEW f, f = Head(net[n][m]), NatInbound(n, m)
  PROVE  LetsIn(n, m, f) \/ net' = Put(Taken(n, m), n, Rejected(f), Drop(n, 4321, f))
<1>1. IF Asked(n, Head(net[n][m])) # {}
      THEN LetsIn(n, m, Head(net[n][m]))
      ELSE net' = Put(Taken(n, m), n, Rejected(Head(net[n][m])), Drop(n, 4321, Head(net[n][m])))
  BY Zenon DEF NatInbound, Asked, Rejected, LetsIn, Rewritten
<1>2. QED
  BY <1>1

\* A frame comes from outside.
LEMMA NatInboundStep ==
  ASSUME DistinctIps, IndInv, NEW n \in Nats, NEW m \in Machines, NatInbound(n, m)
  PROVE  IndInv'
<1>1. /\ net[n][m] # <<>> /\ m \notin Behind(n) /\ n \in Machines
      /\ UNCHANGED <<server, client, out, alive, typed, nat, astray>>
  BY ConstantTypes DEF NatInbound, NatTakes
<1>2. PICK f \in Frames : f = Head(net[n][m]) /\ FrameInv(f) /\ Arrives(n, m, f)
  BY <1>1, TakesOne DEF IndInv
<1>3. f.dst.ip = ip[n]
  BY <1>1, <1>2 DEF Arrives
<1>4. UNCHANGED <<slot, current_id_index, my_id, peers_data, mapping, next_port>>
  BY <1>1 DEF server, client, nat
<1>5. StateInv' /\ Keeps
  BY <1>4, StateStays DEF IndInv
<1>6. ASSUME NEW S, NEW g \in Frames, net' = Put(Taken(n, m), n, S, g),
             S \cap Machines # {} => FrameInv(g) \/ FrameInv(g)',
             \A x \in S : Arrives(x, n, g)
      PROVE  IndInv'
  <2>1. Adds(net, net', S, n, g)
    BY <1>1, <1>6, TakenPutAdds DEF IndInv
  <2>2. TypeOK'
    BY <1>1, <2>1 DEF IndInv, TypeOK, Adds, Wires, server, client, nat
  <2>3. S \cap Machines # {} => FrameInv(g)'
    BY <1>5, <1>6, <2>2, FrameKept DEF IndInv
  <2>4. \A c \in Clients, t \in Threads : out'[c][t] \subseteq out[c][t]
    BY <1>1
  <2>5. QED
    BY <1>1, <1>4, <1>6, <2>1, <2>2, <2>3, <2>4, PassiveStep
<1>7. CASE LetsIn(n, m, f)
  <2>1. PICK e \in mapping[n] :
           /\ e.port = f.dst.port
           /\ net' = Put(Taken(n, m), n, Entries({c \in Behind(n) : ip[c] = e.inside.ip}),
                         Rewritten(f, e))
    BY <1>7 DEF LetsIn, Asked
  <2>2. PICK C, S, g : /\ C = {c \in Behind(n) : ip[c] = e.inside.ip} /\ S = Entries(C)
                       /\ g = Rewritten(f, e)
    OBVIOUS
  <2>3. e.inside \in Addresses /\ g \in Frames
    <3>1. mapping[n] \in SUBSET [inside : Addresses, port : Nat]
      BY DEF IndInv, TypeOK
    <3>2. e.inside \in Addresses
      BY <3>1
    <3>3. QED
      BY <2>2, <3>2 DEF Rewritten, Frames
  <2>4. \A x \in S : Arrives(x, n, g)
    BY <2>2, InsideArrives DEF Behind
  <2>5. ASSUME S # {} PROVE FrameInv(g)
    <3>1. PICK c \in Clients : ip[c] = e.inside.ip
      BY <2>2, <2>5 DEF Entries, Behind
    <3>2. NotOfNat(e.inside.ip)
      BY <3>1, IpsDiffer
    <3>3. QED
      BY <1>2, <1>3, <2>1, <2>2, <2>3, <3>2, InboundInv DEF Rewritten
  <2>6. QED
    BY <1>6, <2>1, <2>2, <2>3, <2>4, <2>5
<1>8. CASE net' = Put(Taken(n, m), n, Rejected(f), Drop(n, 4321, f))
  <2>1. PICK S, g : S = Rejected(f) /\ g = Drop(n, 4321, f)
    OBVIOUS
  <2>2. g \in Frames /\ g.dst = f.src /\ FrameInv(g)'
    BY <2>1, DropInv
  <2>3. \A x \in S : Arrives(x, n, g)
    BY <2>1, <2>2, OutsideArrives DEF Rejected
  <2>4. QED
    BY <1>6, <1>8, <2>1, <2>2, <2>3
<1>9. QED
  BY <1>2, <1>7, <1>8, InboundCases

\* What clients know stays true.
LEMMA KnowledgeKept ==
  ASSUME TypeOK, TypeOK', StateInv, Keeps, UNCHANGED <<my_id, peers_data>>
  PROVE  PeerInv' /\ IdsOwned' /\ SessionsKnown'
<1>1. \A c \in Clients, i \in Ids : Owns(c, i) => Owns(c, i)'
  BY DEF Keeps, Owns
<1>2. PeerInv'
  <2> SUFFICES ASSUME NEW c \in Clients, NEW i \in Ids
               PROVE  /\ Names(peers_data[c][i].local, i)' /\ Names(peers_data[c][i].public, i)'
    BY DEF PeerInv
  <2>1. PICK a, b : a = peers_data[c][i].local /\ b = peers_data[c][i].public
    OBVIOUS
  <2>2. a \in Addresses /\ b \in Addresses /\ Names(a, i) /\ Names(b, i)
    BY <2>1 DEF TypeOK, Peer, StateInv, PeerInv
  <2>3. Names(a, i)' /\ Names(b, i)'
    BY <2>2, NamesKept
  <2>4. QED
    BY <2>1, <2>3 DEF Names, Reaches, Leads
<1>3. IdsOwned'
  BY <1>1 DEF StateInv, IdsOwned, TypeOK
<1>4. SessionsKnown'
  <2> SUFFICES ASSUME NEW c \in Clients, NEW i \in Ids, Ready(peers_data[c][i])
               PROVE  \E d \in Clients, j \in Ids :
                        Owns(d, i)' /\ Owns(c, j)' /\ peers_data[d][j].known
    BY DEF SessionsKnown, Ready
  <2>1. PICK d \in Clients, j \in Ids : Owns(d, i) /\ Owns(c, j) /\ peers_data[d][j].known
    BY DEF StateInv, SessionsKnown
  <2>2. QED
    BY <1>1, <2>1
<1>5. QED
  BY <1>2, <1>3, <1>4

\* What the state says survives what a NAT does to its ports.
LEMMA StateKept ==
  ASSUME TypeOK, TypeOK', StateInv, Keeps, MapInv',
         UNCHANGED <<slot, current_id_index, my_id, peers_data>>
  PROVE  StateInv'
<1>1. SlotInv'
  <2> SUFFICES ASSUME NEW i \in Ids, slot[i].valid
               PROVE  /\ i < current_id_index /\ NotOfNat(slot[i].local.ip)
                      /\ Leads(slot[i].public, slot[i].local.ip)'
    BY DEF SlotInv, NotOfNat
  <2>1. PICK a, j : a = slot[i].public /\ j = slot[i].local.ip
    OBVIOUS
  <2>2. a \in Addresses /\ Leads(a, j) /\ i < current_id_index /\ NotOfNat(j)
    BY <2>1 DEF TypeOK, Slot, StateInv, SlotInv
  <2>3. Leads(a, j)'
    BY <2>2, LeadsKept
  <2>4. QED
    BY <2>1, <2>2, <2>3 DEF Leads
<1>2. PeerInv' /\ IdsOwned' /\ SessionsKnown'
  BY KnowledgeKept
<1>3. QED
  BY <1>1, <1>2 DEF StateInv

\* What is sent to a public port gets where the address inside leads.
LEMMA OutboundInv ==
  ASSUME DistinctIps, MapInv', NEW n \in Nats, NEW port \in Nat, NEW f \in Frames, FrameInv(f)',
         [inside |-> f.src, port |-> port] \in mapping'[n],
         NEW g, g = [f EXCEPT !.src = Address(ip[n], port)]
  PROVE  g \in Frames /\ FrameInv(g)'
<1>1. PICK a, e : a = Address(ip[n], port) /\ e = [inside |-> f.src, port |-> port]
  OBVIOUS
<1>2. a \in Addresses /\ a.ip = ip[n] /\ a.port = port
  BY <1>1, ConstantTypes, AddressType
<1>3. /\ g \in Frames /\ g.type = f.type /\ g.src = a /\ g.dst = f.dst /\ g.id = f.id
      /\ g.local = f.local /\ g.public = f.public /\ g.for = f.for
  BY <1>1, <1>2 DEF Frames
<1>4. e \in mapping'[n] /\ e.port = port /\ e.inside = f.src
  BY <1>1
<1>5. ASSUME NEW i, Leads(f.src, i)' PROVE Leads(a, i)'
  <2>1. OnlyTo(f.src.ip, i)
    BY <1>5 DEF Leads, OnlyTo
  <2>2. \A d \in mapping'[n] : d.port = port => OnlyTo(d.inside.ip, i)
    BY <1>4, <2>1 DEF MapInv
  <2>3. port < next_port'[n]
    BY <1>4 DEF MapInv
  <2>4. OnlyTo(a.ip, i) /\ \A m \in Nats : a.ip = ip[m] => m = n
    BY <1>2, IpsDiffer, ConstantTypes DEF DistinctIps
  <2>5. QED
    BY <1>2, <2>2, <2>3, <2>4 DEF Leads, OnlyTo
<1>6. ASSUME NEW i, Reaches(f.src, i)' PROVE Reaches(g.src, i)'
  <2>1. PICK j : j = slot'[i].local.ip
    OBVIOUS
  <2>2. slot'[i].valid /\ Leads(f.src, j)'
    BY <1>6, <2>1 DEF Reaches, Leads
  <2>3. Leads(a, j)'
    BY <1>5, <2>2
  <2>4. QED
    BY <1>3, <2>1, <2>2, <2>3 DEF Reaches, Leads
<1>7. ASSUME f.type \in {"ASSIGNING_ID", "UPDATING_INFO"}
      PROVE  NotOfNat(g.local.ip) /\ Leads(g.src, g.local.ip)'
  BY <1>3, <1>5, <1>7 DEF FrameInv, NotOfNat
<1>8. QED
  BY <1>3, <1>6, <1>7, Zenon DEF FrameInv, NotOfNat

\* The port f goes out by, and what becomes of it.
Mapped(n, f) == {e \in mapping[n] : e.inside = f.src}

\* A new mapping, if there is none.
Fresh(n, f) == IF Mapped(n, f) = {} THEN {[inside |-> f.src, port |-> next_port[n]]} ELSE {}

\* The frame goes out by one of them.
LetsOut(n, c, f) ==
  \E e \in Mapped(n, f) \cup Fresh(n, f) :
    /\ mapping' = [mapping EXCEPT ![n] = @ \cup Fresh(n, f)]
    /\ next_port' = [next_port EXCEPT ![n] = IF Mapped(n, f) = {} THEN PortAfter(@) ELSE @]
    /\ astray' = IF Fresh(n, f) # {} /\ PortAfter(next_port[n]) = 0
                 THEN astray \cup {n} ELSE astray
    /\ punched' = [punched EXCEPT ![n] = @ \cup {[port |-> e.port, remote |-> f.dst]}]
    /\ net' = Put(Taken(n, c), n, Entries(Out(f.dst.ip)),
                  [f EXCEPT !.src = Address(ip[n], e.port)])
    /\ UNCHANGED blocked

\* The port is blocked.
SendsBack(n, c, f) ==
  net' = Put(Taken(n, c), n, {c}, Drop(n, 1234, f)) /\ UNCHANGED <<nat, astray>>

\* Either the frame goes out or it is answered.
LEMMA OutboundCases ==
  ASSUME NEW n, NEW c, NEW f, f = Head(net[n][c]), NatOutbound(n, c)
  PROVE  LetsOut(n, c, f) \/ SendsBack(n, c, f)
<1>1. IF Head(net[n][c]).src.port \in blocked[n]
      THEN SendsBack(n, c, Head(net[n][c]))
      ELSE LetsOut(n, c, Head(net[n][c]))
  BY Zenon DEF NatOutbound, LetsOut, Mapped, Fresh, SendsBack
<1>2. QED
  BY <1>1

\* A new port is one never used,
MapsOut ==
  /\ mapping' \in [Nats -> SUBSET [inside : Addresses, port : Nat]]
  /\ next_port' \in [Nats -> Nat]
  /\ MapInv'
  /\ \A m \in Nats : /\ next_port[m] <= next_port'[m]
                     /\ \A e \in mapping'[m] : e \in mapping[m] \/ next_port[m] <= e.port

\* and f leaves by one that its source is mapped to.
GoesOutBy(n, c, f, port) ==
  /\ [inside |-> f.src, port |-> port] \in mapping'[n]
  /\ net' = Put(Taken(n, c), n, Entries(Out(f.dst.ip)), [f EXCEPT !.src = Address(ip[n], port)])

\* That is what letting out does, if it does not go back to the first port.
LEMMA LetsOutMaps ==
  ASSUME TypeOK, MapInv, astray' = {}, NEW n \in Nats, NEW c \in Clients, NEW f \in Frames, LetsOut(n, c, f)
  PROVE  /\ MapsOut /\ punched' \in [Nats -> SUBSET [port : Nat, remote : Addresses]]
         /\ \E port \in Nat : GoesOutBy(n, c, f, port)
<1>1. PICK last, new : last = next_port[n] /\ new = [inside |-> f.src, port |-> last]
  OBVIOUS
<1>2. /\ last \in Nat /\ new \in [inside : Addresses, port : Nat] /\ new.port = last
      /\ new.inside = f.src /\ f.src \in Addresses /\ f.dst \in Addresses
      /\ mapping \in [Nats -> SUBSET [inside : Addresses, port : Nat]] /\ next_port \in [Nats -> Nat]
  BY <1>1 DEF TypeOK, Frames
<1>3. PICK e \in Mapped(n, f) \cup Fresh(n, f) :
         /\ punched' = [punched EXCEPT ![n] = @ \cup {[port |-> e.port, remote |-> f.dst]}]
         /\ net' = Put(Taken(n, c), n, Entries(Out(f.dst.ip)),
                       [f EXCEPT !.src = Address(ip[n], e.port)])
  BY Zenon DEF LetsOut
<1>4. e \in [inside : Addresses, port : Nat] /\ e.inside = f.src
  BY <1>1, <1>2 DEF Mapped, Fresh
<1>5. e.port \in Nat /\ e = [inside |-> f.src, port |-> e.port]
  BY <1>4
<1>6. punched' \in [Nats -> SUBSET [port : Nat, remote : Addresses]]
  <2>1. [port |-> e.port, remote |-> f.dst] \in [port : Nat, remote : Addresses]
    BY <1>2, <1>5
  <2>2. QED
    BY <1>3, <2>1 DEF TypeOK
<1>7. /\ mapping' = [mapping EXCEPT ![n] = @ \cup Fresh(n, f)]
      /\ next_port' = [next_port EXCEPT ![n] = IF Mapped(n, f) = {} THEN PortAfter(@) ELSE @]
      /\ ~ (Fresh(n, f) # {} /\ PortAfter(last) = 0)
  <2>1. astray' = IF Fresh(n, f) # {} /\ PortAfter(last) = 0 THEN astray \cup {n} ELSE astray
    BY <1>1, Zenon DEF LetsOut
  <2>2. ~ (Fresh(n, f) # {} /\ PortAfter(last) = 0)
    BY <2>1
  <2>3. QED
    BY <2>2, Zenon DEF LetsOut
<1>8. ASSUME Mapped(n, f) # {} PROVE MapsOut /\ e \in mapping'[n]
  <2>1. Fresh(n, f) = {}
    BY <1>8 DEF Fresh
  <2>2. mapping' = mapping /\ next_port' = next_port
    BY <1>2, <1>7, <1>8, <2>1
  <2>3. MapInv'
    BY <2>2 DEF MapInv
  <2>4. e \in mapping'[n]
    BY <1>3, <2>1, <2>2 DEF Mapped
  <2>5. \A m \in Nats : next_port[m] <= next_port'[m] /\ mapping'[m] = mapping[m]
    BY <1>2, <2>2
  <2>6. QED
    BY <1>2, <2>2, <2>3, <2>4, <2>5 DEF MapsOut
<1>9. ASSUME Mapped(n, f) = {} PROVE MapsOut /\ e \in mapping'[n]
  <2>1. Fresh(n, f) = {new}
    BY <1>1, <1>9 DEF Fresh
  <2>2. /\ mapping' \in [Nats -> SUBSET [inside : Addresses, port : Nat]]
        /\ \A m \in Nats : mapping'[m] = IF m = n THEN mapping[n] \cup {new} ELSE mapping[m]
    BY <1>2, <1>7, <2>1
  <2>3. PortAfter(last) = last + 1
    BY <1>7, <2>1 DEF PortAfter
  <2>4. /\ next_port' \in [Nats -> Nat]
        /\ \A m \in Nats : next_port'[m] = IF m = n THEN last + 1 ELSE next_port[m]
    BY <1>1, <1>2, <1>7, <1>9, <2>3
  <2>5. \A m \in Nats : \A d \in mapping[m] : d.port \in Nat /\ d.port < next_port[m]
    BY <1>2 DEF MapInv
  <2>6. ASSUME NEW m \in Nats
        PROVE  /\ \A d \in mapping'[m] : d.port < next_port'[m]
               /\ \A d, g \in mapping'[m] : d.port = g.port => d = g
               /\ next_port[m] <= next_port'[m]
               /\ \A d \in mapping'[m] : d \in mapping[m] \/ next_port[m] <= d.port
    <3>1. next_port[m] \in Nat
      BY <1>2
    <3>2. CASE m # n
      BY <2>2, <2>4, <2>5, <3>1, <3>2 DEF MapInv
    <3>3. CASE m = n
      <4>1. mapping'[m] = mapping[m] \cup {new} /\ next_port'[m] = last + 1 /\ next_port[m] = last
        BY <1>1, <2>2, <2>4, <3>3
      <4>2. \A d \in mapping[m] : d.port \in Nat /\ d.port < last
        BY <2>5, <4>1
      <4>3. \A d, g \in mapping[m] : d.port = g.port => d = g
        BY DEF MapInv
      <4>4. QED
        BY <1>2, <4>1, <4>2, <4>3
    <3>4. QED
      BY <3>2, <3>3
  <2>7. MapInv'
    BY <2>6 DEF MapInv
  <2>8. e \in mapping'[n]
    BY <1>3, <1>9, <2>1, <2>2
  <2>9. QED
    BY <2>2, <2>4, <2>6, <2>7, <2>8 DEF MapsOut
<1>10. MapsOut /\ e \in mapping'[n]
  BY <1>8, <1>9
<1>11. GoesOutBy(n, c, f, e.port)
  BY <1>3, <1>5, <1>10 DEF GoesOutBy
<1>12. QED
  BY <1>5, <1>6, <1>10, <1>11

\* A frame comes from inside.
LEMMA NatOutboundStep ==
  ASSUME DistinctIps, IndInv, astray' = {}, NEW n \in Nats, NEW c \in Clients, NatOutbound(n, c)
  PROVE  IndInv'
<1>1. /\ net[n][c] # <<>> /\ n \in Machines /\ c \in Machines
      /\ UNCHANGED <<server, client, out, alive, typed>>
  BY ConstantTypes DEF NatOutbound, NatTakes
<1>2. PICK f \in Frames : f = Head(net[n][c]) /\ FrameInv(f)
  BY <1>1, TakesOne DEF IndInv
<1>3. UNCHANGED <<slot, current_id_index, my_id, peers_data>>
  BY <1>1 DEF server, client
<1>4. \A d \in Clients, t \in Threads : out'[d][t] \subseteq out[d][t]
  BY <1>1
<1>5. CASE LetsOut(n, c, f)
  <2>1. MapsOut /\ punched' \in [Nats -> SUBSET [port : Nat, remote : Addresses]]
    BY <1>5, LetsOutMaps DEF IndInv, StateInv
  <2>2. PICK port \in Nat : GoesOutBy(n, c, f, port)
    BY <1>5, LetsOutMaps DEF IndInv, StateInv
  <2>3. PICK S, g : S = Entries(Out(f.dst.ip)) /\ g = [f EXCEPT !.src = Address(ip[n], port)]
    OBVIOUS
  <2>4. g \in Frames /\ g.dst = f.dst
    <3>1. Address(ip[n], port) \in Addresses
      BY <1>1, ConstantTypes, AddressType
    <3>2. QED
      BY <2>3, <3>1 DEF Frames
  <2>5. Adds(net, net', S, n, g)
    BY <1>1, <2>2, <2>3, <2>4, TakenPutAdds DEF IndInv, GoesOutBy
  <2>6. blocked' = blocked
    BY <1>5 DEF LetsOut
  <2>7. TypeOK'
    BY <1>1, <2>1, <2>5, <2>6 DEF IndInv, TypeOK, Adds, Wires, server, client, MapsOut
  <2>8. Keeps
    BY <1>3, <2>1 DEF Keeps, MapsOut
  <2>9. StateInv'
    BY <1>3, <2>1, <2>7, <2>8, StateKept DEF IndInv, MapsOut
  <2>10. FrameInv(f)'
    BY <1>2, <2>7, <2>8, FrameKept DEF IndInv
  <2>11. FrameInv(g)'
    BY <2>1, <2>2, <2>3, <2>10, OutboundInv DEF MapsOut, GoesOutBy
  <2>12. \A x \in S : Arrives(x, n, g)
    BY <2>3, <2>4, OutsideArrives
  <2>13. NetInv'
    BY <1>1, <2>5, <2>7, <2>8, <2>11, <2>12, NetStep DEF IndInv
  <2>14. OutInv'
    BY <1>4, <2>7, <2>8, OutStep DEF IndInv
  <2>15. QED
    BY <2>7, <2>9, <2>13, <2>14 DEF IndInv
<1>6. CASE SendsBack(n, c, f)
  <2>1. PICK S : S = {c}
    OBVIOUS
  <2>2. PICK g : g = Drop(n, 1234, f)
    OBVIOUS
  <2>3. g \in Frames /\ FrameInv(g)'
    BY <2>2, DropInv
  <2>4. net' = Put(Taken(n, c), n, S, g) /\ UNCHANGED <<nat, astray>>
    BY <1>6, <2>1, <2>2 DEF SendsBack, nat
  <2>5. Adds(net, net', S, n, g)
    BY <1>1, <2>3, <2>4, TakenPutAdds DEF IndInv
  <2>6. TypeOK'
    BY <1>1, <2>4, <2>5 DEF IndInv, TypeOK, Adds, Wires, server, client, nat
  <2>7. UNCHANGED <<slot, current_id_index, my_id, peers_data, mapping, next_port>>
    BY <1>3, <2>4 DEF nat
  <2>8. \A x \in S : Arrives(x, n, g)
    BY <2>1, ConstantTypes DEF Arrives
  <2>9. QED
    BY <1>1, <1>4, <2>3, <2>5, <2>6, <2>7, <2>8, PassiveStep
<1>7. f = Head(net[n][c])
  BY <1>2
<1>8. LetsOut(n, c, f) \/ SendsBack(n, c, f)
  BY <1>7, OutboundCases
<1>9. QED
  BY <1>5, <1>6, <1>8

-----------------------------------------------------------------------------
(***************************************************************************)
(* Ids: the server gives and updates them, the clients take them.          *)
(***************************************************************************)

\* An address that comes to c and names i: then i is registered for c.
LEMMA NamesMine ==
  ASSUME DistinctIps, NEW c \in Clients, NEW a, a.ip = ip[c], NEW i, Names(a, i)
  PROVE  Owns(c, i) /\ Reaches(a, i)
<1>1. a # NoAddress
  BY FixedAddresses, IpAssumption, ConstantTypes
<1>2. slot[i].valid /\ OnlyTo(ip[c], slot[i].local.ip) /\ Reaches(a, i)
  BY <1>1 DEF Names, Reaches, Leads
<1>3. QED
  BY <1>2 DEF OnlyTo, Owns

\* The server changes its table, and sends at most g.
LEMMA TableStep ==
  ASSUME IndInv, TypeOK', SlotInv', Keeps, UNCHANGED <<client, nat, out>>,
         NEW S, NEW g, Adds(net, net', S, Server, g),
         S \cap Machines # {} => FrameInv(g)', \A x \in S : Arrives(x, Server, g)
  PROVE  IndInv'
<1>1. UNCHANGED <<my_id, peers_data, mapping, next_port>>
  BY DEF client, nat
<1>2. PeerInv' /\ IdsOwned' /\ SessionsKnown'
  BY <1>1, KnowledgeKept DEF IndInv
<1>3. MapInv'
  BY <1>1 DEF MapInv, IndInv, StateInv
<1>4. NetInv'
  BY NetStep, ConstantTypes DEF IndInv
<1>5. \A c \in Clients, t \in Threads : out'[c][t] \subseteq out[c][t]
  OBVIOUS
<1>6. OutInv'
  BY <1>5, OutStep DEF IndInv
<1>7. QED
  BY <1>2, <1>3, <1>4, <1>6 DEF IndInv, StateInv

\* The server gives an id.
LEMMA AssignStep ==
  ASSUME DistinctIps, IndInv, NEW n \in Machines, HandleRequestAssigningId(n)
  PROVE  IndInv'
<1>1. /\ net[Server][n] # <<>> /\ UNCHANGED <<client, nat, out, typed, astray>>
      /\ \E f \in Frames : f = Head(net[Server][n]) /\ FrameInv(f) /\ f.type \in {"ASSIGNING_ID"}
  BY ServerTakesOne DEF HandleRequestAssigningId, IndInv
<1>2. PICK f \in Frames : f = Head(net[Server][n]) /\ FrameInv(f) /\ f.type = "ASSIGNING_ID"
  BY <1>1
<1>3. f.src \in Addresses /\ f.local \in Addresses /\ ServerAddress \in Addresses
  BY FixedAddresses DEF Frames
<1>4. NotOfNat(f.local.ip) /\ Leads(f.src, f.local.ip)
  BY <1>2 DEF FrameInv
<1>5. CASE current_id_index < Slots
  <2>1. PICK k, new : /\ k = current_id_index
                      /\ new = [valid |-> TRUE, local |-> f.local, public |-> f.src]
    OBVIOUS
  <2>2. /\ k \in Ids /\ k \in 1 .. Slots /\ k + 1 \in 1 .. Slots
        /\ slot \in [Ids -> Slot] /\ new \in Slot
    BY <1>3, <1>5, <2>1, InputAssumption DEF Ids, IndInv, TypeOK, Slot
  <2>3. PICK g : g = Frame("ASSIGNING_ID", ServerAddress, f.src, k)
    OBVIOUS
  <2>4. /\ slot' = [slot EXCEPT ![k] = new] /\ current_id_index' = k + 1
        /\ Answer(n, g) /\ UNCHANGED alive
    BY <1>2, <1>5, <2>1, <2>3 DEF HandleRequestAssigningId
  <2>5. IsFrame(g, "ASSIGNING_ID", ServerAddress, f.src, k, NoAddress, NoAddress, 0)
    BY <1>3, <2>2, <2>3, FrameType DEF Types
  <2>6. PICK S : Adds(net, net', S, Server, g) /\ \A x \in S : Arrives(x, Server, g)
    BY <1>1, <2>4, <2>5, AnswerAdds DEF IndInv, IsFrame
  <2>7. \A i \in Ids : slot'[i] = IF i = k THEN new ELSE slot[i]
    BY <2>2, <2>4
  <2>8. TypeOK'
    BY <1>1, <2>2, <2>4, <2>6 DEF IndInv, TypeOK, Adds, Wires, client, nat
  <2>9. ~ slot[k].valid
    BY <2>1, <2>2 DEF IndInv, StateInv, SlotInv
  <2>10. Keeps
    <3>1. \A i \in Ids : slot[i].valid => slot'[i] = slot[i]
      BY <2>7, <2>9
    <3>2. UNCHANGED <<peers_data, mapping, next_port>> /\ next_port \in [Nats -> Nat]
      BY <1>1 DEF client, nat, IndInv, TypeOK
    <3>3. QED
      BY <3>1, <3>2 DEF Keeps
  <2>11. Leads(f.src, f.local.ip)'
    <3>1. PICK a, j : a = f.src /\ j = f.local.ip
      OBVIOUS
    <3>2. Leads(a, j)'
      BY <1>3, <1>4, <2>8, <2>10, <3>1, LeadsKept DEF IndInv
    <3>3. QED
      BY <3>1, <3>2
  <2>12. SlotInv'
    <3> SUFFICES ASSUME NEW i \in Ids, slot'[i].valid
                 PROVE  /\ i < k + 1 /\ NotOfNat(slot'[i].local.ip)
                        /\ Leads(slot[i].public, slot[i].local.ip)'
      BY <2>4 DEF SlotInv, NotOfNat
    <3>1. CASE i = k
      <4>1. slot'[i].local = f.local /\ slot'[i].public = f.src
        BY <2>1, <2>7, <3>1
      <4>2. QED
        BY <1>4, <2>2, <2>11, <3>1, <4>1 DEF Leads
    <3>2. CASE i # k
      <4>1. PICK a, j : a = slot[i].public /\ j = slot[i].local.ip
        OBVIOUS
      <4>2. slot'[i] = slot[i]
        BY <2>7, <3>2
      <4>3. a \in Addresses /\ Leads(a, j) /\ i < k /\ NotOfNat(j)
        BY <2>1, <4>1, <4>2 DEF IndInv, TypeOK, Slot, StateInv, SlotInv
      <4>4. Leads(a, j)'
        BY <2>8, <2>10, <4>3, LeadsKept DEF IndInv
      <4>5. i < k + 1
        BY <2>2, <4>3 DEF Ids
      <4>6. QED
        BY <4>1, <4>2, <4>3, <4>4, <4>5 DEF Leads
    <3>3. QED
      BY <3>1, <3>2
  <2>13. FrameInv(g)'
    <3>1. /\ NotOfNat(g.local.ip) /\ OnlyTo(g.src.ip, g.local.ip) /\ NotOfNat(g.src.ip)
      BY <2>5, IpsDiffer, FixedAddresses DEF IsFrame
    <3>2. Leads(g.src, g.local.ip)'
      BY <3>1, DirectLeads
    <3>3. slot'[k].valid /\ slot'[k].local = f.local
      BY <2>1, <2>2, <2>7
    <3>4. Names(g.dst, k)'
      BY <2>5, <2>11, <3>3 DEF Names, Reaches, Leads, IsFrame
    <3>5. QED
      BY <2>5, <3>1, <3>2, <3>4 DEF FrameInv, IsFrame, NotOfNat, Names, Reaches, Leads
  <2>14. QED
    BY <1>1, <2>6, <2>8, <2>10, <2>12, <2>13, TableStep
<1>6. CASE ~ (current_id_index < Slots)
  <2>1. alive' = alive \ {Server} /\ net' = Taken(Server, n) /\ UNCHANGED server
    BY <1>6 DEF HandleRequestAssigningId
  <2>2. Adds(net, net', {}, n, f)
    BY <1>1, <2>1, ConstantTypes, TakenAdds DEF IndInv
  <2>3. TypeOK'
    BY <1>1, <2>1, <2>2 DEF IndInv, TypeOK, Adds, Wires, server, client, nat
  <2>4. \A c \in Clients, t \in Threads : out'[c][t] \subseteq out[c][t]
    BY <1>1
  <2>5. UNCHANGED <<slot, current_id_index, my_id, peers_data, mapping, next_port>>
    BY <1>1, <2>1 DEF server, client, nat
  <2>6. StateInv' /\ Keeps
    BY <2>5, StateStays DEF IndInv
  <2>7. FrameInv(f)'
    BY <1>2, <2>3, <2>6, FrameKept DEF IndInv
  <2>8. QED
    BY <2>2, <2>3, <2>4, <2>5, <2>7, PassiveStep
<1>7. QED
  BY <1>5, <1>6

\* The server gives an id other addresses, of the same client.
LEMMA UpdateStep ==
  ASSUME DistinctIps, IndInv, NEW n \in Machines, HandleRequestUpdatingInfo(n)
  PROVE  IndInv'
<1>1. /\ net[Server][n] # <<>> /\ UNCHANGED <<client, nat, out, typed, astray>>
      /\ \E f \in Frames : f = Head(net[Server][n]) /\ FrameInv(f) /\ f.type \in {"UPDATING_INFO"}
  BY ServerTakesOne, Zenon DEF HandleRequestUpdatingInfo, IndInv
<1>2. PICK f \in Frames : f = Head(net[Server][n]) /\ FrameInv(f) /\ f.type = "UPDATING_INFO"
  BY <1>1
<1>3. f.src \in Addresses /\ f.local \in Addresses
  BY DEF Frames
<1>4. Leads(f.src, f.local.ip)
  BY <1>2 DEF FrameInv
<1>5. PICK same :
        same = {i \in Ids : slot[i].public.ip = f.src.ip /\ slot[i].local.ip = f.local.ip}
  OBVIOUS
<1>6. /\ slot' = [i \in Ids |-> IF i \in same /\ \A j \in same : i <= j
                                THEN [slot[i] EXCEPT !.local = f.local, !.public = f.src]
                                ELSE slot[i]]
      /\ net' = Taken(Server, n) /\ UNCHANGED <<current_id_index, alive>>
  BY <1>2, <1>5, Zenon DEF HandleRequestUpdatingInfo
<1>7. ASSUME NEW i \in Ids
      PROVE  /\ slot'[i] \in Slot
             /\ slot'[i].valid = slot[i].valid /\ slot'[i].local.ip = slot[i].local.ip
             /\ \/ slot'[i].public = slot[i].public
                \/ slot'[i].public = f.src /\ slot[i].local.ip = f.local.ip
  <2>1. slot[i] \in Slot
    BY DEF IndInv, TypeOK
  <2>2. CASE slot'[i] = slot[i]
    BY <2>1, <2>2
  <2>3. CASE i \in same /\ slot'[i] = [slot[i] EXCEPT !.local = f.local, !.public = f.src]
    <3>1. slot[i].local.ip = f.local.ip
      BY <1>5, <2>3
    <3>2. QED
      BY <1>3, <2>1, <2>3, <3>1 DEF Slot
  <2>4. QED
    BY <1>6, <2>2, <2>3
<1>8. slot' \in [Ids -> Slot]
  BY <1>6, <1>7
<1>9. Adds(net, net', {}, Server, f)
  <2>1. Adds(net, net', {}, n, f)
    BY <1>1, <1>6, ConstantTypes, TakenAdds, Zenon DEF IndInv
  <2>2. QED
    BY <2>1 DEF Adds
<1>10. TypeOK'
  BY <1>1, <1>6, <1>8, <1>9 DEF IndInv, TypeOK, Adds, Wires, client, nat
<1>11. Keeps
  BY <1>1, <1>7 DEF Keeps, client, nat, IndInv, TypeOK
<1>12. SlotInv'
  <2> SUFFICES ASSUME NEW i \in Ids, slot'[i].valid
               PROVE  /\ i < current_id_index /\ NotOfNat(slot'[i].local.ip)
                      /\ Leads(slot[i].public, slot[i].local.ip)'
    BY <1>6 DEF SlotInv, NotOfNat
  <2>1. PICK a, j : a = slot'[i].public /\ j = slot[i].local.ip
    OBVIOUS
  <2>2. slot[i].valid /\ slot[i] \in Slot /\ slot'[i].local.ip = j
    BY <1>7, <2>1 DEF IndInv, TypeOK
  <2>3. i < current_id_index /\ NotOfNat(j) /\ Leads(slot[i].public, j)
    BY <2>1, <2>2 DEF IndInv, StateInv, SlotInv
  <2>4. Leads(a, j) /\ a \in Addresses
    BY <1>3, <1>4, <1>7, <2>1, <2>2, <2>3 DEF Slot
  <2>5. Leads(a, j)'
    BY <1>10, <1>11, <2>4, LeadsKept DEF IndInv
  <2>6. QED
    BY <2>1, <2>2, <2>3, <2>5 DEF Leads
<1>13. QED
  BY <1>1, <1>9, <1>10, <1>11, <1>12, TableStep

\* A client takes the id it is given.
LEMMA TakeIdStep ==
  ASSUME DistinctIps, IndInv, NEW c \in Clients, NEW n \in Machines, HandleResponseAssigningId(c, n)
  PROVE  IndInv'
<1>1. /\ Receive(c, n, {"ASSIGNING_ID"}) /\ UNCHANGED <<local_port, peers_data, out>>
  BY DEF HandleResponseAssigningId
<1>2. PICK f \in Frames : /\ f = Head(net[c][n]) /\ FrameInv(f) /\ f.type = "ASSIGNING_ID"
                          /\ f.dst.ip = ip[c]
  BY <1>1, ReceiveTakes DEF IndInv
<1>3. f.id # 0 /\ my_id' = [my_id EXCEPT ![c] = f.id] /\ f.id \in Ids
  BY <1>2 DEF HandleResponseAssigningId, Frames
<1>4. Owns(c, f.id)
  BY <1>2, <1>3, NamesMine DEF FrameInv
<1>5. Adds(net, net', {}, n, f)
  BY <1>1, ReceiveTakes DEF IndInv
<1>6. UNCHANGED <<server, nat, alive, typed, astray>> /\ n \in Machines
  BY <1>1 DEF Receive
<1>7. TypeOK'
  BY <1>1, <1>3, <1>5, <1>6 DEF IndInv, TypeOK, Adds, Wires, server, nat
<1>8. UNCHANGED <<slot, current_id_index, peers_data, mapping, next_port>>
  BY <1>1, <1>6 DEF server, nat
<1>9. Keeps
  BY <1>8 DEF Keeps, IndInv, TypeOK
<1>10. MapInv' /\ SlotInv' /\ PeerInv' /\ SessionsKnown'
  BY <1>8 DEF IndInv, StateInv, MapInv, SlotInv, PeerInv, SessionsKnown, Owns, Names,
              Reaches, NotOfNat, Leads, Ready, OnlyTo
<1>11. IdsOwned'
  <2>1. \A d \in Clients : my_id'[d] = IF d = c THEN f.id ELSE my_id[d]
    BY <1>3 DEF IndInv, TypeOK
  <2>2. QED
    BY <1>4, <1>8, <2>1 DEF IndInv, StateInv, IdsOwned, Owns
<1>12. NetInv'
  BY <1>5, <1>6, <1>7, <1>9, NetStep DEF IndInv
<1>13. OutInv'
  BY <1>1, <1>7, <1>9, OutStep DEF IndInv
<1>14. QED
  BY <1>7, <1>10, <1>11, <1>12, <1>13 DEF IndInv, StateInv

-----------------------------------------------------------------------------
(***************************************************************************)
(* Sessions and messages: what a client knows of its peers.                *)
(***************************************************************************)

\* Client c learns p of id i, and may have g to send.
Learns(c, i, p) == peers_data' = [peers_data EXCEPT ![c][i] = p]

\* Nothing else changes, and p has to be true.
LEMMA LearnsState ==
  ASSUME IndInv, UNCHANGED <<slot, current_id_index, my_id, mapping, next_port>>,
         NEW c \in Clients, NEW i \in Ids, NEW p \in Peer, Learns(c, i, p),
         Names(p.local, i), Names(p.public, i), peers_data[c][i].known => p.known,
         Ready(p) => \/ Ready(peers_data[c][i])
                     \/ \E d \in Clients, j \in Ids :
                          Owns(d, i) /\ Owns(c, j) /\ peers_data[d][j].known
  PROVE  StateInv' /\ Keeps /\ peers_data' \in [Clients -> [Ids -> Peer]]
<1>1. peers_data \in [Clients -> [Ids -> Peer]] /\ next_port \in [Nats -> Nat]
  BY DEF IndInv, TypeOK
<1>2. /\ peers_data' \in [Clients -> [Ids -> Peer]]
      /\ \A d \in Clients, j \in Ids :
           peers_data'[d][j] = IF d = c /\ j = i THEN p ELSE peers_data[d][j]
  BY <1>1 DEF Learns
<1>3. Keeps
  BY <1>1, <1>2 DEF Keeps
<1>4. MapInv' /\ SlotInv' /\ IdsOwned'
  BY SMTT(30) DEF IndInv, StateInv, MapInv, SlotInv, IdsOwned, Owns, NotOfNat, Leads, OnlyTo
<1>5. PeerInv'
  <2> SUFFICES ASSUME NEW d \in Clients, NEW j \in Ids
               PROVE  /\ Names(peers_data[d][j].local, j)' /\ Names(peers_data[d][j].public, j)'
    BY DEF PeerInv
  <2>1. PICK q : q = peers_data'[d][j]
    OBVIOUS
  <2>2. Names(q.local, j) /\ Names(q.public, j)
    BY <1>2, <2>1 DEF IndInv, StateInv, PeerInv
  <2>3. QED
    BY <2>1, <2>2 DEF Names, Reaches, Leads
<1>6. SessionsKnown'
  <2> SUFFICES ASSUME NEW d \in Clients, NEW j \in Ids, Ready(peers_data'[d][j])
               PROVE  \E e \in Clients, k \in Ids :
                        Owns(e, j) /\ Owns(d, k) /\ peers_data'[e][k].known
    BY DEF SessionsKnown, Owns, Ready
  <2>1. \E e \in Clients, k \in Ids : Owns(e, j) /\ Owns(d, k) /\ peers_data[e][k].known
    <3>1. CASE Ready(peers_data[d][j])
      BY <3>1 DEF IndInv, StateInv, SessionsKnown
    <3>2. CASE ~ Ready(peers_data[d][j])
      BY <1>2, <3>2
    <3>3. QED
      BY <3>1, <3>2
  <2>2. QED
    BY <1>3, <2>1 DEF Keeps
<1>7. QED
  BY <1>2, <1>3, <1>4, <1>5, <1>6 DEF StateInv

\* What a step sends is true after it.
LEMMA SendsStep ==
  ASSUME IndInv, TypeOK', StateInv', Keeps,
         NEW m \in Machines, NEW g, Adds(net, net', {}, m, g),
         \A d \in Clients, t \in Threads : out'[d][t] \subseteq out[d][t] \cup {g},
         FrameInv(g)'
  PROVE  IndInv'
<1>1. NetInv'
  BY NetStep DEF IndInv
<1>2. OutInv'
  BY OutStep DEF IndInv
<1>3. QED
  BY <1>1, <1>2 DEF IndInv

\* A ping or pong is from somebody who knows its receiver.
LEMMA KnownSender ==
  ASSUME DistinctIps, NEW c \in Clients, NEW f, f.dst.ip = ip[c], f.type \in {"PING", "PONG"}, FrameInv(f)
  PROVE  \E d \in Clients, j \in Ids : Owns(d, f.id) /\ Owns(c, j) /\ peers_data[d][j].known
<1>1. PICK j \in Ids : Acquainted(f.id, j) /\ Names(f.dst, j)
  BY DEF FrameInv
<1>2. Owns(c, j)
  BY <1>1, NamesMine
<1>3. QED
  BY <1>1, <1>2 DEF Acquainted

\* What a client learns from a frame.
LEMMA LearnStep ==
  ASSUME DistinctIps, IndInv, NEW c \in Clients, NEW n \in Machines, NEW T, Receive(c, n, T),
         UNCHANGED <<my_id, local_port>>,
         NEW i \in Ids, NEW p \in Peer, Learns(c, i, p),
         Names(p.local, i), Names(p.public, i), peers_data[c][i].known => p.known,
         Ready(p) => \/ Ready(peers_data[c][i])
                     \/ \E d \in Clients, j \in Ids :
                          Owns(d, i) /\ Owns(c, j) /\ peers_data[d][j].known,
         NEW g \in Frames, Send(c, "main", g) \/ UNCHANGED out
  PROVE  /\ TypeOK' /\ StateInv' /\ Keeps /\ UNCHANGED server
         /\ FrameInv(g)' => IndInv'
<1>1. UNCHANGED <<server, nat, alive, typed, astray>>
  BY DEF Receive
<1>2. UNCHANGED <<slot, current_id_index, mapping, next_port>>
  BY <1>1 DEF server, nat
<1>3. StateInv' /\ Keeps /\ peers_data' \in [Clients -> [Ids -> Peer]]
  BY <1>2, LearnsState
<1>4. Adds(net, net', {}, n, g)
  BY ReceiveTakes DEF IndInv
<1>5. /\ out' \in [Clients -> [Threads -> SUBSET Frames]]
      /\ \A d \in Clients, t \in Threads : out'[d][t] \subseteq out[d][t] \cup {g}
  BY SendType DEF IndInv, TypeOK, Threads
<1>6. TypeOK'
  BY <1>1, <1>3, <1>4, <1>5 DEF IndInv, TypeOK, Adds, Wires, server, nat
<1>7. QED
  BY <1>1, <1>3, <1>4, <1>5, <1>6, SendsStep

\* The answer of the server.
LEMMA LearnAddressesStep ==
  ASSUME DistinctIps, IndInv, NEW c \in Clients, NEW n \in Machines, HandleResponseGettingIp(c, n)
  PROVE  IndInv'
<1>1. Receive(c, n, {"GETTING_IP"}) /\ UNCHANGED <<my_id, local_port, out>>
  BY DEF HandleResponseGettingIp
<1>2. PICK f \in Frames : f = Head(net[c][n]) /\ FrameInv(f) /\ f.type = "GETTING_IP"
  BY <1>1, ReceiveTakes DEF IndInv
<1>3. f.id \in Ids /\ f.local \in Addresses /\ f.public \in Addresses
  BY DEF Frames
<1>4. PICK old, p :
        /\ old = peers_data[c][f.id]
        /\ p = [old EXCEPT !.known = TRUE, !.local = f.local, !.public = f.public]
  OBVIOUS
<1>5. /\ old \in Peer /\ p \in Peer /\ p.local = f.local /\ p.public = f.public /\ p.known
      /\ p.ping_sent = old.ping_sent /\ p.pong_received = old.pong_received
  <2>1. old \in Peer
    BY <1>3, <1>4 DEF IndInv, TypeOK
  <2>2. QED
    BY <1>3, <1>4, <2>1 DEF Peer
<1>6. Learns(c, f.id, p)
  BY <1>2, <1>4 DEF HandleResponseGettingIp, Learns
<1>7. Names(p.local, f.id) /\ Names(p.public, f.id)
  BY <1>2, <1>5 DEF FrameInv
<1>8. Ready(p) => Ready(peers_data[c][f.id])
  BY <1>4, <1>5 DEF Ready
<1>9. /\ TypeOK' /\ StateInv' /\ Keeps /\ FrameInv(f)' => IndInv'
  BY <1>1, <1>3, <1>5, <1>6, <1>7, <1>8, LearnStep
<1>10. TypeOK' /\ StateInv' /\ Keeps
  BY <1>1, <1>3, <1>5, <1>6, <1>7, <1>8, LearnStep
<1>11. FrameInv(f)'
  BY <1>2, <1>10, FrameKept DEF IndInv
<1>12. QED
  BY <1>9, <1>10, <1>11

\* A pong.
LEMMA PongStep ==
  ASSUME DistinctIps, IndInv, NEW c \in Clients, NEW n \in Machines, HandleResponseSession(c, n)
  PROVE  IndInv'
<1>1. Receive(c, n, {"PONG"}) /\ UNCHANGED <<my_id, local_port, out>>
  BY Zenon DEF HandleResponseSession
<1>2. PICK f \in Frames : /\ f = Head(net[c][n]) /\ FrameInv(f) /\ f.type = "PONG"
                          /\ f.dst.ip = ip[c]
  BY <1>1, ReceiveTakes DEF IndInv
<1>3. f.id \in Ids
  BY DEF Frames
<1>4. PICK old, p :
        /\ old = peers_data[c][f.id]
        /\ p = [old EXCEPT !.pong_received = @ \/ old.known]
  OBVIOUS
<1>5. /\ old \in Peer /\ p \in Peer /\ p.local = old.local /\ p.public = old.public
      /\ p.known = old.known
  <2>1. old \in Peer
    BY <1>3, <1>4 DEF IndInv, TypeOK
  <2>2. (old.pong_received \/ old.known) \in BOOLEAN
    OBVIOUS
  <2>3. QED
    BY <1>4, <2>1, <2>2 DEF Peer
<1>6. Learns(c, f.id, p)
  <2>1. peers_data \in [Clients -> [Ids -> Peer]]
    BY DEF IndInv, TypeOK
  <2>2. peers_data' = [peers_data EXCEPT ![c][f.id].pong_received = @ \/ old.known]
    BY <1>2, <1>4, Zenon DEF HandleResponseSession
  <2>3. QED
    BY <1>3, <1>4, <2>1, <2>2 DEF Learns
<1>7. Names(p.local, f.id) /\ Names(p.public, f.id)
  BY <1>3, <1>4, <1>5 DEF IndInv, StateInv, PeerInv
<1>8. \E d \in Clients, j \in Ids : Owns(d, f.id) /\ Owns(c, j) /\ peers_data[d][j].known
  BY <1>2, KnownSender
<1>9. /\ TypeOK' /\ StateInv' /\ Keeps /\ FrameInv(f)' => IndInv'
  BY <1>1, <1>3, <1>4, <1>5, <1>6, <1>7, <1>8, LearnStep
<1>10. TypeOK' /\ StateInv' /\ Keeps
  BY <1>1, <1>3, <1>4, <1>5, <1>6, <1>7, <1>8, LearnStep
<1>11. FrameInv(f)'
  BY <1>2, <1>10, FrameKept DEF IndInv
<1>12. QED
  BY <1>9, <1>10, <1>11

\* What goes to a peer.
LEMMA ToPeerInv ==
  ASSUME DistinctIps, IndInv, StateInv', Keeps, UNCHANGED <<my_id, slot>>,
         NEW c \in Clients, NEW type \in {"PING", "PONG"},
         NEW dst \in Addresses, NEW i \in Ids, Names(dst, i)', peers_data'[c][i].known,
         NEW g, g = ToPeer(c, type, dst)
  PROVE  g \in Frames /\ FrameInv(g)'
<1>1. type \in Types
  BY DEF Types
<1>2. CASE my_id[c] = -1
  <2>1. IsFrame(g, "STATUS_RESPOND", Own(c, local_port[c]), dst, Slots - 1, NoAddress, NoAddress, 0)
    BY <1>1, <1>2, ToPeerType DEF IndInv
  <2>2. QED
    BY <2>1 DEF IsFrame, FrameInv
<1>3. CASE my_id[c] # -1
  <2>1. PICK k : k = my_id[c]
    OBVIOUS
  <2>2. k \in Ids /\ Owns(c, k) /\ Owns(c, k)'
    BY <1>3, <2>1 DEF IndInv, StateInv, TypeOK, IdsOwned, Owns
  <2>3. IsFrame(g, type, Own(c, local_port[c]), dst, k, NoAddress, NoAddress, 0)
    BY <1>1, <1>3, <2>1, ToPeerType DEF IndInv
  <2>4. Acquainted(k, i)'
    BY <2>2 DEF Acquainted, Owns
  <2>5. Reaches(g.src, k)'
    <3>1. g.src.ip = ip[c]
      <4>1. local_port[c] \in Nat /\ c \in Machines
        BY ConstantTypes DEF IndInv, TypeOK
      <4>2. QED
        BY <2>3, <4>1, OwnType DEF IsFrame
    <3>2. PICK j : j = ip[c]
      OBVIOUS
    <3>3. OnlyTo(g.src.ip, j) /\ NotOfNat(g.src.ip)
      BY <3>1, <3>2, IpsDiffer DEF OnlyTo
    <3>4. Leads(g.src, j)'
      BY <3>3, DirectLeads
    <3>5. QED
      BY <2>2, <3>2, <3>4 DEF Reaches, Owns, Leads
  <2>6. Names(g.dst, i)'
    BY <2>3 DEF IsFrame, Names, Reaches, Leads
  <2>7. \E j \in Ids : Acquainted(k, j)' /\ Names(g.dst, j)'
    BY <2>4, <2>6
  <2>8. QED
    BY <2>3, <2>5, <2>7 DEF IsFrame, FrameInv, Acquainted, Names, Reaches, Leads, Owns
<1>4. QED
  BY <1>2, <1>3

\* What becomes of an entry by a ping.
Pinged(old, f, near, pong) ==
  [known |-> TRUE, ping_sent |-> TRUE, pong_received |-> pong,
   local |-> IF old.known THEN old.local ELSE f.src,
   public |-> IF old.known THEN old.public ELSE f.src,
   connected_locally |-> near]

\* A ping: who sends it is known from now on.
LEMMA PingStep ==
  ASSUME DistinctIps, IndInv, NEW c \in Clients, NEW n \in Machines, HandleRequestSession(c, n)
  PROVE  IndInv'
<1>1. Receive(c, n, {"PING"}) /\ UNCHANGED <<my_id, local_port>>
  BY Zenon DEF HandleRequestSession
<1>2. PICK f \in Frames : /\ f = Head(net[c][n]) /\ FrameInv(f) /\ f.type = "PING"
                          /\ f.dst.ip = ip[c]
  BY <1>1, ReceiveTakes DEF IndInv
<1>3. f.id \in Ids /\ f.src \in Addresses
  BY DEF Frames
<1>4. PICK near \in BOOLEAN, pong \in BOOLEAN : Learns(c, f.id, Pinged(peers_data[c][f.id], f, near, pong))
  BY <1>2, Zenon DEF HandleRequestSession, Learns, Pinged
<1>5. PICK old, p : old = peers_data[c][f.id] /\ p = Pinged(old, f, near, pong)
  OBVIOUS
<1>6. /\ p \in Peer /\ p.local \in {old.local, f.src} /\ p.public \in {old.public, f.src} /\ p.known
  <2>1. old \in Peer
    BY <1>3, <1>5 DEF IndInv, TypeOK
  <2>2. QED
    BY <1>3, <1>5, <2>1 DEF Peer, Pinged
<1>7. Learns(c, f.id, p)
  BY <1>5, <1>4
<1>8. Names(f.src, f.id)
  BY <1>2 DEF FrameInv, Names
<1>9. Names(p.local, f.id) /\ Names(p.public, f.id)
  BY <1>3, <1>5, <1>6, <1>8 DEF IndInv, StateInv, PeerInv
<1>10. \E d \in Clients, j \in Ids : Owns(d, f.id) /\ Owns(c, j) /\ peers_data[d][j].known
  BY <1>2, KnownSender
<1>11. PICK g : g = ToPeer(c, "PONG", f.src)
  BY Zenon
<1>12. Send(c, "main", g)
  BY <1>2, <1>11, Zenon DEF HandleRequestSession
<1>13. g \in Frames
  <2>1. "PONG" \in Types
    BY DEF Types
  <2>2. QED
    BY <1>3, <1>11, <2>1, ToPeerType DEF IsFrame, IndInv
<1>14. TypeOK' /\ StateInv' /\ Keeps /\ UNCHANGED server /\ (FrameInv(g)' => IndInv')
  BY <1>1, <1>3, <1>6, <1>7, <1>9, <1>10, <1>12, <1>13, LearnStep
<1>15. Names(f.src, f.id)'
  BY <1>3, <1>8, <1>14, NamesKept DEF IndInv
<1>16. peers_data'[c][f.id].known
  BY <1>3, <1>6, <1>7 DEF Learns, IndInv, TypeOK
<1>17. FrameInv(g)'
  BY <1>1, <1>3, <1>11, <1>14, <1>15, <1>16, ToPeerInv DEF server
<1>18. QED
  BY <1>14, <1>17

\* What a client may read of a peer's address is an address.
LEMMA ReadingType ==
  ASSUME TypeOK, NEW c \in Clients, NEW i \in Ids, NEW locally \in BOOLEAN
  PROVE  /\ Paths(c, i, locally) \subseteq Addresses
         /\ Readings(c, i, locally) \subseteq Addresses
<1>1. Path(peers_data[c][i], locally) \in Addresses
  <2>1. peers_data[c][i] \in Peer
    BY DEF TypeOK
  <2>2. QED
    BY <2>1 DEF Path, Peer
<1>2. ASSUME NEW n \in Machines, Comes(c, n, {"GETTING_IP"})
      PROVE  Path(Head(net[c][n]), locally) \in Addresses
  <2>1. net[c][n] # <<>> /\ net[c][n] \in Seq(Frames)
    BY <1>2, ConstantTypes DEF Comes, TypeOK
  <2>2. Head(net[c][n]) \in Frames
    BY <2>1
  <2>3. QED
    BY <2>2 DEF Path, Frames
<1>3. Paths(c, i, locally) \subseteq Addresses
  BY <1>1, <1>2 DEF Paths
<1>4. \A a, b \in Addresses : Address(a.ip, b.port) \in Addresses
  BY DEF Address, Addresses
<1>5. QED
  BY <1>3, <1>4 DEF Readings

\* Read whole, it names the peer.
LEMMA PathNames ==
  ASSUME IndInv, NEW c \in Clients, NEW i \in Ids, NEW locally \in BOOLEAN,
         NEW dst \in Paths(c, i, locally)
  PROVE  Names(dst, i)
<1>1. CASE dst = Path(peers_data[c][i], locally)
  <2>1. /\ Names(peers_data[c][i].local, i) /\ Names(peers_data[c][i].public, i)
    BY DEF IndInv, StateInv, PeerInv
  <2>2. QED
    BY <1>1, <2>1 DEF Path
<1>2. ASSUME NEW n \in Machines, Comes(c, n, {"GETTING_IP"}), Head(net[c][n]).id = i,
             dst = Path(Head(net[c][n]), locally)
      PROVE  Names(dst, i)
  <2>1. net[c][n] # <<>> /\ c \in Machines
    BY <1>2, ConstantTypes DEF Comes
  <2>2. PICK f \in Frames : f = Head(net[c][n]) /\ FrameInv(f)
    BY <2>1, TakesOne DEF IndInv
  <2>3. f.type = "GETTING_IP" /\ f.id = i /\ dst = Path(f, locally)
    BY <1>2, <2>2 DEF Comes
  <2>4. Names(f.local, i) /\ Names(f.public, i)
    BY <2>2, <2>3 DEF FrameInv
  <2>5. QED
    BY <2>3, <2>4 DEF Path
<1>3. QED
  BY <1>1, <1>2 DEF Paths

\* A client is told to make a session.
LEMMA SessionStep ==
  ASSUME DistinctIps, IndInv, astray' = {}, NEW c \in Clients, NEW i \in Ids, NEW locally \in BOOLEAN,
         SendRequestSession(c, i, locally)
  PROVE  IndInv'
<1>1. PICK old, p :
        /\ old = peers_data[c][i]
        /\ p = [old EXCEPT !.connected_locally = locally, !.ping_sent = TRUE, !.pong_received = FALSE]
  OBVIOUS
<1>2. PICK dst \in Readings(c, i, locally) : SendToPath(c, i, locally, ToPeer(c, "PING", dst))
  BY DEF SendRequestSession
<1>3. dst \in Addresses
  BY <1>2, ReadingType DEF IndInv
<1>4. dst \in Paths(c, i, locally) /\ Send(c, "cmd", ToPeer(c, "PING", dst)) /\ astray' \in SUBSET Machines
  <2>1. ToPeer(c, "PING", dst).dst = dst
    BY DEF ToPeer, Frame
  <2>2. QED
    BY <1>2, <2>1 DEF SendToPath
<1>5. old \in Peer /\ old.known
  BY <1>1 DEF SendRequestSession, IndInv, TypeOK
<1>6. p \in Peer /\ p.local = old.local /\ p.public = old.public /\ p.known /\ ~ p.pong_received
  BY <1>1, <1>5 DEF Peer
<1>7. Names(old.local, i) /\ Names(old.public, i) /\ Names(dst, i)
  BY <1>1, <1>4, PathNames DEF IndInv, StateInv, PeerInv
<1>8. PICK g : g = ToPeer(c, "PING", dst)
  OBVIOUS
<1>9. PICK op : op = (IF locally THEN "local" ELSE "public")
  OBVIOUS
<1>10. /\ Type(c, op, i) /\ Learns(c, i, p) /\ Send(c, "cmd", g) /\ UNCHANGED local_port
  BY <1>1, <1>8, <1>9, <1>4 DEF SendRequestSession, Learns
<1>11. op \in Commands /\ i \in Nat /\ c \in Machines
  BY <1>9, ConstantTypes DEF Commands
<1>12. g \in Frames
  <2>1. "PING" \in Types
    BY DEF Types
  <2>2. QED
    BY <1>3, <1>8, <2>1, ToPeerType DEF IsFrame, IndInv
<1>13. UNCHANGED <<slot, current_id_index, my_id, mapping, next_port>>
  BY <1>10 DEF Type, server, nat
<1>14. StateInv' /\ Keeps /\ peers_data' \in [Clients -> [Ids -> Peer]]
  BY <1>6, <1>7, <1>10, <1>13, LearnsState DEF Ready
<1>15. /\ TypeOK' /\ Adds(net, net', {}, c, g)
       /\ \A d \in Clients, t \in Threads : out'[d][t] \subseteq out[d][t] \cup {g}
  BY <1>10, <1>11, <1>12, <1>14, <1>4, TypedStep DEF IndInv, TypeOK
<1>16. Names(dst, i)'
  BY <1>7, <1>14, <1>15, <1>3, NamesKept DEF IndInv
<1>17. peers_data'[c][i].known
  BY <1>6, <1>10 DEF Learns, IndInv, TypeOK
<1>18. FrameInv(g)'
  BY <1>8, <1>13, <1>14, <1>3, <1>16, <1>17, ToPeerInv
<1>19. QED
  BY <1>11, <1>14, <1>15, <1>18, SendsStep

\* A client is told to send a message.
LEMMA MessageStep ==
  ASSUME DistinctIps, IndInv, astray' = {}, NEW c \in Clients, NEW i \in Ids, SendMessage(c, i)
  PROVE  IndInv'
<1>1. PICK old, p : old = peers_data[c][i] /\ p = [old EXCEPT !.known = TRUE]
  OBVIOUS
<1>2. old \in Peer
  BY <1>1 DEF IndInv, TypeOK
<1>3. /\ p \in Peer /\ p.local = old.local /\ p.public = old.public /\ p.known
      /\ p.ping_sent = old.ping_sent /\ p.pong_received = old.pong_received
      /\ old.connected_locally \in BOOLEAN
  BY <1>1, <1>2 DEF Peer
<1>4. Names(old.local, i) /\ Names(old.public, i)
  BY <1>1 DEF IndInv, StateInv, PeerInv
<1>5. /\ Type(c, "message", i) /\ UNCHANGED local_port
      /\ "message" \in Commands /\ i \in Nat /\ c \in Machines
  BY ConstantTypes DEF SendMessage, Commands
<1>6. UNCHANGED <<slot, current_id_index, my_id, mapping, next_port>>
  BY <1>5 DEF Type, server, nat
<1>7. CASE Ready(old)
  <2>1. PICK near \in BOOLEAN : near = old.connected_locally
    BY <1>3
  <2>2. PICK dst \in Readings(c, i, near) :
          SendToPath(c, i, near, [ToPeer(c, "MESSAGE", dst) EXCEPT !.for = i])
    BY <1>1, <1>7, <2>1 DEF SendMessage
  <2>3. dst \in Addresses
    BY <2>2, ReadingType DEF IndInv
  <2>4. PICK base, g : base = ToPeer(c, "MESSAGE", dst) /\ g = [base EXCEPT !.for = i]
    OBVIOUS
  <2>5. /\ base \in Frames /\ base.dst = dst /\ base.type \in {"MESSAGE", "STATUS_RESPOND"}
    <3>1. "MESSAGE" \in Types
      BY DEF Types
    <3>2. QED
      BY <2>3, <2>4, <3>1, ToPeerType DEF IsFrame, IndInv
  <2>6. /\ g \in Frames /\ g.dst = dst /\ g.type \in {"MESSAGE", "STATUS_RESPOND"} /\ g.for = i
    BY <2>4, <2>5 DEF Frames
  <2>7. dst \in Paths(c, i, near) /\ Send(c, "cmd", g) /\ astray' \in SUBSET Machines
    BY <2>2, <2>4, <2>6 DEF SendToPath
  <2>8. FrameInv(g)
    <3>1. Names(dst, i)
      BY <2>7, PathNames
    <3>2. QED
      BY <2>6, <3>1 DEF FrameInv
  <2>9. UNCHANGED peers_data
    BY <1>1, <1>7 DEF SendMessage
  <2>10. /\ TypeOK' /\ Adds(net, net', {}, c, g)
         /\ \A d \in Clients, t \in Threads : out'[d][t] \subseteq out[d][t] \cup {g}
    BY <1>5, <2>6, <2>7, <2>9, TypedStep DEF IndInv, TypeOK
  <2>11. StateInv' /\ Keeps
    BY <1>6, <2>9, StateStays DEF IndInv
  <2>12. FrameInv(g)'
    BY <2>6, <2>8, <2>10, <2>11, FrameKept DEF IndInv
  <2>13. QED
    BY <1>5, <2>10, <2>11, <2>12, SendsStep
<1>8. CASE ~ Ready(old)
  <2>1. UNCHANGED <<out, astray>> /\ peers_data' = [peers_data EXCEPT ![c][i].known = TRUE]
    BY <1>1, <1>8 DEF SendMessage
  <2>2. PICK g \in Frames : g = Frame("STATUS_RESPOND", ServerAddress, ServerAddress, 0)
    BY FrameType, FixedAddresses, ConstantTypes DEF IsFrame, Types
  <2>3. Learns(c, i, p)
    BY <1>1, <2>1 DEF Learns, IndInv, TypeOK
  <2>4. StateInv' /\ Keeps /\ peers_data' \in [Clients -> [Ids -> Peer]]
    BY <1>1, <1>3, <1>4, <1>6, <1>8, <2>3, LearnsState DEF Ready
  <2>5. /\ TypeOK' /\ Adds(net, net', {}, c, g)
        /\ \A d \in Clients, t \in Threads : out'[d][t] \subseteq out[d][t] \cup {g}
    BY <1>5, <2>2, <2>1, <2>4, TypedStep DEF IndInv, TypeOK
  <2>6. FrameInv(g)'
    BY <2>2, FixedAddresses, ConstantTypes, PlainInv
  <2>7. QED
    BY <1>5, <2>4, <2>5, <2>6, SendsStep
<1>9. QED
  BY <1>7, <1>8
-----------------------------------------------------------------------------
(***************************************************************************)
(* A NAT is reset, and tells who is behind it.                             *)
(***************************************************************************)

\* The elements of a finite set, in some order.
LEMMA SeqOfSet ==
  ASSUME NEW S, IsFiniteSet(S)
  PROVE  SetToSeq(S) \in Seq(S)
<1>1. Cardinality(S) \in Nat /\ ExistsBijection(1 .. Cardinality(S), S)
  BY FS_CardinalityType
<1>2. \E f \in [1 .. Cardinality(S) -> S] : IsInjective(f)
  BY <1>1 DEF ExistsBijection, Bijection, Injection
<1>3. SetToSeq(S) \in [1 .. Cardinality(S) -> S]
  BY <1>2 DEF SetToSeq
<1>4. QED
  BY <1>1, <1>3

\* Two sequences, one after the other.
LEMMA ConcatOf ==
  ASSUME NEW q \in Seq(Frames), NEW r \in Seq(Frames)
  PROVE  q \o r \in Seq(Frames) /\ Range(q \o r) \subseteq Range(q) \cup Range(r)
<1>1. q \o r \in Seq(Frames)
  OBVIOUS
<1>2. ASSUME NEW k \in DOMAIN (q \o r)
      PROVE  \/ k \in DOMAIN q /\ (q \o r)[k] = q[k]
             \/ k - Len(q) \in DOMAIN r /\ (q \o r)[k] = r[k - Len(q)]
  OBVIOUS
<1>3. QED
  BY <1>1, <1>2 DEF Range

\* The clients told by way of m.
Told(n, m) == SetToSeq({c \in Behind(n) : Entry(c) = m})

\* What they are told.
News(n, m) ==
  [k \in DOMAIN Told(n, m) |-> Frame("NAT_UPDATED", Address(BoxIp, 0), Own(Told(n, m)[k], 0), 0)]

\* What they are told is true.
LEMMA NewsAdds ==
  ASSUME NEW n \in Nats, NEW m \in Machines
  PROVE  /\ News(n, m) \in Seq(Frames)
         /\ \A g \in Range(News(n, m)) : g \in Frames /\ FrameInv(g)' /\ Arrives(m, n, g)
<1>1. PICK S, told : S = {c \in Behind(n) : Entry(c) = m} /\ told = Told(n, m)
  OBVIOUS
<1>2. told \in Seq(S)
  <2>1. S \in SUBSET Clients
    BY <1>1 DEF Behind
  <2>2. IsFiniteSet(S)
    BY <2>1, FS_Subset, MachinesAssumption
  <2>3. QED
    BY <1>1, <2>2, SeqOfSet DEF Told
<1>3. ASSUME NEW k \in DOMAIN told
      PROVE  LET g == Frame("NAT_UPDATED", Address(BoxIp, 0), Own(told[k], 0), 0)
             IN  g \in Frames /\ FrameInv(g)' /\ Arrives(m, n, g)
  <2>1. told[k] \in S
    BY <1>2, <1>3
  <2>2. told[k] \in Clients /\ Entry(told[k]) = m
    BY <1>1, <2>1 DEF Behind
  <2>3. Own(told[k], 0) \in Addresses /\ Address(BoxIp, 0) \in Addresses
    BY <2>2, OwnType, AddressType, ConstantTypes
  <2>4. PICK g : g = Frame("NAT_UPDATED", Address(BoxIp, 0), Own(told[k], 0), 0)
    OBVIOUS
  <2>5. g \in Frames /\ FrameInv(g)'
    BY <2>3, <2>4, ConstantTypes, PlainInv
  <2>6. Arrives(m, n, g)
    BY <2>2, EntryIsNoNat DEF Arrives
  <2>7. QED
    BY <2>4, <2>5, <2>6
<1>4. PICK news : news = News(n, m)
  OBVIOUS
<1>5. /\ DOMAIN news = DOMAIN told
      /\ \A k \in DOMAIN told : news[k] = Frame("NAT_UPDATED", Address(BoxIp, 0), Own(told[k], 0), 0)
  BY <1>1, <1>4 DEF News
<1>6. \A k \in DOMAIN news : news[k] \in Frames /\ FrameInv(news[k])' /\ Arrives(m, n, news[k])
  BY <1>3, <1>5
<1>7. news \in Seq(Frames)
  <2>1. Len(told) \in Nat /\ DOMAIN told = 1 .. Len(told)
    BY <1>2
  <2>2. news = [k \in 1 .. Len(told) |-> news[k]]
    BY <1>1, <1>4, <1>5, <2>1 DEF News
  <2>3. QED
    BY <1>5, <1>6, <2>1, <2>2
<1>8. QED
  BY <1>4, <1>6, <1>7 DEF Range

\* The NAT forgets its mappings, and goes on with ports it has not given.
LEMMA NatResetStep ==
  ASSUME DistinctIps, IndInv, astray' = {}, NEW n \in Nats, NEW base \in Ports, NatReset(n, base)
  PROVE  IndInv'
<1>1. /\ UNCHANGED <<server, client, blocked, out, alive>>
      /\ mapping' = [mapping EXCEPT ![n] = {}] /\ punched' = [punched EXCEPT ![n] = {}]
      /\ next_port' = [next_port EXCEPT ![n] = base] /\ ~ (base < next_port[n])
      /\ Typed(n, <<"reset", base>>) /\ n \in Machines /\ "reset" \in Commands /\ base \in Nat
  BY ConstantTypes DEF NatReset, Commands
<1>2. net' = [m \in Machines |-> [net[m] EXCEPT ![n] = @ \o News(n, m)]]
  BY DEF NatReset, News, Told
<1>3. net \in Wires
  BY DEF IndInv, TypeOK, Wires
<1>4. \A m \in Machines :
        /\ net[m][n] \o News(n, m) \in Seq(Frames)
        /\ Range(net[m][n] \o News(n, m)) \subseteq Range(net[m][n]) \cup Range(News(n, m))
  BY <1>1, <1>3, NewsAdds, ConcatOf DEF Wires
<1>5. /\ net' \in Wires
      /\ \A x, y \in Machines :
           net'[x][y] = IF y = n THEN net[x][n] \o News(n, x) ELSE net[x][y]
  BY <1>2, <1>3, <1>4 DEF Wires
<1>6. typed' \in [Machines -> Seq(Lines)]
  BY <1>1, TypedType DEF IndInv
<1>7. /\ mapping' \in [Nats -> SUBSET [inside : Addresses, port : Nat]]
      /\ punched' \in [Nats -> SUBSET [port : Nat, remote : Addresses]]
      /\ \A m \in Nats : mapping'[m] \subseteq mapping[m] /\ next_port[m] \in Nat
      /\ mapping'[n] = {} /\ next_port' \in [Nats -> Nat]
      /\ \A m \in Nats : next_port'[m] = IF m = n THEN base ELSE next_port[m]
  BY <1>1 DEF IndInv, TypeOK
<1>8. TypeOK'
  BY <1>1, <1>5, <1>6, <1>7 DEF IndInv, TypeOK, Wires, server, client
<1>9. UNCHANGED <<slot, current_id_index, my_id, peers_data>>
  BY <1>1 DEF server, client
<1>10. Keeps
  BY <1>1, <1>7, <1>9 DEF Keeps
<1>11. MapInv'
  <2> SUFFICES ASSUME NEW m \in Nats
               PROVE  /\ \A e \in mapping'[m] : e.port < next_port'[m]
                      /\ \A d, e \in mapping'[m] : d.port = e.port => d = e
    BY DEF MapInv
  <2>1. m # n => next_port'[m] = next_port[m] /\ mapping'[m] \subseteq mapping[m]
    BY <1>7
  <2>2. QED
    BY <1>7, <2>1 DEF IndInv, StateInv, MapInv
<1>12. StateInv'
  BY <1>8, <1>9, <1>10, <1>11, StateKept DEF IndInv
<1>13. NetInv'
  <2> SUFFICES ASSUME NEW x \in Machines, NEW y \in Machines, NEW g \in Range(net'[x][y])
               PROVE  FrameInv(g)' /\ Arrives(x, y, g)
    BY DEF NetInv, Arrives, Behind
  <2>1. CASE g \in Range(net[x][y])
    <3>1. net[x][y] \in Seq(Frames)
      BY <1>3 DEF Wires
    <3>2. g \in Frames
      BY <2>1, <3>1 DEF Range
    <3>3. FrameInv(g) /\ Arrives(x, y, g)
      BY <2>1 DEF IndInv, NetInv
    <3>4. QED
      BY <1>8, <1>10, <3>2, <3>3, FrameKept DEF IndInv
  <2>2. CASE y = n /\ g \in Range(News(n, x))
    BY <2>2, NewsAdds
  <2>3. QED
    BY <1>4, <1>5, <2>1, <2>2
<1>14. OutInv'
  BY <1>1, <1>8, <1>10, OutStep DEF IndInv
<1>15. QED
  BY <1>8, <1>12, <1>13, <1>14 DEF IndInv

-----------------------------------------------------------------------------
(***************************************************************************)
(* Types are kept whatever the addresses are.                              *)
(***************************************************************************)

\* The first frame of a wire is one.
LEMMA HeadType ==
  ASSUME TypeOK, NEW m \in Machines, NEW n \in Machines, net[m][n] # <<>>
  PROVE  Head(net[m][n]) \in Frames /\ Taken(m, n) \in Wires
BY TakenAdds DEF Adds

\* What a machine answers with is one.
LEMMA AnswerType ==
  ASSUME TypeOK, NEW m \in Machines, NEW n \in Machines, net[m][n] # <<>>, NEW k \in Machines,
         NEW S, NEW f \in Frames
  PROVE  Put(Taken(m, n), k, S, f) \in Wires
BY TakenPutAdds DEF Adds

\* The server's steps.
LEMMA ServerTypes ==
  ASSUME TypeOK, NEW n \in Machines,
         \/ HandleRequestAssigningId(n) \/ HandleRequestGettingIp(n)
         \/ HandleRequestUpdatingInfo(n) \/ HandleStatus(n)
         \/ RouteFrame(Server, n)
  PROVE  TypeOK'
<1>1. net[Server][n] # <<>> /\ Server \in Machines
  BY ConstantTypes, Zenon DEF HandleRequestAssigningId, HandleRequestGettingIp, HandleStatus,
     HandleRequestUpdatingInfo, RouteFrame, ServerTakes, Comes
<1>2. PICK f \in Frames : f = Head(net[Server][n])
  BY <1>1, HeadType
<1>3. /\ f.src \in Addresses /\ f.local \in Addresses /\ f.id \in Ids
      /\ ServerAddress \in Addresses /\ NoAddress \in Addresses
  BY FixedAddresses DEF Frames
<1>4. Taken(Server, n) \in Wires
  BY <1>1, HeadType
<1>5. \A g \in Frames : Answer(n, g) => net' \in Wires
  BY <1>1, AnswerType DEF Answer
<1>6. CASE HandleRequestAssigningId(n)
  <2>1. UNCHANGED <<client, nat, out, typed, astray>>
    BY <1>6 DEF HandleRequestAssigningId, ServerTakes
  <2>2. CASE current_id_index < Slots
    <3>1. PICK k, new : /\ k = current_id_index
                        /\ new = [valid |-> TRUE, local |-> f.local, public |-> f.src]
      OBVIOUS
    <3>2. k \in Ids /\ k + 1 \in 1 .. Slots /\ new \in Slot
      BY <1>3, <2>2, <3>1, InputAssumption DEF Ids, TypeOK, Slot
    <3>3. /\ slot' = [slot EXCEPT ![k] = new] /\ current_id_index' = k + 1
          /\ Answer(n, Frame("ASSIGNING_ID", ServerAddress, f.src, k)) /\ UNCHANGED alive
      BY <1>2, <1>6, <2>2, <3>1 DEF HandleRequestAssigningId
    <3>4. Frame("ASSIGNING_ID", ServerAddress, f.src, k) \in Frames
      BY <1>3, <3>2, FrameType DEF Types, IsFrame
    <3>5. net' \in Wires
      BY <1>5, <3>3, <3>4
    <3>6. QED
      BY <2>1, <3>2, <3>3, <3>5 DEF TypeOK, Wires, client, nat
  <2>3. CASE ~ (current_id_index < Slots)
    <3>1. alive' = alive \ {Server} /\ net' = Taken(Server, n) /\ UNCHANGED server
      BY <1>6, <2>3 DEF HandleRequestAssigningId
    <3>2. QED
      BY <1>4, <2>1, <3>1 DEF TypeOK, Wires, server, client, nat
  <2>4. QED
    BY <2>2, <2>3
<1>7. CASE HandleRequestGettingIp(n)
  <2>1. PICK wanted : wanted = slot[f.id]
    OBVIOUS
  <2>2. wanted.local \in Addresses /\ wanted.public \in Addresses
    BY <1>3, <2>1 DEF TypeOK, Slot
  <2>3. PICK g : g = [Frame("GETTING_IP", ServerAddress, f.src, f.id)
                        EXCEPT !.local = wanted.local, !.public = wanted.public]
    OBVIOUS
  <2>4. g \in Frames
    BY Zenon, <1>3, <2>2, <2>3, ConstantTypes DEF Frame, Frames, Types
  <2>5. Answer(n, g) \/ net' = Taken(Server, n)
    BY <1>2, <1>7, <2>1, <2>3 DEF HandleRequestGettingIp
  <2>6. net' \in Wires
    BY <1>4, <1>5, <2>4, <2>5
  <2>7. UNCHANGED <<server, client, nat, out, alive, typed, astray>>
    BY <1>7 DEF HandleRequestGettingIp, ServerTakes
  <2>8. QED
    BY <2>6, <2>7 DEF TypeOK, Wires, server, client, nat
<1>8. CASE HandleRequestUpdatingInfo(n)
  <2>1. /\ UNCHANGED <<client, nat, out, typed, astray, current_id_index, alive>>
        /\ net' = Taken(Server, n)
    BY <1>8, Zenon DEF HandleRequestUpdatingInfo, ServerTakes
  <2>2. PICK same : slot' = [i \in Ids |-> IF i \in same /\ \A j \in same : i <= j
                                THEN [slot[i] EXCEPT !.local = f.local, !.public = f.src]
                                ELSE slot[i]]
    BY <1>2, <1>8, Zenon DEF HandleRequestUpdatingInfo
  <2>3. \A i \in Ids : slot[i] \in Slot /\ [slot[i] EXCEPT !.local = f.local, !.public = f.src] \in Slot
    BY ZenonT(60), <1>3 DEF TypeOK, Slot
  <2>4. slot' \in [Ids -> Slot]
    BY <2>2, <2>3
  <2>5. QED
    BY <1>4, <2>1, <2>4 DEF TypeOK, Wires, client, nat
<1>9. CASE HandleStatus(n)
  <2>1. PICK id \in Ids : id = (IF f.local = f.src THEN 1 ELSE 0)
    BY ConstantTypes
  <2>2. Answer(n, Frame("STATUS_RESPOND", ServerAddress, f.src, id))
    BY <1>2, <1>9, <2>1 DEF HandleStatus
  <2>3. Frame("STATUS_RESPOND", ServerAddress, f.src, id) \in Frames
    BY <1>3, FrameType DEF Types, IsFrame
  <2>4. UNCHANGED <<server, client, nat, out, alive, typed, astray>>
    BY <1>9 DEF HandleStatus, ServerTakes
  <2>5. QED
    BY <1>5, <2>2, <2>3, <2>4 DEF TypeOK, Wires, server, client, nat
<1>10. CASE RouteFrame(Server, n)
  <2>1. net' = Put(Taken(Server, n), Server, Hop(Server, f.dst.ip), f)
    BY <1>2, <1>10 DEF RouteFrame
  <2>2. net' \in Wires
    BY <1>1, <2>1, AnswerType
  <2>3. UNCHANGED <<server, client, nat, out, alive, typed, astray>>
    BY <1>10 DEF RouteFrame
  <2>4. QED
    BY <2>2, <2>3 DEF TypeOK, Wires, server, client, nat
<1>11. QED
  BY <1>6, <1>7, <1>8, <1>9, <1>10

\* A frame that a client's main thread has taken.
LEMMA ReceiveType ==
  ASSUME TypeOK, NEW c \in Clients, NEW n \in Machines, NEW T, Receive(c, n, T)
  PROVE  /\ net' \in Wires /\ UNCHANGED <<server, nat, alive, typed, astray>>
         /\ \E f \in Frames : f = Head(net[c][n])
<1>1. net[c][n] # <<>> /\ c \in Machines /\ net' = Taken(c, n)
  BY ConstantTypes DEF Receive, Comes
<1>2. net' \in Wires /\ Head(net[c][n]) \in Frames
  BY <1>1, HeadType
<1>3. QED
  BY <1>2 DEF Receive

\* After it the main thread may have something to send.
LEMMA ReactTypes ==
  ASSUME TypeOK, NEW c \in Clients, NEW n \in Machines, NEW T, Receive(c, n, T),
         my_id' \in [Clients -> Ids \cup {-1}], local_port' \in [Clients -> Ports],
         peers_data' \in [Clients -> [Ids -> Peer]],
         UNCHANGED out \/ \E g \in Frames : Send(c, "main", g)
  PROVE  TypeOK'
<1>1. net' \in Wires /\ UNCHANGED <<server, nat, alive, typed, astray>>
  BY ReceiveType
<1>2. out' \in [Clients -> [Threads -> SUBSET Frames]]
  BY SendType DEF TypeOK, Threads
<1>3. QED
  BY <1>1, <1>2 DEF TypeOK, Wires, server, nat

\* A port moved on is one.
LEMMA MovedPort ==
  ASSUME TypeOK, NEW c \in Clients
  PROVE  (local_port[c] + Step) % PortRange \in Ports
<1>1. local_port[c] \in Nat
  BY DEF TypeOK, Ports
<1>2. PICK sum : sum = local_port[c] + Step
  OBVIOUS
<1>3. sum \in Nat /\ PortRange \in Nat \ {0}
  BY <1>1, <1>2, InputAssumption
<1>4. QED
  BY <1>2, <1>3 DEF Ports

\* The steps of a client's main thread.
LEMMA MainTypes ==
  ASSUME TypeOK, NEW c \in Clients, NEW n \in Machines,
         \/ HandleDrop(c, n) \/ HandleResponseAssigningId(c, n)
         \/ HandleResponseGettingIp(c, n)
         \/ HandleRequestSession(c, n) \/ HandleResponseSession(c, n)
         \/ HandleNatUpdated(c, n) \/ HandlePrinted(c, n) \/ RouteFrame(c, n)
  PROVE  TypeOK'
<1>1. /\ my_id \in [Clients -> Ids \cup {-1}] /\ local_port \in [Clients -> Ports]
      /\ peers_data \in [Clients -> [Ids -> Peer]]
  BY DEF TypeOK
<1>2. \A port \in Ports : \A type \in Types : Request(c, type, port) \in Frames
  BY RequestType DEF IsFrame
<1>3. CASE HandleDrop(c, n)
  <2>1. PICK port \in Ports : port = (local_port[c] + Step) % PortRange
    BY MovedPort
  <2>2. /\ Receive(c, n, {"ASSIGNING_ID"}) /\ UNCHANGED <<my_id, peers_data>>
        /\ \/ local_port' = [local_port EXCEPT ![c] = port] /\ Send(c, "main", Request(c, "ASSIGNING_ID", port))
           \/ UNCHANGED <<local_port, out>>
    BY <1>3, <2>1 DEF HandleDrop
  <2>3. Request(c, "ASSIGNING_ID", port) \in Frames
    BY <1>2 DEF Types
  <2>4. local_port' \in [Clients -> Ports]
    BY <1>1, <2>2
  <2>5. QED
    BY <1>1, <2>2, <2>3, <2>4, ReactTypes
<1>4. CASE HandleResponseAssigningId(c, n)
  <2>1. Receive(c, n, {"ASSIGNING_ID"}) /\ UNCHANGED <<local_port, peers_data, out>>
    BY <1>4 DEF HandleResponseAssigningId
  <2>2. PICK f \in Frames : f = Head(net[c][n])
    BY <2>1, ReceiveType
  <2>3. my_id' = [my_id EXCEPT ![c] = f.id] /\ f.id \in Ids
    BY <1>4, <2>2 DEF HandleResponseAssigningId, Frames
  <2>4. my_id' \in [Clients -> Ids \cup {-1}]
    BY <1>1, <2>3
  <2>5. QED
    BY <1>1, <2>1, <2>4, ReactTypes
<1>5. CASE HandleResponseGettingIp(c, n)
  <2>1. Receive(c, n, {"GETTING_IP"}) /\ UNCHANGED <<my_id, local_port, out>>
    BY <1>5 DEF HandleResponseGettingIp
  <2>2. PICK f \in Frames : f = Head(net[c][n])
    BY <2>1, ReceiveType
  <2>3. PICK p : p = [peers_data[c][f.id] EXCEPT !.known = TRUE, !.local = f.local, !.public = f.public]
    OBVIOUS
  <2>4. f.id \in Ids /\ p \in Peer
    <3>1. f.id \in Ids /\ f.local \in Addresses /\ f.public \in Addresses
      BY DEF Frames
    <3>2. PICK old \in Peer : old = peers_data[c][f.id]
      BY <1>1, <3>1
    <3>3. p = [old EXCEPT !.known = TRUE, !.local = f.local, !.public = f.public]
      BY <2>3, <3>2
    <3>4. QED
      BY <3>1, <3>3 DEF Peer
  <2>5. peers_data' = [peers_data EXCEPT ![c][f.id] = p]
    BY <1>5, <2>2, <2>3 DEF HandleResponseGettingIp
  <2>6. peers_data' \in [Clients -> [Ids -> Peer]]
    BY <1>1, <2>4, <2>5
  <2>7. QED
    BY <1>1, <2>1, <2>6, ReactTypes
<1>6. CASE HandleRequestSession(c, n)
  <2>1. Receive(c, n, {"PING"}) /\ UNCHANGED <<my_id, local_port>>
    BY <1>6, Zenon DEF HandleRequestSession
  <2>2. PICK f \in Frames : f = Head(net[c][n])
    BY <2>1, ReceiveType
  <2>3. PICK near \in BOOLEAN, pong \in BOOLEAN :
          peers_data' = [peers_data EXCEPT ![c][f.id] = Pinged(peers_data[c][f.id], f, near, pong)]
    BY <1>6, <2>2, Zenon DEF HandleRequestSession, Pinged
  <2>4. PICK p : p = Pinged(peers_data[c][f.id], f, near, pong)
    OBVIOUS
  <2>5. f.id \in Ids /\ f.src \in Addresses /\ p \in Peer
    BY <1>1, <2>4 DEF Frames, Peer, Pinged
  <2>6. peers_data' \in [Clients -> [Ids -> Peer]]
    BY <1>1, <2>3, <2>4, <2>5
  <2>7. Send(c, "main", ToPeer(c, "PONG", f.src))
    BY <1>6, <2>2, Zenon DEF HandleRequestSession
  <2>8. ToPeer(c, "PONG", f.src) \in Frames
    <3>1. "PONG" \in Types
      BY DEF Types
    <3>2. QED
      BY <2>5, <3>1, ToPeerType DEF IsFrame
  <2>9. QED
    BY <1>1, <2>1, <2>6, <2>7, <2>8, ReactTypes
<1>7. CASE HandleResponseSession(c, n)
  <2>1. Receive(c, n, {"PONG"}) /\ UNCHANGED <<my_id, local_port, out>>
    BY <1>7, Zenon DEF HandleResponseSession
  <2>2. PICK f \in Frames : f = Head(net[c][n])
    BY <2>1, ReceiveType
  <2>3. PICK old : old = peers_data[c][f.id]
    OBVIOUS
  <2>4. f.id \in Ids /\ old \in Peer /\ (old.pong_received \/ old.known) \in BOOLEAN
    BY <1>1, <2>3 DEF Frames
  <2>5. peers_data' = [peers_data EXCEPT ![c][f.id].pong_received = @ \/ old.known]
    BY <1>7, <2>2, <2>3, Zenon DEF HandleResponseSession
  <2>6. peers_data' = [peers_data EXCEPT ![c][f.id] = [old EXCEPT !.pong_received = @ \/ old.known]]
    BY <1>1, <2>3, <2>4, <2>5
  <2>7. [old EXCEPT !.pong_received = @ \/ old.known] \in Peer
    BY <2>4 DEF Peer
  <2>8. peers_data' \in [Clients -> [Ids -> Peer]]
    BY <1>1, <2>4, <2>6, <2>7
  <2>9. QED
    BY <1>1, <2>1, <2>8, ReactTypes
<1>8. CASE HandleNatUpdated(c, n)
  <2>1. /\ Receive(c, n, {"NAT_UPDATED"}) /\ UNCHANGED client
        /\ Send(c, "main", Request(c, "UPDATING_INFO", local_port[c]))
    BY <1>8 DEF HandleNatUpdated
  <2>2. Request(c, "UPDATING_INFO", local_port[c]) \in Frames
    BY <1>1, <1>2 DEF Types
  <2>3. QED
    BY <1>1, <2>1, <2>2, ReactTypes DEF client
<1>9. CASE HandlePrinted(c, n)
  BY <1>1, <1>9, ReactTypes DEF HandlePrinted, client
<1>10. CASE RouteFrame(c, n)
  <2>1. net[c][n] # <<>> /\ c \in Machines
    BY <1>10, ConstantTypes DEF RouteFrame
  <2>2. PICK f \in Frames : f = Head(net[c][n])
    BY <2>1, HeadType
  <2>3. /\ net' = Put(Taken(c, n), c, Hop(c, f.dst.ip), f)
        /\ UNCHANGED <<server, client, nat, out, alive, typed, astray>>
    BY <1>10, <2>2 DEF RouteFrame
  <2>4. net' \in Wires
    BY <2>1, <2>3, AnswerType
  <2>5. QED
    BY <2>3, <2>4 DEF TypeOK, Wires, server, client, nat
<1>11. QED
  BY <1>3, <1>4, <1>5, <1>6, <1>7, <1>8, <1>9, <1>10

\* A line typed at a client.
LEMMA CommandTypes ==
  ASSUME TypeOK, NEW c \in Clients, NEW op \in Commands, NEW arg \in Nat, Type(c, op, arg),
         local_port' \in [Clients -> Ports], peers_data' \in [Clients -> [Ids -> Peer]],
         UNCHANGED out \/ \E g \in Frames : Send(c, "cmd", g),
         UNCHANGED astray \/ astray' = astray \cup {c}
  PROVE  TypeOK'
<1>1. UNCHANGED <<server, nat, net, alive, my_id>> /\ c \in Machines
  BY ConstantTypes DEF Type
<1>2. out' \in [Clients -> [Threads -> SUBSET Frames]]
  BY SendType DEF TypeOK, Threads
<1>3. typed' \in [Machines -> Seq(Lines)]
  BY <1>1, TypedType DEF Type
<1>4. QED
  BY <1>1, <1>2, <1>3 DEF TypeOK, server, nat

\* The steps of its command thread.
LEMMA UserTypes ==
  ASSUME TypeOK, NEW c \in Clients, User(c)
  PROVE  TypeOK'
<1>1. /\ local_port \in [Clients -> Ports] /\ peers_data \in [Clients -> [Ids -> Peer]]
      /\ Ids \subseteq Nat /\ Ports \subseteq Nat /\ 0 \in Nat
      /\ {"connect", "info", "local", "public", "message", "status"} \subseteq Commands
  BY ConstantTypes DEF TypeOK, Commands
<1>2. ASSUME NEW port \in Ports, SendRequestAssigningId(c, port) PROVE TypeOK'
  <2>1. Request(c, "ASSIGNING_ID", port) \in Frames
    BY RequestType DEF IsFrame, Types
  <2>2. /\ Type(c, "connect", port) /\ UNCHANGED <<peers_data, astray>>
        /\ local_port' = [local_port EXCEPT ![c] = port]
        /\ Send(c, "cmd", Request(c, "ASSIGNING_ID", port))
    BY <1>2 DEF SendRequestAssigningId
  <2>3. local_port' \in [Clients -> Ports]
    BY <1>1, <2>2
  <2>4. QED
    BY <1>1, <2>1, <2>2, <2>3, CommandTypes
<1>3. ASSUME NEW i \in Ids, SendRequestGettingIp(c, i) PROVE TypeOK'
  <2>1. Own(c, local_port[c]) \in Addresses /\ ServerAddress \in Addresses
    BY <1>1, OwnType, FixedAddresses, ConstantTypes
  <2>2. Frame("GETTING_IP", Own(c, local_port[c]), ServerAddress, i) \in Frames
    BY <2>1, FrameType DEF IsFrame, Types
  <2>3. /\ Type(c, "info", i) /\ UNCHANGED <<local_port, peers_data, astray>>
        /\ Send(c, "cmd", Frame("GETTING_IP", Own(c, local_port[c]), ServerAddress, i))
    BY <1>3 DEF SendRequestGettingIp
  <2>4. QED
    BY <1>1, <2>2, <2>3, CommandTypes
<1>4. ASSUME NEW i \in Ids, SendMessage(c, i) PROVE TypeOK'
  <2>1. PICK old, near : old = peers_data[c][i] /\ near = old.connected_locally
    OBVIOUS
  <2>2. old \in Peer /\ near \in BOOLEAN /\ [old EXCEPT !.known = TRUE] \in Peer
    <3>1. old \in Peer
      BY <1>1, <2>1
    <3>2. QED
      BY <2>1, <3>1 DEF Peer
  <2>3. Type(c, "message", i) /\ UNCHANGED local_port
    BY <1>4 DEF SendMessage
  <2>4. CASE Ready(old)
    <3>1. /\ UNCHANGED peers_data
          /\ \E dst \in Readings(c, i, near) :
               SendToPath(c, i, near, [ToPeer(c, "MESSAGE", dst) EXCEPT !.for = i])
      BY <1>4, <2>1, <2>4 DEF SendMessage
    <3>2. PICK dst \in Readings(c, i, near) :
            SendToPath(c, i, near, [ToPeer(c, "MESSAGE", dst) EXCEPT !.for = i])
      BY <3>1
    <3>3. dst \in Addresses /\ "MESSAGE" \in Types
      BY <2>2, <3>2, ReadingType DEF Types
    <3>4. PICK base : base = ToPeer(c, "MESSAGE", dst)
      OBVIOUS
    <3>5. base \in Frames
      BY <3>3, <3>4, ToPeerType DEF IsFrame
    <3>6. [base EXCEPT !.for = i] \in Frames
      BY <3>5 DEF Frames
    <3>7. /\ UNCHANGED astray \/ astray' = astray \cup {c}
          /\ Send(c, "cmd", [base EXCEPT !.for = i])
      BY <3>2, <3>4 DEF SendToPath
    <3>8. QED
      BY <1>1, <2>3, <3>1, <3>6, <3>7, CommandTypes
  <2>5. CASE ~ Ready(old)
    <3>1. /\ peers_data' = [peers_data EXCEPT ![c][i].known = TRUE]
          /\ UNCHANGED <<out, astray>>
      BY <1>4, <2>1, <2>5 DEF SendMessage
    <3>2. peers_data' = [peers_data EXCEPT ![c][i] = [old EXCEPT !.known = TRUE]]
      BY <1>1, <2>1, <3>1
    <3>3. peers_data' \in [Clients -> [Ids -> Peer]]
      BY <1>1, <2>2, <3>2
    <3>4. QED
      BY <1>1, <2>3, <3>1, <3>3, CommandTypes
  <2>6. QED
    BY <2>4, <2>5
<1>5. ASSUME NEW i \in Ids, NEW locally \in BOOLEAN, SendRequestSession(c, i, locally) PROVE TypeOK'
  <2>1. PICK p : p = [peers_data[c][i] EXCEPT
                        !.connected_locally = locally, !.ping_sent = TRUE, !.pong_received = FALSE]
    OBVIOUS
  <2>2. p \in Peer
    <3>1. PICK old \in Peer : old = peers_data[c][i]
      BY <1>1
    <3>2. p = [old EXCEPT !.connected_locally = locally, !.ping_sent = TRUE, !.pong_received = FALSE]
      BY <2>1, <3>1
    <3>3. QED
      BY <3>2 DEF Peer
  <2>3. PICK op \in {"local", "public"} : Type(c, op, i)
    BY <1>5 DEF SendRequestSession
  <2>4. peers_data' = [peers_data EXCEPT ![c][i] = p] /\ UNCHANGED local_port
    BY <1>5, <2>1 DEF SendRequestSession
  <2>5. PICK dst \in Readings(c, i, locally) : SendToPath(c, i, locally, ToPeer(c, "PING", dst))
    BY <1>5 DEF SendRequestSession
  <2>6. dst \in Addresses /\ "PING" \in Types
    BY <2>5, ReadingType DEF Types
  <2>7. ToPeer(c, "PING", dst) \in Frames
    BY <2>6, ToPeerType DEF IsFrame
  <2>8. /\ UNCHANGED astray \/ astray' = astray \cup {c}
        /\ Send(c, "cmd", ToPeer(c, "PING", dst))
    BY <2>5 DEF SendToPath
  <2>9. peers_data' \in [Clients -> [Ids -> Peer]] /\ op \in Commands
    BY <1>1, <2>2, <2>4
  <2>10. QED
    BY <1>1, <2>3, <2>4, <2>7, <2>8, <2>9, CommandTypes
<1>6. CASE SendStatus(c)
  <2>1. Request(c, "STATUS", local_port[c]) \in Frames
    BY <1>1, RequestType DEF IsFrame, Types
  <2>2. /\ Type(c, "status", 0) /\ UNCHANGED <<local_port, peers_data, astray>>
        /\ Send(c, "cmd", Request(c, "STATUS", local_port[c]))
    BY <1>6 DEF SendStatus
  <2>3. QED
    BY <1>1, <2>1, <2>2, CommandTypes
<1>7. QED
  BY <1>2, <1>3, <1>4, <1>5, <1>6 DEF User

\* A frame out by a NAT.
LEMMA LetsOutTypes ==
  ASSUME TypeOK, NEW n \in Nats, NEW c \in Clients, NEW f \in Frames, net[n][c] # <<>>,
         LetsOut(n, c, f), UNCHANGED <<server, client, out, alive, typed>>
  PROVE  TypeOK'
<1>1. PICK last, new : last = next_port[n] /\ new = [inside |-> f.src, port |-> last]
  OBVIOUS
<1>2. /\ last \in Nat /\ new \in [inside : Addresses, port : Nat]
      /\ f.src \in Addresses /\ f.dst \in Addresses /\ n \in Machines /\ c \in Machines
      /\ mapping \in [Nats -> SUBSET [inside : Addresses, port : Nat]] /\ next_port \in [Nats -> Nat]
  BY <1>1, ConstantTypes DEF TypeOK, Frames
<1>3. PICK e \in Mapped(n, f) \cup Fresh(n, f) :
         /\ punched' = [punched EXCEPT ![n] = @ \cup {[port |-> e.port, remote |-> f.dst]}]
         /\ net' = Put(Taken(n, c), n, Entries(Out(f.dst.ip)),
                       [f EXCEPT !.src = Address(ip[n], e.port)])
  BY Zenon DEF LetsOut
<1>4. e.port \in Nat
  BY <1>1, <1>2 DEF Mapped, Fresh
<1>5. punched' \in [Nats -> SUBSET [port : Nat, remote : Addresses]]
  <2>1. [port |-> e.port, remote |-> f.dst] \in [port : Nat, remote : Addresses]
    BY <1>2, <1>4
  <2>2. QED
    BY <1>3, <2>1 DEF TypeOK
<1>6. net' \in Wires
  <2>1. Address(ip[n], e.port) \in Addresses
    BY <1>2, <1>4, ConstantTypes, AddressType
  <2>2. [f EXCEPT !.src = Address(ip[n], e.port)] \in Frames
    BY <2>1 DEF Frames
  <2>3. QED
    BY <1>2, <1>3, <2>2, AnswerType
<1>7. /\ mapping' = [mapping EXCEPT ![n] = @ \cup Fresh(n, f)]
      /\ next_port' = [next_port EXCEPT ![n] = IF Mapped(n, f) = {} THEN PortAfter(@) ELSE @]
      /\ astray' = IF Fresh(n, f) # {} /\ PortAfter(next_port[n]) = 0 THEN astray \cup {n} ELSE astray
      /\ UNCHANGED blocked
  BY Zenon DEF LetsOut
<1>8. Fresh(n, f) \subseteq {new} /\ PortAfter(last) \in Nat
  BY <1>1, <1>2 DEF Fresh, PortAfter
<1>9. mapping' \in [Nats -> SUBSET [inside : Addresses, port : Nat]]
  BY <1>2, <1>7, <1>8
<1>10. next_port' \in [Nats -> Nat]
  BY <1>1, <1>2, <1>7, <1>8
<1>11. astray' \in SUBSET Machines
  BY <1>2, <1>7 DEF TypeOK
<1>12. QED
  BY <1>5, <1>6, <1>7, <1>9, <1>10, <1>11 DEF TypeOK, Wires, server, client

\* The steps of a NAT.
LEMMA NatTypes ==
  ASSUME TypeOK, NEW n \in Nats,
         \/ \E c \in Clients : NatOutbound(n, c)
         \/ \E m \in Machines : NatInbound(n, m)
  PROVE  TypeOK'
<1>1. n \in Machines /\ Clients \subseteq Machines
  BY ConstantTypes
<1>2. \A port \in Nat, f \in Frames : Drop(n, port, f) \in Frames
  <2>1. \A port \in Nat : Address(BoxIp, port) \in Addresses
    BY ConstantTypes, AddressType
  <2>2. QED
    BY Zenon, <2>1, FrameType, ConstantTypes DEF Drop, IsFrame, Frames, Types
<1>3. ASSUME NEW c \in Clients, NatOutbound(n, c) PROVE TypeOK'
  <2>1. /\ net[n][c] # <<>> /\ c \in Machines
        /\ UNCHANGED <<server, client, out, alive, typed>>
    BY Zenon, <1>1, <1>3 DEF NatOutbound, NatTakes
  <2>2. PICK f \in Frames : f = Head(net[n][c])
    BY <1>1, <2>1, HeadType
  <2>3. CASE LetsOut(n, c, f)
    BY <2>1, <2>3, LetsOutTypes
  <2>4. CASE SendsBack(n, c, f)
    <3>1. net' \in Wires /\ UNCHANGED <<nat, astray>>
      BY <1>1, <1>2, <2>1, <2>4, AnswerType DEF SendsBack
    <3>2. QED
      BY <2>1, <3>1 DEF TypeOK, Wires, server, client, nat
  <2>5. QED
    BY <1>3, <2>2, <2>3, <2>4, OutboundCases
<1>4. ASSUME NEW m \in Machines, NatInbound(n, m) PROVE TypeOK'
  <2>1. net[n][m] # <<>> /\ UNCHANGED <<server, client, out, alive, typed, nat, astray>>
    BY <1>4 DEF NatInbound, NatTakes
  <2>2. PICK f \in Frames : f = Head(net[n][m])
    BY <1>1, <2>1, HeadType
  <2>3. CASE LetsIn(n, m, f)
    <3>1. PICK e \in mapping[n] : net' =
            Put(Taken(n, m), n, Entries({c \in Behind(n) : ip[c] = e.inside.ip}), Rewritten(f, e))
      BY <2>3 DEF LetsIn, Asked
    <3>2. e.inside \in Addresses
      <4>1. mapping[n] \in SUBSET [inside : Addresses, port : Nat]
        BY DEF TypeOK
      <4>2. QED
        BY <4>1
    <3>3. Rewritten(f, e) \in Frames
      BY <3>2 DEF Rewritten, Frames
    <3>4. net' \in Wires
      BY <1>1, <2>1, <3>1, <3>3, AnswerType
    <3>5. QED
      BY <2>1, <3>4 DEF TypeOK, Wires, server, client, nat
  <2>4. CASE net' = Put(Taken(n, m), n, Rejected(f), Drop(n, 4321, f))
    <3>1. net' \in Wires
      BY <1>1, <1>2, <2>1, <2>4, AnswerType
    <3>2. QED
      BY <2>1, <3>1 DEF TypeOK, Wires, server, client, nat
  <2>5. QED
    BY <1>4, <2>2, <2>3, <2>4, InboundCases
<1>5. QED
  BY <1>3, <1>4

\* What an operator types at it.
LEMMA OperatorTypes ==
  ASSUME TypeOK, NEW n \in Nats, Operator(n)
  PROVE  TypeOK'
<1>1. PICK port \in Ports : NatReset(n, port) \/ NatBlock(n, port)
  BY DEF Operator
<1>2. n \in Machines /\ port \in Nat /\ {"reset", "block"} \subseteq Commands
  BY ConstantTypes DEF Commands
<1>3. CASE NatBlock(n, port)
  <2>1. /\ UNCHANGED <<server, client, mapping, punched, next_port, out, net, alive, astray>>
        /\ Typed(n, <<"block", port>>) /\ blocked' = [blocked EXCEPT ![n] = @ \cup {port}]
    BY <1>3 DEF NatBlock
  <2>2. typed' \in [Machines -> Seq(Lines)]
    BY <1>2, <2>1, TypedType
  <2>3. blocked' \in [Nats -> SUBSET Nat]
    BY <1>2, <2>1 DEF TypeOK
  <2>4. QED
    BY <2>1, <2>2, <2>3 DEF TypeOK, server, client
<1>4. CASE NatReset(n, port)
  <2>1. /\ UNCHANGED <<server, client, blocked, out, alive>>
        /\ mapping' = [mapping EXCEPT ![n] = {}] /\ punched' = [punched EXCEPT ![n] = {}]
        /\ next_port' = [next_port EXCEPT ![n] = port] /\ Typed(n, <<"reset", port>>)
        /\ astray' = IF port < next_port[n] THEN astray \cup {n} ELSE astray
    BY <1>4 DEF NatReset
  <2>2. net' = [m \in Machines |-> [net[m] EXCEPT ![n] = @ \o News(n, m)]]
    BY <1>4 DEF NatReset, News, Told
  <2>3. \A m \in Machines : net[m] \in [Machines -> Seq(Frames)] /\ net[m][n] \o News(n, m) \in Seq(Frames)
    <3>1. \A m \in Machines : net[m] \in [Machines -> Seq(Frames)] /\ News(n, m) \in Seq(Frames)
      BY NewsAdds DEF TypeOK
    <3>2. QED
      BY <1>2, <3>1, ConcatOf
  <2>4. net' \in Wires
    BY <2>2, <2>3 DEF Wires
  <2>5. typed' \in [Machines -> Seq(Lines)]
    BY <1>2, <2>1, TypedType
  <2>6. /\ mapping' \in [Nats -> SUBSET [inside : Addresses, port : Nat]]
        /\ punched' \in [Nats -> SUBSET [port : Nat, remote : Addresses]]
        /\ next_port' \in [Nats -> Nat]
    BY <1>2, <2>1 DEF TypeOK
  <2>7. astray' \in SUBSET Machines
    BY <1>2, <2>1 DEF TypeOK
  <2>8. QED
    BY <2>1, <2>4, <2>5, <2>6, <2>7 DEF TypeOK, Wires, server, client
<1>5. QED
  BY <1>1, <1>3, <1>4

\* Every step keeps the types.
LEMMA TypeStep == TypeOK /\ [Next]_vars => TypeOK'
<1> SUFFICES ASSUME TypeOK, [Next]_vars PROVE TypeOK'
  OBVIOUS
<1>1. CASE ServerRuns
  BY <1>1, ServerTypes DEF ServerRuns
<1>2. ASSUME NEW c \in Clients, ClientRuns(c) PROVE TypeOK'
  <2>1. ASSUME NEW t \in Threads, SendFrame(c, t) PROVE TypeOK'
    <3>1. PICK f \in out[c][t] : /\ net' = Put(net, c, Hop(c, f.dst.ip), f)
                                 /\ out' = [out EXCEPT ![c][t] = @ \ {f}]
      BY <2>1 DEF SendFrame
    <3>2. UNCHANGED <<server, client, nat, alive, typed, astray>>
      BY <2>1 DEF SendFrame
    <3>3. f \in Frames /\ c \in Machines /\ net \in Wires
      BY ConstantTypes DEF TypeOK, Wires
    <3>4. net' \in Wires
      BY <3>1, <3>3, PutAdds DEF Adds
    <3>5. out' \in [Clients -> [Threads -> SUBSET Frames]]
      BY <3>1 DEF TypeOK
    <3>6. QED
      BY <3>2, <3>4, <3>5 DEF TypeOK, Wires, server, client, nat
  <2>2. QED
    BY <1>2, <2>1, MainTypes DEF ClientRuns
<1>3. ASSUME NEW c \in Clients, DataRace(c) PROVE TypeOK'
  BY <1>3 DEF DataRace, TypeOK, server, client, nat
<1>4. ASSUME NEW n \in Nats, NatRuns(n) \/ Operator(n) PROVE TypeOK'
  BY <1>4, NatTypes, OperatorTypes DEF NatRuns
<1>5. CASE UNCHANGED vars
  BY <1>5 DEF vars, TypeOK, server, client, nat
<1>6. QED
  BY <1>1, <1>2, <1>3, <1>4, <1>5, UserTypes DEF Next

-----------------------------------------------------------------------------
(***************************************************************************)
(* The invariant, and what follows from it.                                *)
(***************************************************************************)

\* It holds at the start,
LEMMA InitInv == Init => IndInv
<1> SUFFICES ASSUME Init PROVE IndInv
  OBVIOUS
<1>1. NoAddress \in Addresses /\ 1 \in 1 .. Slots /\ {} \in SUBSET Frames /\ <<>> \in Seq(Frames)
  BY FixedAddresses, InputAssumption
<1>2. FreeSlot \in Slot /\ NoPeer \in Peer
  BY <1>1 DEF FreeSlot, Slot, NoPeer, Peer
<1>3. /\ slot \in [Ids -> Slot] /\ current_id_index \in 1 .. Slots
      /\ my_id \in [Clients -> Ids \cup {-1}] /\ local_port \in [Clients -> Ports]
      /\ peers_data \in [Clients -> [Ids -> Peer]]
  BY <1>1, <1>2, ConstantTypes DEF Init
<1>4. /\ mapping \in [Nats -> SUBSET [inside : Addresses, port : Nat]]
      /\ punched \in [Nats -> SUBSET [port : Nat, remote : Addresses]]
      /\ next_port \in [Nats -> Nat] /\ blocked \in [Nats -> SUBSET Nat]
  BY DEF Init
<1>5. /\ out \in [Clients -> [Threads -> SUBSET Frames]]
      /\ net \in [Machines -> [Machines -> Seq(Frames)]]
      /\ alive \in SUBSET Machines /\ typed \in [Machines -> Seq(Lines)]
      /\ astray \in SUBSET Machines
  BY <1>1 DEF Init
<1>6. TypeOK
  BY <1>3, <1>4, <1>5 DEF TypeOK
<1>7. \A n \in Nats : mapping[n] = {}
  BY DEF Init
<1>8. \A i \in Ids : ~ slot[i].valid
  BY DEF Init, FreeSlot
<1>9. \A c \in Clients, i \in Ids : peers_data[c][i] = NoPeer
  BY DEF Init
<1>10. \A c \in Clients : my_id[c] = -1
  BY DEF Init
<1>11. StateInv
  BY <1>7, <1>8, <1>9, <1>10 DEF StateInv, MapInv, SlotInv, IdsOwned, PeerInv,
       SessionsKnown, Names, Ready, NoPeer
<1>12. \A m, n \in Machines : Range(net[m][n]) = {}
  BY DEF Init, Range
<1>13. NetInv
  BY <1>12 DEF NetInv
<1>14. OutInv
  BY DEF OutInv, Init
<1>15. QED
  BY <1>6, <1>11, <1>13, <1>14 DEF IndInv

\* every step keeps it that takes no address for another,
LEMMA NextInv ==
  ASSUME DistinctIps, IndInv, astray' = {}, [Next]_vars
  PROVE  IndInv'
<1>1. ASSUME NEW n \in Machines,
             \/ HandleRequestAssigningId(n) \/ HandleRequestGettingIp(n)
             \/ HandleRequestUpdatingInfo(n) \/ HandleStatus(n)
             \/ RouteFrame(Server, n)
      PROVE  IndInv'
  BY <1>1, AssignStep, GettingIpStep, UpdateStep, StatusStep, RouteFrameStep
<1>2. ASSUME NEW c \in Clients, NEW n \in Machines,
             \/ HandleDrop(c, n) \/ HandleResponseAssigningId(c, n)
             \/ HandleResponseGettingIp(c, n)
             \/ HandleRequestSession(c, n) \/ HandleResponseSession(c, n)
             \/ HandleNatUpdated(c, n) \/ HandlePrinted(c, n) \/ RouteFrame(c, n)
      PROVE  IndInv'
  BY <1>2, HandleDropStep, TakeIdStep, LearnAddressesStep, PingStep, PongStep,
     HandleNatUpdatedStep, HandlePrintedStep, RouteFrameStep
<1>3. ASSUME NEW c \in Clients, NEW t \in Threads, SendFrame(c, t)
      PROVE  IndInv'
  BY <1>3, SendFrameStep
<1>4. ASSUME NEW c \in Clients, User(c)
      PROVE  IndInv'
  BY <1>4, ConnectStep, InfoStep, MessageStep, SessionStep, SendStatusStep DEF User
<1>5. ASSUME NEW c \in Clients, DataRace(c)
      PROVE  IndInv'
  BY <1>5, DataRaceStep
<1>6. ASSUME NEW n \in Nats, NatRuns(n) \/ Operator(n)
      PROVE  IndInv'
  BY <1>6, NatOutboundStep, NatInboundStep, NatResetStep, NatBlockStep DEF NatRuns, Operator
<1>7. CASE UNCHANGED vars
  <2>1. UNCHANGED <<server, client, nat, out, net, alive, typed, astray>>
    BY <1>7 DEF vars
  <2>2. TypeOK'
    BY <2>1 DEF IndInv, TypeOK, server, client, nat
  <2>3. UNCHANGED <<slot, current_id_index, my_id, peers_data, mapping, next_port>>
    BY <2>1 DEF server, client, nat
  <2>4. PICK f : f = NoAddress
    OBVIOUS
  <2>5. Adds(net, net', {}, Server, f)
    BY <2>1, StaysAdds DEF IndInv
  <2>6. \A c \in Clients, t \in Threads : out'[c][t] \subseteq out[c][t]
    BY <2>1
  <2>7. QED
    BY <2>2, <2>3, <2>5, <2>6, ConstantTypes, PassiveStep
<1>8. QED
  BY <1>1, <1>2, <1>3, <1>4, <1>5, <1>6, <1>7 DEF Next, ServerRuns, ClientRuns

\* so it holds as long as addresses are regular, which they never are again.
Inv == TypeOK /\ (Regular => IndInv)

\* Clients and NATs that have gone astray stay so.
LEMMA StaysRegular ==
  ASSUME [Next]_vars, Regular'
  PROVE  Regular /\ astray' = {}
<1>1. DistinctIps /\ astray' = {}
  BY DEF Regular, DistinctIps
<1>2. astray \subseteq astray'
  <2>1. CASE UNCHANGED astray
    BY <2>1
  <2>2. ASSUME NEW c \in Clients, User(c) PROVE astray \subseteq astray'
    BY <2>2 DEF User, SendRequestAssigningId, SendRequestGettingIp, SendStatus, SendMessage,
       SendRequestSession, SendToPath
  <2>3. ASSUME NEW n \in Nats, NEW c \in Clients, NatOutbound(n, c) PROVE astray \subseteq astray'
    <3>1. PICK f : f = Head(net[n][c])
      OBVIOUS
    <3>2. ASSUME LetsOut(n, c, f) PROVE astray \subseteq astray'
      <4>1. astray' = astray \/ astray' = astray \cup {n}
        BY <3>2, Zenon DEF LetsOut
      <4>2. QED
        BY <4>1
    <3>3. ASSUME SendsBack(n, c, f) PROVE astray \subseteq astray'
      BY <3>3 DEF SendsBack
    <3>4. QED
      BY <2>3, <3>1, <3>2, <3>3, OutboundCases
  <2>4. ASSUME NEW n \in Nats, Operator(n) PROVE astray \subseteq astray'
    BY <2>4 DEF Operator, NatReset, NatBlock
  <2>5. ASSUME NEW c \in Clients, ClientRuns(c) PROVE UNCHANGED astray
    BY Zenon, <2>5 DEF ClientRuns, HandleDrop, HandleResponseAssigningId, HandleResponseGettingIp,
       HandleRequestSession, HandleResponseSession, HandleNatUpdated, HandlePrinted, Receive,
       RouteFrame, SendFrame
  <2>6. CASE ServerRuns
    BY Zenon, <2>6 DEF ServerRuns, HandleRequestAssigningId, HandleRequestGettingIp, HandleStatus,
       HandleRequestUpdatingInfo, ServerTakes, RouteFrame
  <2>7. QED
    BY <2>1, <2>2, <2>3, <2>4, <2>5, <2>6 DEF Next, NatRuns, NatInbound, DataRace, vars
<1>3. QED
  BY <1>1, <1>2 DEF Regular

\* It always holds.
LEMMA InvAlways == Spec => []Inv
<1>1. Init => Inv
  BY InitInv DEF Inv, IndInv
<1>2. Inv /\ [Next]_vars => Inv'
  <2> SUFFICES ASSUME Inv, [Next]_vars PROVE Inv'
    OBVIOUS
  <2>1. TypeOK'
    BY TypeStep DEF Inv
  <2>2. ASSUME Regular' PROVE IndInv'
    <3>1. Regular /\ astray' = {} /\ DistinctIps
      BY <2>2, StaysRegular DEF Regular
    <3>2. QED
      BY <3>1, NextInv DEF Inv
  <2>3. QED
    BY <2>1, <2>2 DEF Inv
<1>3. QED
  BY <1>1, <1>2, PTL DEF Spec

\* Every variable has its type, addresses regular or not.
THEOREM TypeCorrect == Spec => []TypeOK
<1>1. Inv => TypeOK
  BY DEF Inv
<1>2. QED
  BY <1>1, InvAlways, PTL

\* The id that a client has is registered for it, so that no two clients believe
\* that they have one id, however many requests, retries and updates, of whichever
\* clients behind whichever NATs, have crossed each other
\* (handle_request_assigning_id, handle_response_assigning_id_frame): as long as
\* every ip is used once, no NAT has gone back to ports it had given, and no client
\* has sent to an address of which it read the halves of two.
THEOREM IdsAreOwnedAlways == Spec => []IdsAreOwned
<1>1. Inv => IdsAreOwned
  BY DEF Inv, IndInv, StateInv, IdsOwned, IdsAreOwned
<1>2. QED
  BY <1>1, InvAlways, PTL

\* A message comes to nobody but the peer whose id was typed, however old the
\* address that it is sent to and whatever the NATs have been reset to since
\* (send_message, handle_request_session_frame, handle_request_updating_info): as
\* long as every ip is used once, no NAT has gone back to ports it had given, and no
\* client has sent to an address of which it read the halves of two.
THEOREM MessagesReachTheirPeerAlways == Spec => []MessagesReachTheirPeer
<1>1. Inv => MessagesReachTheirPeer
  <2> SUFFICES ASSUME DistinctIps, IndInv, NEW c \in Clients, NEW m \in Machines,
                      NEW k \in DOMAIN net[c][m],
                      net[c][m][k].type = "MESSAGE", net[c][m][k].dst.ip = ip[c]
               PROVE  Owns(c, net[c][m][k].for)
    BY DEF MessagesReachTheirPeer, Inv, Regular
  <2>1. PICK f : f = net[c][m][k]
    OBVIOUS
  <2>2. f \in Range(net[c][m]) /\ c \in Machines
    BY <2>1, ConstantTypes DEF Range
  <2>3. FrameInv(f) /\ f.type = "MESSAGE" /\ f.dst.ip = ip[c]
    BY <2>1, <2>2 DEF IndInv, NetInv
  <2>4. Owns(c, f.for)
    BY <2>3, NamesMine DEF FrameInv
  <2>5. QED
    BY <2>1, <2>4
<1>2. QED
  BY <1>1, InvAlways, PTL

\* Who has a session with a peer is known to the peer by an id of its own
\* (handle_request_session_frame, handle_response_session_frame): as long as every
\* ip is used once, no NAT has gone back to ports it had given, and no client has
\* sent to an address of which it read the halves of two.
THEOREM SessionsAreKnownToBothAlways == Spec => []SessionsAreKnownToBoth
<1>1. Inv => SessionsAreKnownToBoth
  BY DEF Inv, IndInv, StateInv, SessionsKnown, SessionsAreKnownToBoth
<1>2. QED
  BY <1>1, InvAlways, PTL

=============================================================================
