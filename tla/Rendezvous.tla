----------------------------- MODULE Rendezvous -----------------------------
(***************************************************************************)
(* The peers of PA2: the server that gives them ids and passes on their    *)
(* addresses, their sessions (ping and pong) and messages, and the NATs    *)
(* between them.                                                           *)
(*                                                                         *)
(*   "main"  a client's processFrame, called by the event loop             *)
(*   "cmd"   its process_command, called by run() for every line typed     *)
(*                                                                         *)
(* The server has one thread; those of a client share peers_data, my_id    *)
(* and local_port without a lock.  A handler reads and writes them in one  *)
(* step and sends its frame in a later one; where the other thread can get *)
(* between two reads or two writes of it, the step may take what results.  *)
(* The NATs are programs of which src/ has no source: they are modelled    *)
(* from what the clients and the server do with their frames.              *)
(***************************************************************************)
EXTENDS Integers, Sequences, FiniteSets, SequencesExt

CONSTANTS Clients, Nats,
          Server,
          Outside,       \* where the server and the NATs are
          lan,           \* lan[c]: the NAT client c is behind, or Outside
          relay,         \* relay[c]: the machine c's only wire leads to, which
                         \* routes for c, or Wired
          Wired,         \* to the wire of the lan or of the outside
          ip,            \* ip[m]: m's ip, which of a NAT is its public one
          NoIp,          \* 0.0.0.0
          BoxIp,         \* a NAT's own ip: nothing is routed to it
          Slots,         \* the length of the server's peers_data: 32
          PortRange,     \* ports a client uses are uint16: 2^16
          Step,          \* what handle_drop_frame adds to the port: 100
          Workloads      \* bound: every machine m is typed the lines of w[m],
                         \* in that order, for some w of this set

Machines == Clients \cup Nats \cup {Server}
Threads  == {"main", "cmd"}
Ids      == 0 .. Slots - 1
Ports    == 0 .. PortRange - 1

\* A line: a command and the port or the id it is about, or 0.
Commands == {"connect", "info", "local", "public", "message", "status", "block", "reset"}
Lines    == Commands \X Nat

ASSUME MachinesAssumption ==
  /\ IsFiniteSet(Clients)
  /\ Clients \cap Nats = {} /\ Server \notin Clients \cup Nats
  /\ Outside \notin Nats
  /\ lan \in [Clients -> Nats \cup {Outside}]
\* Who routes for others is in the same lan, and nobody routes for it.
ASSUME RelayAssumption ==
  \A c \in Clients : relay[c] # Wired =>
    IF relay[c] = Server THEN lan[c] = Outside
    ELSE relay[c] \in Clients /\ relay[relay[c]] = Wired /\ lan[relay[c]] = lan[c]
ASSUME InputAssumption ==
  /\ Slots \in Nat \ {0, 1} /\ PortRange \in Nat \ {0} /\ Step \in Nat
  /\ Workloads \subseteq [Machines -> Seq(Lines)]
\* Where m is: in a lan, or outside.
Place(m) == IF m \in Clients THEN lan[m] ELSE Outside

\* No two machines at one place have one ip.
ASSUME IpAssumption ==
  \A m, n \in Machines :
    /\ ip[m] \notin {NoIp, BoxIp}
    /\ Place(m) = Place(n) /\ ip[m] = ip[n] => m = n

\* Nor have two at different ones, behind different NATs for instance.
DistinctIps == \A m, n \in Machines : ip[m] = ip[n] => m = n

Ips       == {ip[m] : m \in Machines} \cup {NoIp, BoxIp}
Addresses == [ip : Ips, port : Nat]
Address(i, port) == [ip |-> i, port |-> port]
NoAddress == Address(NoIp, 0)

\* REQUEST_ASSIGNING_ID, RESPONSE_ASSIGNING_ID and DROP have one code on the
\* wire, and so have requests and responses of GETTING_IP.
Types == {"ASSIGNING_ID", "GETTING_IP", "PING", "PONG", "MESSAGE", "NAT_UPDATED",
          "UPDATING_INFO", "STATUS", "STATUS_RESPOND"}

\* "for" is the id typed for a message; it is not on the wire.
Frames == [type : Types, src : Addresses, dst : Addresses, id : Ids,
           local : Addresses, public : Addresses, for : Ids]

Slot == [valid : BOOLEAN, local : Addresses, public : Addresses]
Peer == [known : BOOLEAN, local : Addresses, public : Addresses,
         ping_sent : BOOLEAN, pong_received : BOOLEAN, connected_locally : BOOLEAN]

FreeSlot == [valid |-> FALSE, local |-> NoAddress, public |-> NoAddress]
NoPeer   == [known |-> FALSE, local |-> NoAddress, public |-> NoAddress,
             ping_sent |-> FALSE, pong_received |-> FALSE, connected_locally |-> FALSE]

VARIABLES slot,              \* the server's peers_data
          current_id_index,
          my_id, local_port,
          peers_data,        \* peers_data[c][i].known: i is a key of c's map
          mapping,           \* mapping[n]: inside addresses and their public ports
          punched,           \* punched[n]: public ports and whom they have sent to
          next_port,         \* next_port[n]: the next public port of n
          blocked,           \* blocked[n]: the ports typed at n
          out,               \* out[c][t]: the frame thread t of c has still to send
          net,               \* net[m][n]: the frames under way from n to m
          alive,             \* the machines whose process has not crashed
          typed,             \* typed[m]: the lines typed at m so far
          astray             \* the NATs that have gone back to ports already given,
                             \* and the clients that have sent to an address put
                             \* together of two (a history variable)

server == <<slot, current_id_index>>
client == <<my_id, local_port, peers_data>>
nat    == <<mapping, punched, next_port, blocked>>
vars   == <<server, client, nat, out, net, alive, typed, astray>>

TypeOK ==
  /\ slot \in [Ids -> Slot]
  /\ current_id_index \in 1 .. Slots
  /\ my_id \in [Clients -> Ids \cup {-1}]
  /\ local_port \in [Clients -> Ports]
  /\ peers_data \in [Clients -> [Ids -> Peer]]
  /\ mapping \in [Nats -> SUBSET [inside : Addresses, port : Nat]]
  /\ punched \in [Nats -> SUBSET [port : Nat, remote : Addresses]]
  /\ next_port \in [Nats -> Nat]
  /\ blocked \in [Nats -> SUBSET Nat]
  /\ out \in [Clients -> [Threads -> SUBSET Frames]]
  /\ net \in [Machines -> [Machines -> Seq(Frames)]]
  /\ alive \in SUBSET Machines
  /\ typed \in [Machines -> Seq(Lines)]
  /\ astray \in SUBSET Machines

Init ==
  /\ slot = [i \in Ids |-> FreeSlot]
  /\ current_id_index = 1
  /\ my_id = [c \in Clients |-> -1]
  /\ local_port = [c \in Clients |-> 0]
  /\ peers_data = [c \in Clients |-> [i \in Ids |-> NoPeer]]
  /\ mapping = [n \in Nats |-> {}]
  /\ punched = [n \in Nats |-> {}]
  /\ next_port = [n \in Nats |-> 0]
  /\ blocked = [n \in Nats |-> {}]
  /\ out = [c \in Clients |-> [t \in Threads |-> {}]]
  /\ net = [m \in Machines |-> [n \in Machines |-> <<>>]]
  /\ alive = Machines
  /\ typed = [m \in Machines |-> <<>>]
  /\ astray = {}

-----------------------------------------------------------------------------
(* Frames and where they go.                                               *)

\* frameFactory
Frame(type, src, dst, id) ==
  [type |-> type, src |-> src, dst |-> dst, id |-> id,
   local |-> NoAddress, public |-> NoAddress, for |-> 0]

Own(c, port) == Address(ip[c], port)
ServerAddress == Address(ip[Server], 1234)

\* The machines outside with ip i: one or, when i is routed to nobody, none.
Out(i) == {m \in Machines : ip[m] = i /\ (m \in Clients => lan[m] = Outside)}

Behind(n) == {c \in Clients : lan[c] = n}

\* Where a frame for m leaves the wire of its lan or of the outside.
Entry(m) == IF m \in Clients /\ relay[m] # Wired THEN relay[m] ELSE m
Entries(S) == {Entry(m) : m \in S}

\* Where m sends a frame for ip i: on the interface that leads to i, if there is
\* one, else on the first; a NAT takes what is not for its lan.
Hop(m, i) ==
  LET beyond == {d \in Clients : relay[d] = m /\ ip[d] = i}
      place  == IF m = Server THEN Outside ELSE lan[m]
      near   == IF place = Outside THEN Out(i) ELSE {d \in Behind(place) : ip[d] = i}
  IN IF beyond # {} THEN beyond
     ELSE IF Entry(m) # m THEN {Entry(m)}
     ELSE IF near = {} /\ place # Outside THEN {place}
     ELSE Entries(near) \ {m}

\* wires with f put on those from m to the machines of S
Put(wires, m, S, f) ==
  [x \in Machines |-> IF x \in S THEN [wires[x] EXCEPT ![m] = Append(@, f)] ELSE wires[x]]

Taken(m, n) == [net EXCEPT ![m][n] = Tail(@)]

SendFrame(c, t) ==
  /\ c \in alive
  /\ \E f \in out[c][t] :
       /\ net' = Put(net, c, Hop(c, f.dst.ip), f)
       /\ out' = [out EXCEPT ![c][t] = @ \ {f}]
  /\ UNCHANGED <<server, client, nat, alive, typed, astray>>

\* m takes the next frame from n: one for itself, of type T.
Comes(m, n, T) ==
  /\ m \in alive
  /\ net[m][n] # <<>>
  /\ Head(net[m][n]).dst.ip = ip[m]
  /\ Head(net[m][n]).type \in T

\* What is not for m itself m sends on.  (The ttl of 64 outlasts every path.)
RouteFrame(m, n) ==
  /\ m \in alive
  /\ net[m][n] # <<>>
  /\ m \in Clients => out[m]["main"] = {}
  /\ LET f == Head(net[m][n]) IN
     /\ f.dst.ip # ip[m]
     /\ net' = Put(Taken(m, n), m, Hop(m, f.dst.ip), f)
  /\ UNCHANGED <<server, client, nat, out, alive, typed, astray>>

-----------------------------------------------------------------------------
(* The server: one thread, whose frames leave at once.                     *)

ServerTakes(n, T) ==
  /\ Comes(Server, n, T)
  /\ UNCHANGED <<client, nat, out, typed, astray>>

Answer(n, f) == net' = Put(Taken(Server, n), Server, Hop(Server, f.dst.ip), f)

\* Mutant: the index does not move on.
HandleRequestAssigningIdSame(n) ==
  /\ ServerTakes(n, {"ASSIGNING_ID"})
  /\ LET f == Head(net[Server][n]) IN
     /\ slot' = [slot EXCEPT ![current_id_index] =
           [valid |-> TRUE, local |-> f.local, public |-> f.src]]
     /\ Answer(n, Frame("ASSIGNING_ID", ServerAddress, f.src, current_id_index))
  /\ UNCHANGED <<current_id_index, alive>>

\* Mutant: the address the frame comes from is taken for the local one too.
HandleRequestAssigningIdHeader(n) ==
  /\ ServerTakes(n, {"ASSIGNING_ID"})
  /\ LET f == Head(net[Server][n]) IN
     IF current_id_index < Slots
     THEN /\ slot' = [slot EXCEPT ![current_id_index] =
                [valid |-> TRUE, local |-> f.src, public |-> f.src]]
          /\ current_id_index' = current_id_index + 1
          /\ Answer(n, Frame("ASSIGNING_ID", ServerAddress, f.src, current_id_index))
          /\ UNCHANGED alive
     ELSE alive' = alive \ {Server} /\ net' = Taken(Server, n) /\ UNCHANGED server

\* Whatever has code 0 is a request, a DROP too.  The index is not checked: the
\* entry after the last one lies on the index itself, and the process crashes.
HandleRequestAssigningId(n) ==
  /\ ServerTakes(n, {"ASSIGNING_ID"})
  /\ LET f == Head(net[Server][n]) IN
     IF current_id_index < Slots
     THEN /\ slot' = [slot EXCEPT ![current_id_index] =
                [valid |-> TRUE, local |-> f.local, public |-> f.src]]
          /\ current_id_index' = current_id_index + 1
          /\ Answer(n, Frame("ASSIGNING_ID", ServerAddress, f.src, current_id_index))
          /\ UNCHANGED alive
     ELSE alive' = alive \ {Server} /\ net' = Taken(Server, n) /\ UNCHANGED server

\* Only who is registered under the address it asks from is answered.
HandleRequestGettingIp(n) ==
  /\ ServerTakes(n, {"GETTING_IP"})
  /\ LET f == Head(net[Server][n])
         wanted == slot[f.id]
     IN IF wanted.valid /\ \E i \in Ids : slot[i].public = f.src
        THEN Answer(n, [Frame("GETTING_IP", ServerAddress, f.src, f.id)
                          EXCEPT !.local = wanted.local, !.public = wanted.public])
        ELSE net' = Taken(Server, n)
  /\ UNCHANGED <<server, alive>>

\* Mutant: the public port stays as it was.
HandleRequestUpdatingInfoLocal(n) ==
  /\ ServerTakes(n, {"UPDATING_INFO"})
  /\ LET f == Head(net[Server][n])
         same == {i \in Ids : slot[i].public.ip = f.src.ip /\ slot[i].local.ip = f.local.ip}
     IN slot' = [i \in Ids |->
          IF i \in same /\ \A j \in same : i <= j
          THEN [slot[i] EXCEPT !.local = f.local] ELSE slot[i]]
  /\ net' = Taken(Server, n)
  /\ UNCHANGED <<current_id_index, alive>>

\* The first entry with the sender's ips takes over its ports.
HandleRequestUpdatingInfo(n) ==
  /\ ServerTakes(n, {"UPDATING_INFO"})
  /\ LET f == Head(net[Server][n])
         same == {i \in Ids : slot[i].public.ip = f.src.ip /\ slot[i].local.ip = f.local.ip}
     IN slot' = [i \in Ids |->
          IF i \in same /\ \A j \in same : i <= j
          THEN [slot[i] EXCEPT !.local = f.local, !.public = f.src] ELSE slot[i]]
  /\ net' = Taken(Server, n)
  /\ UNCHANGED <<current_id_index, alive>>

\* The client is behind no NAT if its address has come through unchanged.
HandleStatus(n) ==
  /\ ServerTakes(n, {"STATUS"})
  /\ LET f == Head(net[Server][n]) IN
     Answer(n, Frame("STATUS_RESPOND", ServerAddress, f.src, IF f.local = f.src THEN 1 ELSE 0))
  /\ UNCHANGED <<server, alive>>

-----------------------------------------------------------------------------
(* A client's main thread.                                                 *)

Receive(c, n, T) ==
  /\ Comes(c, n, T)
  /\ out[c]["main"] = {}
  /\ net' = Taken(c, n)
  /\ UNCHANGED <<server, nat, alive, typed, astray>>

Send(c, t, f) == out' = [out EXCEPT ![c][t] = {f}]

\* A request with c's own address in it.
Request(c, type, port) ==
  [Frame(type, Own(c, port), ServerAddress, 0) EXCEPT !.local = Own(c, port)]

\* Mutant: the port does not wrap.
HandleDropWide(c, n) ==
  /\ Receive(c, n, {"ASSIGNING_ID"})
  /\ Head(net[c][n]).id = 0
  /\ IF Head(net[c][n]).src.port = 1234
     THEN LET port == local_port[c] + Step IN
          /\ local_port' = [local_port EXCEPT ![c] = port]
          /\ Send(c, "main", Request(c, "ASSIGNING_ID", port))
     ELSE UNCHANGED <<local_port, out>>
  /\ UNCHANGED <<my_id, peers_data>>

\* Mutant: the request is repeated from the same port.
HandleDropSamePort(c, n) ==
  /\ Receive(c, n, {"ASSIGNING_ID"})
  /\ Head(net[c][n]).id = 0
  /\ IF Head(net[c][n]).src.port = 1234
     THEN Send(c, "main", Request(c, "ASSIGNING_ID", local_port[c]))
     ELSE UNCHANGED out
  /\ UNCHANGED client

\* Id 0 on what might be an answer means DROP.  From port 1234 it says that the
\* NAT blocks local_port: the client asks for an id from another, even if it has
\* one.  From port 4321, that a peer's NAT knows nothing of it: a line is printed.
HandleDrop(c, n) ==
  /\ Receive(c, n, {"ASSIGNING_ID"})
  /\ Head(net[c][n]).id = 0
  /\ IF Head(net[c][n]).src.port = 1234
     THEN LET port == (local_port[c] + Step) % PortRange IN
          /\ local_port' = [local_port EXCEPT ![c] = port]
          /\ Send(c, "main", Request(c, "ASSIGNING_ID", port))
     ELSE UNCHANGED <<local_port, out>>
  /\ UNCHANGED <<my_id, peers_data>>

HandleResponseAssigningId(c, n) ==
  /\ Receive(c, n, {"ASSIGNING_ID"})
  /\ Head(net[c][n]).id # 0
  /\ my_id' = [my_id EXCEPT ![c] = Head(net[c][n]).id]
  /\ UNCHANGED <<local_port, peers_data, out>>

HandleResponseGettingIp(c, n) ==
  /\ Receive(c, n, {"GETTING_IP"})
  /\ LET f == Head(net[c][n]) IN
     peers_data' = [peers_data EXCEPT ![c][f.id] =
        [@ EXCEPT !.known = TRUE, !.local = f.local, !.public = f.public]]
  /\ UNCHANGED <<my_id, local_port, out>>

\* An id of -1 fills the bits of the type: what was PING, PONG or MESSAGE is
\* read as the answer to a "status".
ToPeer(c, type, dst) ==
  IF my_id[c] = -1 THEN Frame("STATUS_RESPOND", Own(c, local_port[c]), dst, Slots - 1)
  ELSE Frame(type, Own(c, local_port[c]), dst, my_id[c])

\* Mutant: a ping by a stranger is answered and forgotten.
HandleRequestSessionForgets(c, n) ==
  /\ Receive(c, n, {"PING"})
  /\ LET f == Head(net[c][n])
         peer == peers_data[c][f.id]
     IN /\ peers_data' = [peers_data EXCEPT ![c][f.id] =
              IF peer.known
              THEN [peer EXCEPT !.ping_sent = TRUE, !.pong_received = TRUE,
                                !.connected_locally = peer.local = f.src]
              ELSE peer]
        /\ Send(c, "main", ToPeer(c, "PONG", f.src))
  /\ UNCHANGED <<my_id, local_port>>

\* The command thread is making a session with peer i.
MakesSession(c, i) ==
  out[c]["cmd"] # {} /\ Last(typed[c]) \in {"local", "public"} \X {i}

\* A ping: of a sender with no entry the address it came from is taken for both.
\* Where the command thread writes the same flags, each is as one of the two leaves it.
HandleRequestSession(c, n) ==
  /\ Receive(c, n, {"PING"})
  /\ LET f == Head(net[c][n])
         peer == peers_data[c][f.id]
     IN /\ \E near, pong \in BOOLEAN :
             /\ \/ near = (peer.known => peer.local = f.src)
                \/ near = peer.connected_locally /\ MakesSession(c, f.id)
             /\ pong \/ MakesSession(c, f.id)
             /\ peers_data' = [peers_data EXCEPT ![c][f.id] =
                  [known |-> TRUE, ping_sent |-> TRUE, pong_received |-> pong,
                   local |-> IF peer.known THEN peer.local ELSE f.src,
                   public |-> IF peer.known THEN peer.public ELSE f.src,
                   connected_locally |-> near]]
        /\ Send(c, "main", ToPeer(c, "PONG", f.src))
  /\ UNCHANGED <<my_id, local_port>>

HandleResponseSession(c, n) ==
  /\ Receive(c, n, {"PONG"})
  /\ LET i == Head(net[c][n]).id IN
     peers_data' = [peers_data EXCEPT ![c][i].pong_received = @ \/ peers_data[c][i].known]
  /\ UNCHANGED <<my_id, local_port, out>>

HandleNatUpdated(c, n) ==
  /\ Receive(c, n, {"NAT_UPDATED"})
  /\ Send(c, "main", Request(c, "UPDATING_INFO", local_port[c]))
  /\ UNCHANGED client

\* A message or the answer to a "status" is printed.
HandlePrinted(c, n) ==
  /\ Receive(c, n, {"MESSAGE", "STATUS_RESPOND"})
  /\ UNCHANGED <<client, out>>

-----------------------------------------------------------------------------
(* A client's command thread.                                              *)

\* The line may be typed next at m.
MayType(m, line) == \E w \in Workloads :
  /\ Len(typed[m]) < Len(w[m]) /\ w[m][Len(typed[m]) + 1] = line
  /\ \A n \in Machines : Len(typed[n]) <= Len(w[n]) /\ typed[n] = SubSeq(w[n], 1, Len(typed[n]))

Typed(m, line) == MayType(m, line) /\ typed' = [typed EXCEPT ![m] = Append(@, line)]

\* A line is typed at c, whose command thread is done with the one before.
Type(c, op, arg) ==
  /\ c \in alive
  /\ out[c]["cmd"] = {}
  /\ Typed(c, <<op, arg>>)
  /\ UNCHANGED <<server, nat, net, alive, my_id>>

SendRequestAssigningId(c, port) ==
  /\ my_id[c] = -1
  /\ Type(c, "connect", port) /\ UNCHANGED astray
  /\ local_port' = [local_port EXCEPT ![c] = port]
  /\ Send(c, "cmd", Request(c, "ASSIGNING_ID", port))
  /\ UNCHANGED peers_data

SendRequestGettingIp(c, i) ==
  /\ Type(c, "info", i) /\ UNCHANGED astray
  /\ Send(c, "cmd", Frame("GETTING_IP", Own(c, local_port[c]), ServerAddress, i))
  /\ UNCHANGED <<local_port, peers_data>>

Path(p, locally) == IF locally THEN p.local ELSE p.public

\* The address of peer i as it is, and as the main thread may be writing it.
Paths(c, i, locally) ==
  {Path(peers_data[c][i], locally)} \cup
  {Path(Head(net[c][n]), locally) : n \in {m \in Machines :
     out[c]["main"] = {} /\ Comes(c, m, {"GETTING_IP"}) /\ Head(net[c][m]).id = i}}

\* The command thread reads the port and then the ip of the address.
Readings(c, i, locally) ==
  {Address(a.ip, b.port) : a, b \in Paths(c, i, locally)}

\* It sends f to what it has read.
SendToPath(c, i, locally, f) ==
  /\ Send(c, "cmd", f)
  /\ astray' = IF f.dst \in Paths(c, i, locally) THEN astray ELSE astray \cup {c}

\* "make a local session" and "make a public session"
SendRequestSession(c, i, locally) ==
  /\ peers_data[c][i].known
  /\ Type(c, IF locally THEN "local" ELSE "public", i)
  /\ peers_data' = [peers_data EXCEPT ![c][i] = [@ EXCEPT
        !.connected_locally = locally, !.ping_sent = TRUE, !.pong_received = FALSE]]
  /\ \E dst \in Readings(c, i, locally) : SendToPath(c, i, locally, ToPeer(c, "PING", dst))
  /\ UNCHANGED local_port

Ready(peer) == peer.ping_sent /\ peer.pong_received

\* Without a session nothing is sent, but operator[] has made an entry for i.
SendMessage(c, i) ==
  /\ Type(c, "message", i)
  /\ LET peer == peers_data[c][i] IN
     IF Ready(peer)
     THEN /\ \E dst \in Readings(c, i, peer.connected_locally) :
               SendToPath(c, i, peer.connected_locally,
                          [ToPeer(c, "MESSAGE", dst) EXCEPT !.for = i])
          /\ UNCHANGED peers_data
     ELSE /\ peers_data' = [peers_data EXCEPT ![c][i].known = TRUE]
          /\ UNCHANGED <<out, astray>>
  /\ UNCHANGED local_port

SendStatus(c) ==
  /\ Type(c, "status", 0) /\ UNCHANGED astray
  /\ Send(c, "cmd", Request(c, "STATUS", local_port[c]))
  /\ UNCHANGED <<local_port, peers_data>>

\* The main thread inserts into the map while the command thread is in it: one
\* of them may follow a half-set pointer, and the process dies.  Where it lives on,
\* the command thread is taken to see the whole entry or none; so is local_port
\* to be moved on by a DROP before a "connect" sets it or after.  What else the two
\* threads make of each other's fields is in MakesSession and Readings.
DataRace(c) ==
  /\ c \in alive
  /\ \E n \in Machines : Comes(c, n, {"GETTING_IP", "PING"})
  /\ \E op \in {"local", "public", "message"}, i \in Ids : MayType(c, <<op, i>>)
  /\ alive' = alive \ {c}
  /\ UNCHANGED <<server, client, nat, out, net, typed, astray>>

-----------------------------------------------------------------------------
(* A NAT, seen from outside.                                               *)

NatTakes(n, m) ==
  /\ n \in alive
  /\ net[n][m] # <<>>
  /\ UNCHANGED <<server, client, out, alive, typed>>

\* (The server reads the four bytes in a DROP as an ip, which is nobody's.)
Drop(n, port, f) == Frame("ASSIGNING_ID", Address(BoxIp, port), f.src, 0)

\* The last port is followed by the first.
PortAfter(port) == IF port + 1 = PortRange THEN 0 ELSE port + 1

\* From inside: a blocked source port is answered with DROP; any other has or
\* gets a public port, and whom the frame is for may answer from now on.
NatOutbound(n, c) ==
  /\ NatTakes(n, c)
  /\ lan[c] = n
  /\ LET f == Head(net[n][c])
         old == {e \in mapping[n] : e.inside = f.src}
         new == IF old = {} THEN {[inside |-> f.src, port |-> next_port[n]]} ELSE {}
     IN IF f.src.port \in blocked[n]
        THEN /\ net' = Put(Taken(n, c), n, {c}, Drop(n, 1234, f))
             /\ UNCHANGED <<nat, astray>>
        ELSE \E e \in old \cup new :
             /\ mapping' = [mapping EXCEPT ![n] = @ \cup new]
             /\ next_port' = [next_port EXCEPT ![n] = IF old = {} THEN PortAfter(@) ELSE @]
             /\ astray' = IF new # {} /\ PortAfter(next_port[n]) = 0 THEN astray \cup {n} ELSE astray
             /\ punched' = [punched EXCEPT ![n] = @ \cup {[port |-> e.port, remote |-> f.dst]}]
             /\ net' = Put(Taken(n, c), n, Entries(Out(f.dst.ip)),
                           [f EXCEPT !.src = Address(ip[n], e.port)])
             /\ UNCHANGED blocked

\* From outside: a frame that nobody inside has sent for is answered with DROP,
\* unless it is one.
NatInbound(n, m) ==
  /\ NatTakes(n, m)
  /\ m \notin Behind(n)
  /\ LET f == Head(net[n][m])
         asked == {e \in mapping[n] :
                     /\ e.port = f.dst.port
                     /\ [port |-> e.port, remote |-> f.src] \in punched[n]}
     IN IF asked # {}
        THEN \E e \in asked : net' =
               Put(Taken(n, m), n, Entries({c \in Behind(n) : ip[c] = e.inside.ip}),
                   [f EXCEPT !.dst = e.inside])
        ELSE net' = Put(Taken(n, m), n,
                        IF f.src.ip = BoxIp THEN {} ELSE Entries(Out(f.src.ip)),
                        Drop(n, 4321, f))
  /\ UNCHANGED <<nat, astray>>

\* "reset network settings", with the base port typed: any, a port given before too.
NatReset(n, base) ==
  /\ n \in alive /\ Typed(n, <<"reset", base>>)
  /\ next_port' = [next_port EXCEPT ![n] = base]
  /\ astray' = IF base < next_port[n] THEN astray \cup {n} ELSE astray
  /\ mapping' = [mapping EXCEPT ![n] = {}]
  /\ punched' = [punched EXCEPT ![n] = {}]
  /\ net' = [m \in Machines |-> [net[m] EXCEPT ![n] = @ \o
        LET told == SetToSeq({c \in Behind(n) : Entry(c) = m})
        IN [k \in DOMAIN told |-> Frame("NAT_UPDATED", Address(BoxIp, 0), Own(told[k], 0), 0)]]]
  /\ UNCHANGED <<server, client, blocked, out, alive>>

\* "block port range", of one port
NatBlock(n, port) ==
  /\ n \in alive /\ Typed(n, <<"block", port>>)
  /\ blocked' = [blocked EXCEPT ![n] = @ \cup {port}]
  /\ UNCHANGED <<server, client, mapping, punched, next_port, out, net, alive, astray>>

-----------------------------------------------------------------------------
ServerRuns == \E n \in Machines :
  \/ HandleRequestAssigningId(n) \/ HandleRequestGettingIp(n)
  \/ HandleRequestUpdatingInfo(n) \/ HandleStatus(n)
  \/ RouteFrame(Server, n)

ClientRuns(c) ==
  \/ \E n \in Machines :
       \/ HandleDrop(c, n) \/ HandleResponseAssigningId(c, n)
       \/ HandleResponseGettingIp(c, n)
       \/ HandleRequestSession(c, n) \/ HandleResponseSession(c, n)
       \/ HandleNatUpdated(c, n) \/ HandlePrinted(c, n) \/ RouteFrame(c, n)
  \/ \E t \in Threads : SendFrame(c, t)

User(c) ==
  \/ \E port \in Ports : SendRequestAssigningId(c, port)
  \/ \E i \in Ids : SendRequestGettingIp(c, i) \/ SendMessage(c, i)
  \/ \E i \in Ids, locally \in BOOLEAN : SendRequestSession(c, i, locally)
  \/ SendStatus(c)

NatRuns(n) ==
  \/ \E c \in Clients : NatOutbound(n, c)
  \/ \E m \in Machines : NatInbound(n, m)

Operator(n) == \E port \in Ports : NatReset(n, port) \/ NatBlock(n, port)

Next ==
  \/ ServerRuns
  \/ \E c \in Clients : ClientRuns(c) \/ User(c) \/ DataRace(c)
  \/ \E n \in Nats : NatRuns(n) \/ Operator(n)

Spec == Init /\ [][Next]_vars

\* The network goes on while some process has a frame to take or to send.
Run == ServerRuns \/ (\E c \in Clients : ClientRuns(c)) \/ (\E n \in Nats : NatRuns(n))

FairSpec == Spec /\ WF_vars(Run)

-----------------------------------------------------------------------------
Owns(c, i) == slot[i].valid /\ slot[i].local.ip = ip[c]

\* An address stands for one machine: no ip is used twice, not even in two lans, no
\* NAT has gone back to ports it had given (nat_machine.cpp:145 takes any base), and
\* no client has read half an address (client_machine.cpp:391).
Regular == DistinctIps /\ astray = {}

\* The id a client believes to be its own is registered for it, so that no two
\* have the same one: answers cross retries, repeated requests and resets
\* (handle_request_assigning_id, handle_response_assigning_id_frame).  It has to
\* be that addresses stand for one machine: an answer goes by them.
IdsAreOwned == Regular => \A c \in Clients : my_id[c] # -1 => Owns(c, my_id[c])

\* A message reaches nobody but the peer whose id was typed, although senders go
\* by old addresses, NATs change theirs, and an entry is made of a ping by a
\* stranger (send_message, handle_request_session_frame, handle_request_updating_info).
\* That is so as long as addresses stand for one machine: with one private ip in two
\* lans, a public port given twice or half an address a message may reach a stranger.
MessagesReachTheirPeer == Regular =>
  \A c \in Clients, m \in Machines : \A k \in DOMAIN net[c][m] :
    net[c][m][k].type = "MESSAGE" /\ net[c][m][k].dst.ip = ip[c]
      => Owns(c, net[c][m][k].for)

\* Who has a session with a peer is known to it: the peer can name one of its
\* ids (handle_request_session_frame makes an entry before it answers), as long as
\* addresses stand for one machine.
SessionsAreKnownToBoth == Regular =>
  \A c \in Clients, i \in Ids : Ready(peers_data[c][i]) =>
    \E d \in Clients, j \in Ids : Owns(d, i) /\ Owns(c, j) /\ peers_data[d][j].known

HasTyped(m, op) == \E k \in DOMAIN typed[m] : typed[m][k][1] = op

Undisturbed == \A n \in Nats : ~ HasTyped(n, "reset")

\* Who asks for an id gets one, from whichever port the NAT lets it use
\* (handle_drop_frame), if no NAT is reset meanwhile and everyone runs on.
EveryoneGetsAnId ==
  [](alive = Machines /\ Undisturbed) =>
    <>[](\A c \in Clients : HasTyped(c, "connect") => my_id[c] # -1)

\* The addresses of c as the rest of the world sees it: none before it has sent.
PublicAddresses(c) ==
  IF lan[c] = Outside THEN {Own(c, local_port[c])}
  ELSE {Address(ip[lan[c]], e.port) :
          e \in {e \in mapping[lan[c]] : e.inside = Own(c, local_port[c])}}

\* In the end the server has the addresses under which its peers can be reached,
\* whatever registrations, updates and resets of NATs have crossed each other
\* (handle_nat_updated_frame, handle_request_updating_info), for every client that
\* has one id.  Excepted is an entry with port 0: an update made before the client
\* has a port can be sent after its request.  It takes addresses that stand for one
\* machine: over a port given twice a client may be answered with another's id.
TableFollowsTheNats ==
  [](alive = Machines /\ Regular) => <>[](\A c \in Clients, i \in Ids :
    /\ my_id[c] = i
    /\ \A j \in Ids : Owns(c, j) => i = j
    /\ slot[i].local.port # 0
    => slot[i].public \in PublicAddresses(c))

\* The design document says of send_message that it sends the message to the id
\* typed, on its local or its public path.
MessagesGoSomewhere ==
  [][\A c \in Clients : \A f \in out'[c]["cmd"] \ out[c]["cmd"] :
        f.type = "MESSAGE" => f.dst # NoAddress]_vars
=============================================================================
