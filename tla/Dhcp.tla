-------------------------------- MODULE Dhcp --------------------------------
(***************************************************************************)
(* The address leases of PA1: the servers and clients of PA1/user, the     *)
(* frames between them and the two threads of every machine.               *)
(*                                                                         *)
(*   "main"  processFrame, called by the client framework's event loop     *)
(*   "cmd"   process_command, called by run() for every line typed         *)
(*                                                                         *)
(* Nothing is locked: the command thread of a server counts leases down    *)
(* and resets them while its main thread grants them.  So the threads of a *)
(* server look at the pool entry by entry, and write an entry field by     *)
(* field, in the order of the source.  The threads of a client share       *)
(* vectors, in which a handler works in one step.  The frames that a       *)
(* handler sends leave in later steps.                                     *)
(*                                                                         *)
(* There are no switches between the machines: a client passes the frames  *)
(* that are not its own on to its other neighbours.  A client is named by  *)
(* the mac its frames carry.                                               *)
(***************************************************************************)
EXTENDS Integers, Sequences

CONSTANTS Servers, Clients,
          NoMac,         \* the mac 0:0:0:0:0:0 of an entry that is free
          Neighbours,    \* Neighbours[m]: the machines at m's interfaces
          Blocks,        \* Blocks[s]: the blocks of addresses typed at s
          Times,         \* Times[m]: the times typed at m
          TimeRange,     \* times are unsigned ints: 2^32 in the code
          Workloads      \* bound: the commands typed are w[m][op] times op at
                         \* machine m at most, for some w of this set

Machines  == Servers \cup Clients
Addresses == UNION {UNION Blocks[s] : s \in Servers}
Macs      == Clients \cup {NoMac}
Threads   == {"main", "cmd"}
Commands  == {"add_pool", "add_time", "get_ip", "accept", "release", "extend"}

ASSUME MachinesAssumption ==
  /\ Servers \cap Clients = {} /\ NoMac \notin Clients
  /\ Neighbours \in [Machines -> SUBSET Machines]
ASSUME InputAssumption ==
  /\ Blocks \in [Servers -> SUBSET SUBSET (Nat \ {0})]
  /\ TimeRange \in Nat \ {0}
  /\ Times \in [Machines -> SUBSET (0 .. TimeRange - 1)]
  /\ Workloads \subseteq [Machines -> [Commands -> Nat]]
\* An address is in the pool of one server.
ASSUME BlocksAssumption ==
  \A s, r \in Servers : s # r => (UNION Blocks[s]) \cap (UNION Blocks[r]) = {}

Time == 0 .. TimeRange - 1

Types == {"DISCOVER", "OFFER", "REQUEST", "ACK", "RELEASE", "TIMEOUT",
          "REQUEST_EXTEND", "RESPONSE_EXTEND"}

Frames  == [type : Types, mac : Macs, ip : Addresses \cup {0}, time : Time]
Parcels == [to : Machines, frame : Frames]

Entries == [allocated : BOOLEAN, waiting : BOOLEAN, mac : Macs, ttl : Time]
Fields  == {"allocated", "waiting", "mac", "ttl"}

FreeEntry == [allocated |-> FALSE, waiting |-> FALSE, mac |-> NoMac, ttl |-> 0]

\* What a thread of a server is writing: into the entry of ip the fields that are
\* left of what it is to be; and what it answers then.  (A mac of which one thread
\* has written one part and the other the rest is no client's, as NoMac is.)
Nothing == [ip |-> 0, to |-> FreeEntry, left |-> <<>>, answer |-> {}]

Writes == {Nothing} \cup
  [ip : Addresses, to : Entries, left : Seq(Fields) \ {<<>>}, answer : SUBSET Parcels]

\* What the main thread walks through the pool for, and how far it is: the first
\* free address, to offer it to mac for a time, in place of an old one or not,
\* or the first one that waits for mac's answer.
Searches == [for : {"OFFER", "RESPONSE_EXTEND", "ACK"}, mac : Macs, time : Time,
             back : Machines, at : Addresses \cup {0}]

\* How far advance_time is in the pool, and what it reads next.
Counts == [time : Time, at : Addresses \cup {0}, reads : {"allocated"}] \cup
          [time : Time, at : Addresses, reads : {"ttl", "late", "left"}]

VARIABLES pool,       \* pool[s]: the keys of ip_pool
          entry,      \* entry[s][a]: ip_pool[a]
          adding,     \* adding[s]: the addresses add_to_pool has still to insert
          writing,    \* writing[s][t]: what thread t is writing
          search,     \* search[s]: the walk of the main thread, if it is on one
          count,      \* count[s]: the walk of advance_time, if it is on one
          due,        \* due[s]: timeout_messages, while advance_time works on it
          told,       \* those of due[s] whose TIMEOUT is out, their entry not reset
          offers,     \* offers[c]
          ips,        \* ips[c][a]: how often a is in c's vector ips
          extending,  \* extend_request_ip
          out,        \* out[m][t]: what thread t of m has still to send
          net,        \* net[m][n]: the frames under way from n to m
          alive,      \* the machines whose process has not crashed
          typed       \* typed[m][op]: how often op has been typed at m

leases == <<pool, entry>>
timing == <<count, due, told>>
server == <<leases, adding, writing, search, timing>>
client == <<offers, ips, extending>>
vars == <<server, client, out, net, alive, typed>>

TypeOK ==
  /\ pool \in [Servers -> SUBSET Addresses]
  /\ entry \in [Servers -> [Addresses -> Entries]]
  /\ adding \in [Servers -> SUBSET Addresses]
  /\ writing \in [Servers -> [Threads -> Writes]]
  /\ search \in [Servers -> SUBSET Searches]
  /\ count \in [Servers -> SUBSET Counts]
  /\ due \in [Servers -> SUBSET [ip : Addresses, ttl : Time]]
  /\ told \in [Servers -> SUBSET [ip : Addresses, ttl : Time]]
  /\ offers \in [Clients -> SUBSET [ip : Addresses \cup {0}, time : Time]]
  /\ ips \in [Clients -> [Addresses \cup {0} -> Nat]]
  /\ extending \in [Clients -> Addresses \cup {0}]
  /\ out \in [Machines -> [Threads -> SUBSET Parcels]]
  /\ net \in [Machines -> [Machines -> Seq(Frames)]]
  /\ alive \in SUBSET Machines
  /\ typed \in [Machines -> [Commands -> Nat]]

Init ==
  /\ pool = [s \in Servers |-> {}]
  /\ entry = [s \in Servers |-> [a \in Addresses |-> FreeEntry]]
  /\ adding = [s \in Servers |-> {}]
  /\ writing = [s \in Servers |-> [t \in Threads |-> Nothing]]
  /\ search = [s \in Servers |-> {}]
  /\ count = [s \in Servers |-> {}]
  /\ due = [s \in Servers |-> {}]
  /\ told = [s \in Servers |-> {}]
  /\ offers = [c \in Clients |-> {}]
  /\ ips = [c \in Clients |-> [a \in Addresses \cup {0} |-> 0]]
  /\ extending = [c \in Clients |-> 0]
  /\ out = [m \in Machines |-> [t \in Threads |-> {}]]
  /\ net = [m \in Machines |-> [n \in Machines |-> <<>>]]
  /\ alive = Machines
  /\ typed = [m \in Machines |-> [op \in Commands |-> 0]]

-----------------------------------------------------------------------------
\* populate_frame
Frame(type, mac, ip, time) == [type |-> type, mac |-> mac, ip |-> ip, time |-> time]

\* Thread t of m is about to send f to the machines of S, one after the other.
SendTo(m, t, S, f) ==
  out' = [out EXCEPT ![m][t] = {[to |-> n, frame |-> f] : n \in S}]

Broadcast(m, t, f) == SendTo(m, t, Neighbours[m], f)

\* Thread t of m is not at work on a pool.
Free(m, t) == m \in Servers =>
  /\ writing[m][t] = Nothing
  /\ t = "main" => search[m] = {}
  /\ t = "cmd" => adding[m] = {} /\ count[m] = {}

SendFrame(m, t) ==
  /\ m \in alive
  /\ \E p \in out[m][t] :
       /\ out' = [out EXCEPT ![m][t] = @ \ {p}]
       /\ net' = [net EXCEPT ![p.to][m] = Append(@, p.frame)]
  /\ UNCHANGED <<server, client, alive, typed>>

\* The main thread of m takes the next frame from neighbour n: one of type T.
Receive(m, n, T) ==
  /\ m \in alive /\ Free(m, "main")
  /\ out[m]["main"] = {}
  /\ net[m][n] # <<>>
  /\ Head(net[m][n]).type \in T
  /\ net' = [net EXCEPT ![m][n] = Tail(@)]
  /\ UNCHANGED <<alive, typed>>

MayType(m, op) == \E w \in Workloads :
  /\ typed[m][op] < w[m][op]
  /\ \A n \in Machines, o \in Commands : typed[n][o] <= w[n][o]

\* A line is typed at m, whose command thread is done with the one before.
Type(m, op) ==
  /\ m \in alive /\ Free(m, "cmd")
  /\ out[m]["cmd"] = {}
  /\ m \in Servers => due[m] = {}
  /\ MayType(m, op)
  /\ typed' = [typed EXCEPT ![m][op] = @ + 1]
  /\ UNCHANGED <<net, alive>>

\* "invalid packet, dropped": a server has no handler for what servers send, nor
\* a client for a frame of its own that clients in a cycle have passed back to it.
Unhandled(m) ==
  IF m \in Servers THEN {"OFFER", "TIMEOUT", "RESPONSE_EXTEND"}
                   ELSE {"DISCOVER", "REQUEST", "RELEASE", "REQUEST_EXTEND"}

Drop(m, n) ==
  /\ Receive(m, n, Unhandled(m))
  /\ m \in Clients => Head(net[m][n]).mac = m
  /\ UNCHANGED <<server, client, out>>

-----------------------------------------------------------------------------
(* The table of a server, which both of its threads walk through and write. *)

\* Thread t of s is about to write the fields of order into the entry of a.
Write(s, t, a, to, order, answer) ==
  writing' = [writing EXCEPT ![s][t] =
    [ip |-> a, to |-> to, left |-> order, answer |-> answer]]

\* Thread t of s writes the next field.
WriteField(s, t) ==
  /\ s \in alive
  /\ writing[s][t] # Nothing
  /\ LET w == writing[s][t] IN
     /\ entry' = [entry EXCEPT ![s][w.ip][Head(w.left)] = w.to[Head(w.left)]]
     /\ writing' = [writing EXCEPT ![s][t] =
           IF Len(w.left) = 1 THEN Nothing ELSE [w EXCEPT !.left = Tail(@)]]
     /\ out' = IF Len(w.left) = 1 THEN [out EXCEPT ![s][t] = w.answer] ELSE out
  /\ UNCHANGED <<pool, adding, search, timing, client, net, alive, typed>>

\* The entry that comes after address at: none at the end.
After(s, at) == {a \in pool[s] : a > at /\ \A b \in pool[s] : b > at => a <= b}

-----------------------------------------------------------------------------
(* A server's main thread.                                                 *)

To(n, f) == {[to |-> n, frame |-> f]}

Granted(mac, waiting, ttl) ==
  [allocated |-> TRUE, waiting |-> waiting, mac |-> mac, ttl |-> ttl]

StartSearch(s, n, for, mac, time) ==
  search' = [search EXCEPT ![s] =
    {[for |-> for, mac |-> mac, time |-> time, back |-> n, at |-> 0]}]

HandleDiscover(s, n) ==
  /\ Receive(s, n, {"DISCOVER"})
  /\ LET f == Head(net[s][n]) IN StartSearch(s, n, "OFFER", f.mac, f.time)
  /\ UNCHANGED <<leases, adding, writing, timing, client, out>>

\* Whoever asks for an address of the pool gets it: neither the state of the
\* entry nor its mac is looked at.
HandleRequest(s, n) ==
  /\ Receive(s, n, {"REQUEST"})
  /\ LET f == Head(net[s][n]) IN
     \/ /\ f.ip \in pool[s]
        /\ Write(s, "main", f.ip, [entry[s][f.ip] EXCEPT !.waiting = FALSE, !.ttl = f.time],
                 <<"waiting", "ttl">>, To(n, Frame("ACK", f.mac, f.ip, f.time)))
     \/ /\ f.ip \notin pool[s] \/ adding[s] # {}
        /\ UNCHANGED writing
  /\ UNCHANGED <<leases, adding, search, timing, client, out>>

\* Another server's ACK: the first address that waits for its client's answer
\* is offered no longer.
HandleAck(s, n) ==
  /\ Receive(s, n, {"ACK"})
  /\ LET f == Head(net[s][n]) IN StartSearch(s, n, "ACK", f.mac, 0)
  /\ UNCHANGED <<leases, adding, writing, timing, client, out>>

\* Mutant: the mac stays in the entry.
HandleReleaseKeepsMac(s, n) ==
  /\ Receive(s, n, {"RELEASE"})
  /\ LET ip == Head(net[s][n]).ip IN
     \/ ip \in pool[s] /\ Write(s, "main", ip, FreeEntry, <<"ttl", "allocated", "waiting">>, {})
     \/ (ip \notin pool[s] \/ adding[s] # {}) /\ UNCHANGED writing
  /\ UNCHANGED <<leases, adding, search, timing, client, out>>

HandleRelease(s, n) ==
  /\ Receive(s, n, {"RELEASE"})
  /\ LET ip == Head(net[s][n]).ip IN
     \/ /\ ip \in pool[s]
        /\ Write(s, "main", ip, FreeEntry, <<"ttl", "allocated", "waiting", "mac">>, {})
     \/ (ip \notin pool[s] \/ adding[s] # {}) /\ UNCHANGED writing
  /\ UNCHANGED <<leases, adding, search, timing, client, out>>

\* The lease is given up and then a new one taken, of the smallest free address
\* and for the time that is left and the time asked for (10 when that is 0).
HandleRequestExtend(s, n) ==
  /\ Receive(s, n, {"REQUEST_EXTEND"})
  /\ LET f == Head(net[s][n])
         ttl == (entry[s][f.ip].ttl + (IF f.time = 0 THEN 10 ELSE f.time)) % TimeRange
     IN \/ /\ f.ip \in pool[s]
           /\ Write(s, "main", f.ip, FreeEntry, <<"ttl", "allocated", "waiting", "mac">>, {})
           /\ StartSearch(s, n, "RESPONSE_EXTEND", f.mac, ttl)
        \/ /\ f.ip \notin pool[s] \/ adding[s] # {}
           /\ UNCHANGED <<writing, search>>
  /\ UNCHANGED <<leases, adding, timing, client, out>>

\* Mutant: the mac is not compared.
FitsAnyMac(s, q, a) ==
  IF q.for = "ACK" THEN entry[s][a].waiting ELSE ~ entry[s][a].allocated

\* (The mac is read before is_waiting_for_accept.  That makes no difference:
\* advance_time, which alone could come between, clears the flag before the mac.)
Fits(s, q, a) ==
  IF q.for = "ACK" THEN entry[s][a].mac = q.mac /\ entry[s][a].waiting
                   ELSE ~ entry[s][a].allocated

\* The walk of s, which has come as far as q, reads entry a.
Reads(s, q, a) ==
  /\ s \in alive /\ writing[s]["main"] = Nothing
  /\ q \in search[s]
  /\ a \in After(s, q.at)

\* On to the next entry.  While add_to_pool inserts, the tree turns under the walk,
\* and an entry may be missed.
Pass(s) ==
  /\ \E q \in search[s], a \in pool[s] :
       /\ Reads(s, q, a)
       /\ ~ Fits(s, q, a) \/ adding[s] # {}
       /\ search' = [search EXCEPT ![s] = {[q EXCEPT !.at = a]}]
  /\ UNCHANGED <<leases, adding, writing, timing, client, out, net, alive, typed>>

\* Mutant: get_one_ip does not mark the address.
GrantUnmarked(s) ==
  /\ \E q \in search[s], a \in pool[s] :
       /\ Reads(s, q, a) /\ q.for # "ACK" /\ Fits(s, q, a)
       /\ Write(s, "main", a, Granted(q.mac, q.for = "OFFER", q.time),
                IF q.for = "OFFER" THEN <<"waiting", "ttl", "mac">>
                                   ELSE <<"ttl", "mac", "waiting">>,
                To(q.back, Frame(q.for, q.mac, a, q.time)))
  /\ search' = [search EXCEPT ![s] = {}]
  /\ UNCHANGED <<leases, adding, timing, client, out, net, alive, typed>>

\* get_one_ip takes the address.  (For an extension it marks it as waiting, and
\* handle_request_extend takes that back when the rest is written.)
Grant(s) ==
  /\ \E q \in search[s], a \in pool[s] :
       /\ Reads(s, q, a) /\ q.for # "ACK" /\ Fits(s, q, a)
       /\ Write(s, "main", a, Granted(q.mac, q.for = "OFFER", q.time),
                IF q.for = "OFFER" THEN <<"allocated", "waiting", "ttl", "mac">>
                                   ELSE <<"allocated", "ttl", "mac", "waiting">>,
                To(q.back, Frame(q.for, q.mac, a, q.time)))
  /\ search' = [search EXCEPT ![s] = {}]
  /\ UNCHANGED <<leases, adding, timing, client, out, net, alive, typed>>

Cancel(s) ==
  /\ \E q \in search[s], a \in pool[s] :
       /\ Reads(s, q, a) /\ q.for = "ACK" /\ Fits(s, q, a)
       /\ Write(s, "main", a, FreeEntry, <<"waiting", "allocated", "ttl", "mac">>, {})
  /\ search' = [search EXCEPT ![s] = {}]
  /\ UNCHANGED <<leases, adding, timing, client, out, net, alive, typed>>

\* The walk comes to the end: address 0 is offered when there is no free one.
\* (An extension whose walk has missed the address it gave up is sent that too,
\* if the process survives that find(0) finds nothing.)
GiveUp(s) ==
  /\ s \in alive /\ writing[s]["main"] = Nothing
  /\ \E q \in search[s] :
       /\ After(s, q.at) = {}
       /\ IF q.for = "ACK" THEN UNCHANGED out
          ELSE out' = [out EXCEPT ![s]["main"] = To(q.back, Frame(q.for, q.mac, 0, q.time))]
  /\ search' = [search EXCEPT ![s] = {}]
  /\ UNCHANGED <<leases, adding, writing, timing, client, net, alive, typed>>

-----------------------------------------------------------------------------
(* A server's command thread.                                              *)

AddToPool(s, block) ==
  /\ Type(s, "add_pool")
  /\ adding' = [adding EXCEPT ![s] = block]
  /\ UNCHANGED <<leases, writing, search, timing, client, out>>

\* The next address of the block, unless it is in the pool.
Insert(s) ==
  /\ s \in alive
  /\ \E a \in adding[s] :
       /\ \A b \in adding[s] : a <= b
       /\ pool' = [pool EXCEPT ![s] = @ \cup {a}]
       /\ adding' = [adding EXCEPT ![s] = @ \ {a}]
  /\ UNCHANGED <<entry, writing, search, timing, client, out, net, alive, typed>>

AdvanceTime(s, time) ==
  /\ Type(s, "add_time")
  /\ count' = [count EXCEPT ![s] = {[time |-> time, at |-> 0, reads |-> "allocated"]}]
  /\ UNCHANGED <<leases, adding, writing, search, due, told, client, out>>

\* The first loop of advance_time, which has come as far as k.
Counting(s, k) ==
  /\ s \in alive /\ writing[s]["cmd"] = Nothing
  /\ k \in count[s]
  /\ UNCHANGED <<leases, adding, search, told, client, out, net, alive, typed>>

CountNext(s) == \E k \in count[s] :
  /\ Counting(s, k) /\ k.reads = "allocated"
  /\ \/ \E a \in After(s, k.at) :
          count' = [count EXCEPT ![s] = {[k EXCEPT !.at = a,
             !.reads = IF entry[s][a].allocated THEN "ttl" ELSE "allocated"]}]
     \/ After(s, k.at) = {} /\ count' = [count EXCEPT ![s] = {}]
  /\ UNCHANGED <<writing, due>>

CountTtl(s) == \E k \in count[s] :
  /\ Counting(s, k) /\ k.reads = "ttl"
  /\ count' = [count EXCEPT ![s] =
        {[k EXCEPT !.reads = IF entry[s][k.at].ttl <= k.time THEN "late" ELSE "left"]}]
  /\ UNCHANGED <<writing, due>>

\* A lease that runs out is noted, with the time that is read by now.
CountLate(s) == \E k \in count[s] :
  /\ Counting(s, k) /\ k.reads = "late"
  /\ due' = [due EXCEPT ![s] = @ \cup {[ip |-> k.at, ttl |-> entry[s][k.at].ttl]}]
  /\ count' = [count EXCEPT ![s] = {[k EXCEPT !.reads = "allocated"]}]
  /\ UNCHANGED writing

\* The others run on, for what is left by now.
CountDown(s) == \E k \in count[s] :
  /\ Counting(s, k) /\ k.reads = "left"
  /\ Write(s, "cmd", k.at,
           [entry[s][k.at] EXCEPT !.ttl = (@ - k.time) % TimeRange], <<"ttl">>, {})
  /\ count' = [count EXCEPT ![s] = {[k EXCEPT !.reads = "allocated"]}]
  /\ UNCHANGED due

\* Second loop, in the order of the noted times: TIMEOUT to the mac the entry
\* has by now, and only then the entry is reset, whatever it has become.
TellTimeout(s) ==
  /\ s \in alive /\ Free(s, "cmd")
  /\ out[s]["cmd"] = {}
  /\ told[s] = {}
  /\ \E d \in due[s] :
       /\ \A x \in due[s] : d.ttl <= x.ttl
       /\ told' = [told EXCEPT ![s] = {d}]
       /\ Broadcast(s, "cmd", Frame("TIMEOUT", entry[s][d.ip].mac, d.ip, 0))
  /\ UNCHANGED <<leases, adding, writing, search, count, due, client, net, alive, typed>>

ResetLapsed(s) ==
  /\ s \in alive
  /\ out[s]["cmd"] = {}
  /\ \E d \in told[s] :
       /\ Write(s, "cmd", d.ip, FreeEntry, <<"waiting", "allocated", "ttl", "mac">>, {})
       /\ due' = [due EXCEPT ![s] = @ \ {d}]
  /\ told' = [told EXCEPT ![s] = {}]
  /\ UNCHANGED <<leases, adding, search, count, client, out, net, alive, typed>>

-----------------------------------------------------------------------------
(* A client's main thread.                                                 *)

\* Mutant: only what comes before a request is passed on.
RelayOffers(c, n) ==
  /\ Receive(c, n, Types)
  /\ Head(net[c][n]).mac # c
  /\ IF Head(net[c][n]).type \in {"DISCOVER", "OFFER"}
     THEN SendTo(c, "main", Neighbours[c] \ {n}, Head(net[c][n]))
     ELSE UNCHANGED out
  /\ UNCHANGED <<server, client>>

\* A frame of another client is passed on.
Relay(c, n) ==
  /\ Receive(c, n, Types)
  /\ Head(net[c][n]).mac # c
  /\ SendTo(c, "main", Neighbours[c] \ {n}, Head(net[c][n]))
  /\ UNCHANGED <<server, client>>

ReceiveMine(c, n, T) == Receive(c, n, T) /\ Head(net[c][n]).mac = c

HandleOffer(c, n) ==
  /\ ReceiveMine(c, n, {"OFFER"})
  /\ LET f == Head(net[c][n]) IN
     offers' = [offers EXCEPT ![c] = @ \cup {[ip |-> f.ip, time |-> f.time]}]
  /\ UNCHANGED <<server, ips, extending, out>>

\* The address is the client's, and the other servers are told.
HandleDhcpAck(c, n) ==
  /\ ReceiveMine(c, n, {"ACK"})
  /\ LET f == Head(net[c][n]) IN
     /\ offers' = [offers EXCEPT ![c] = {}]
     /\ ips' = [ips EXCEPT ![c][f.ip] = @ + 1]
     /\ SendTo(c, "main", Neighbours[c] \ {n}, f)
  /\ UNCHANGED <<server, extending>>

\* Mutant: what is not found is erased all the same.
WithoutUnchecked(a, bag) == [bag EXCEPT ![a] = @ - 1]

\* The client's vector ips without one a.
Without(a, bag) == [bag EXCEPT ![a] = IF @ > 0 THEN @ - 1 ELSE 0]

HandleTimeout(c, n) ==
  /\ ReceiveMine(c, n, {"TIMEOUT"})
  /\ ips' = [ips EXCEPT ![c] = Without(Head(net[c][n]).ip, @)]
  /\ UNCHANGED <<server, offers, extending, out>>

HandleResponseExtend(c, n) ==
  /\ ReceiveMine(c, n, {"RESPONSE_EXTEND"})
  /\ LET f == Head(net[c][n]) IN
     ips' = [ips EXCEPT ![c] = [Without(extending[c], ips[c]) EXCEPT ![f.ip] = @ + 1]]
  /\ UNCHANGED <<server, offers, extending, out>>

-----------------------------------------------------------------------------
(* A client's command thread.                                              *)

SendDiscover(c, time) ==
  /\ Type(c, "get_ip")
  /\ Broadcast(c, "cmd", Frame("DISCOVER", c, 0, time))
  /\ UNCHANGED <<server, client>>

\* "accept offer": an address that has been offered, for no longer than that.
SendRequest(c, ip, time) ==
  /\ \E o \in offers[c] : o.ip = ip /\ time <= o.time
  /\ Type(c, "accept")
  /\ Broadcast(c, "cmd", Frame("REQUEST", c, ip, time))
  /\ UNCHANGED <<server, client>>

SendRelease(c, ip) ==
  /\ ips[c][ip] > 0
  /\ Type(c, "release")
  /\ ips' = [ips EXCEPT ![c] = Without(ip, @)]
  /\ Broadcast(c, "cmd", Frame("RELEASE", c, ip, 0))
  /\ UNCHANGED <<server, offers, extending>>

SendRequestExtend(c, ip, time) ==
  /\ Type(c, "extend")
  /\ extending' = [extending EXCEPT ![c] = ip]
  /\ Broadcast(c, "cmd", Frame("REQUEST_EXTEND", c, ip, time))
  /\ UNCHANGED <<server, offers, ips>>

-----------------------------------------------------------------------------
\* The neighbours with a frame under way to m.
Senders(m) == {n \in Machines : net[m][n] # <<>>}

\* The command thread of a server inserts into the map that the main thread walks
\* through, or that of a client is in the vectors into which the main thread
\* inserts: one may follow a freed or a half-set pointer, and the process dies.
\* (Where a server survives, an entry may be missed: see Pass.  A client's vector
\* that lives on with an element lost or left over is not modelled.)
DataRace(m) ==
  /\ m \in alive
  /\ Senders(m) # {} \/ ~ Free(m, "main")
  /\ IF m \in Servers THEN adding[m] # {}
     ELSE \E op \in {"accept", "release"} : MayType(m, op)
  /\ alive' = alive \ {m}
  /\ UNCHANGED <<server, client, out, net, typed>>

Server(s) ==
  \/ \E n \in Senders(s) :
       \/ HandleDiscover(s, n) \/ HandleRequest(s, n) \/ HandleAck(s, n)
       \/ HandleRelease(s, n) \/ HandleRequestExtend(s, n) \/ Drop(s, n)
  \/ Pass(s) \/ Grant(s) \/ Cancel(s) \/ GiveUp(s) \/ WriteField(s, "main")

Client(c) == \E n \in Senders(c) :
  \/ Relay(c, n) \/ HandleOffer(c, n) \/ HandleDhcpAck(c, n) \/ HandleTimeout(c, n)
  \/ HandleResponseExtend(c, n) \/ Drop(c, n)

Command(s) ==
  \/ Insert(s) \/ CountNext(s) \/ CountTtl(s) \/ CountLate(s) \/ CountDown(s)
  \/ TellTimeout(s) \/ ResetLapsed(s) \/ WriteField(s, "cmd")

Operator(s) ==
  \/ \E block \in Blocks[s] : AddToPool(s, block)
  \/ \E time \in Times[s] : AdvanceTime(s, time)

User(c) ==
  \/ \E time \in Times[c] : SendDiscover(c, time)
  \/ \E ip \in Addresses \cup {0}, time \in Times[c] :
        SendRequest(c, ip, time) \/ SendRequestExtend(c, ip, time)
  \/ \E ip \in Addresses : SendRelease(c, ip)

Next ==
  \/ \E s \in Servers : Server(s) \/ Command(s) \/ Operator(s)
  \/ \E c \in Clients : Client(c) \/ User(c)
  \/ \E m \in Machines : DataRace(m) \/ \E t \in Threads : SendFrame(m, t)

Spec == Init /\ [][Next]_vars

\* The network goes on while some thread has something to do.  (Every thread
\* does; as the frames of one command are finitely many this is enough.)
Run(m) ==
  \/ m \in Servers /\ (Server(m) \/ Command(m))
  \/ m \in Clients /\ Client(m)
  \/ \E t \in Threads : SendFrame(m, t)

Fairness == WF_vars(\E m \in Machines : Run(m))

FairSpec == Spec /\ Fairness

-----------------------------------------------------------------------------
(* The table of a server agrees with itself in every order of grants,      *)
(* cancellations, releases and extensions: what waits for an answer is     *)
(* allocated, what is allocated has its client's mac and what is free has  *)
(* none (get_one_ip and the places that reset an entry).  It says so of    *)
(* what the main thread has finished, and of a server at which no time has *)
(* been added: advance_time may reset an entry while it is granted, and    *)
(* leaves one that is allocated to nobody.                                 *)
EntriesAreWhole ==
  \A s \in Servers, a \in Addresses :
    typed[s]["add_time"] = 0 /\ Free(s, "main") =>
      /\ entry[s][a].waiting => entry[s][a].allocated
      /\ entry[s][a].allocated <=> entry[s][a].mac # NoMac
      /\ entry[s][a].allocated => a \in pool[s]

\* So far no lease has been timed out, extended or released, and every client
\* has asked for one address at most.
Calm ==
  /\ \A m \in Machines, op \in {"add_time", "extend", "release"} : typed[m][op] = 0
  /\ \A c \in Clients : typed[c]["accept"] <= 1

Holds(c, a) == ips[c][a] > 0

Leased(a, c) == \E s \in Servers :
  /\ a \in pool[s]
  /\ entry[s][a].mac = c
  /\ ~ entry[s][a].waiting

\* What a client believes its server knows: an address in ips is the lease of
\* that client in some ip_pool.  handle_hdcp_request looks at neither state nor
\* mac, so it takes all that happens between offer and ACK to keep them right.
LeasesAreRecorded ==
  Calm => \A c \in Clients, a \in Addresses \cup {0} : Holds(c, a) => Leased(a, c)

\* No two clients hold one address, whatever offers, requests and cancelling
\* ACKs of several servers and clients cross each other (get_one_ip, handle_hdcp_ack).
LeasesAreExclusive ==
  Calm => \A c, d \in Clients, a \in Addresses \cup {0} :
             Holds(c, a) /\ Holds(d, a) => c = d

Asks(c) == \E p \in out[c]["cmd"] :
  p.frame.type = "REQUEST" /\ p.frame.ip \in Addresses

\* Who asks for an address gets one, over the clients in between (broadcast,
\* send_dhcp_request, handle_hdcp_request), as long as every machine runs.
RequestIsAnswered ==
  [](Calm /\ alive = Machines) =>
    \A c \in Clients : Asks(c) ~> \E a \in Addresses : Holds(c, a)

\* The design document says of handle_hdcp_request that it determines that the
\* address is fully assigned to the mac, and then tells it with an ACK.
AckedIsAssigned ==
  [][\A s \in Servers : \A p \in out'[s]["main"] \ out[s]["main"] :
        p.frame.type = "ACK" => entry'[s][p.frame.ip].mac = p.frame.mac]_vars
=============================================================================
