# Verification of the CE443 programming assignments

This directory holds TLA+ models of the programs in `PA0` … `PA3`, the TLC
configurations that check them on small instances, and proofs, checked by TLAPS,
of what they guarantee on every instance. All four are C++ programs for the
Partov network simulator (`PA0` for plain sockets); each of `PA1`–`PA3` carries
its own copy of the simulator's client framework in `base/`.

    tlc -config BgpSessionLive.cfg MCBgpSession.tla       # a run
    tlapm BgpSessionProofs.tla                            # the proofs of a module

## 1. The system

### The client framework (`PA*/base/cf.cpp`, 1000 lines, three copies)

One process is one machine of the simulated network. The main thread connects to
the simulation server, negotiates (`negotiations`), receives its interfaces, and
then runs `simulationEventLoop`: it takes a frame from the socket and calls
`processFrame` of the user's machine. A second thread runs the user's `run()`
(the commands typed). Both may send frames, walk, and change the addresses of an
interface (`sendFrame`, `walk`, `setIp`, `setMask`), and a mutex keeps these
commands apart. When the connection breaks `recoverSimulation` reconnects,
negotiates again and resumes; frames of that time are gone. Hard: the start of the
second thread and the wait for its `initialize()`; a socket replaced under other
threads' feet; errors that a socket reports to one caller only; an address that is
assigned after it has been announced; SIGINT on any thread.
Correct when: a connection carries one negotiation and then whole commands, no frame
is processed before the machine is ready, a recovery leads back to the same map
instance, the program has the addresses it has announced, nobody waits for ever.

The models of the assignments use of it: the two threads, the mutual exclusion of
single sends and of nothing else, channels that are FIFO per wire, and frames
lost while a client reconnects (`Lose` in `BgpSession`).

### PA3: BGP (`PA3/user/sm.cpp`, 1170 lines)

Two halves that share the class `SimulatedMachine` and meet in one place:
`advertiseAll` sends on the interfaces that are ESTABLISHED.

* *The session of an interface*: `interface_bgp_states`, two timers per interface,
  a mutex per interface (`thread_locks`), three threads (main, command, and one
  timer thread per interface). Commands: start connection. Frames: TCP SYN,
  SYN|ACK, ACK, OPEN, KEEPALIVE, NOTIFICATION. Hard: the handlers read the state
  without the lock, send, and lock only to write; the timer thread sends while
  it holds the lock; retries overlap with late answers.
  Correct when: no state waits without a timer, the ends climb the handshake in
  step, both ends get to ESTABLISHED, an expiry leads to a new attempt.
* *The routing tables of a machine*: `learned_routes`, `owned_prefixes`. Commands:
  advertise all, hijack, withdraw, priority, print routes. Frames: UPDATE
  (announcements or a withdrawal). Hard: the command and the main thread use the
  tables with no lock; an UPDATE is built in one step and leaves in a later one;
  export decisions are local, their effect is global.
  Correct when: stored paths are loop-free walks to a genuine origin, nobody
  carries traffic for free, routes are ranked as documented, withdrawn routes
  disappear, hijacks are announced.

### PA1: DHCP (`PA1/user`, 790 lines)

Servers keep `ip_pool` (state, mac and time of every address), clients keep
`offers`, `ips` and `extend_request_ip`. Commands of a server: add pool, add
time; of a client: get ip, accept offer, release, extend lease. Frames: DISCOVER,
OFFER, REQUEST, ACK, RELEASE, TIMEOUT, request and response of an extension.
Clients pass on what is not theirs, and pass on the ACKs that are theirs, which
is how the other servers hear that their offer is off. Hard: no lock at all
between the threads, so that one resets an entry while the other grants it; several servers and clients in one conversation; time that
lapses between an offer and its acceptance.
Correct when: a table agrees with itself, what a client holds is recorded at a
server, nobody else holds it, a request is answered.

### PA2: rendezvous server, NAT and peers (`PA2/user`, 1000 lines)

The server gives every peer an id and keeps its local and public address
(`peers_data[32]`, `current_id_index`); peers ask for each other's addresses,
open a local or public session (ping and pong) and send messages; a NAT between
them changes its mapping and says so (`NAT_UPDATED`), and answers what it does
not let through with DROP. Every machine routes what is not for itself. Hard: ids are five bits wide and never reused, a table
of 32 with no bound on its index, addresses that are stale when used, retries
after a DROP, ids asked for twice, two threads and one map with no lock.
`nat_machine.cpp` reads the operator's commands and keeps the blocked ports, but lets no
frame through; the NAT in use is a Java program that is in the repository as class files only.
Correct when: the id a client goes by is registered for it, the table has the
addresses under which clients can be reached, sessions are known to both sides,
a message reaches the peer it was typed for, whoever asks for an id gets one.

### PA0: chat (`PA0/server2.cpp`, 180 lines)

A console program that accepts or opens one TCP connection at a time and passes
lines through it, in one thread. It keeps `connected` and `global_sock`; its commands are
`connect`, `listen`, `send`, `recv` and `exit`. Hard: a call of `recv` returns what there is,
less or more than a line; `listen` opens another listener on the same port each
time and never closes one; a failed `connect` keeps its descriptor; a peer that has
left is noticed by reset or SIGPIPE only.
Correct when: a `recv` prints one line of the peer's, in order, and complete for who
sends the next one later; each end of a connection is held by the program it is for.

## 2. Modules

| module | models | proved about in |
| --- | --- | --- |
| `BgpHandshake` | what a BGP link promises: two ends that climb four rungs in step (abstract specification) | |
| `BgpSession` | the session half of `PA3/user/sm.cpp` | `BgpSessionProofs` |
| `BgpRoutes` | the routing half | `BgpRoutesProofs`, `BgpPairProofs` |
| `Dhcp` | servers and clients of `PA1/user` | `DhcpProofs` |
| `Rendezvous` | server and clients of `PA2/user`, with the NATs between them | `RendezvousProofs` |
| `Framework` | the client framework `base/cf.cpp`, and `base/interface.cpp` as far as it calls it | `FrameworkProofs` |
| `Chat` | `PA0/server2.cpp`, two or more programs and the TCP between them | `ChatProofs`, `ChatSocketsProofs` |
| `MCBgpSession`, `MCBgpRoutes`, `MCDhcp`, `MCRendezvous`, `MCFramework`, `MCChat` | the instances TLC checks | |

### BgpSession

An element of `Endpoints` is one interface. `state`, `retry` and `hold` are the
arrays of the code (a timer is `off`, `armed`, or `due` once its deadline lies
behind the timer thread's clock). `pc[e][t]` says where thread `t` stands in its
work for `e`; `net[e]` is the wire towards `e`. As the handlers read, send and
write in three steps, so does the model: `Dispatch` is the unlocked read with
all early returns of the handlers, `TcpReply`/`OpenReply`/`StartSend` the sends,
`EnterX` the locked writes. `handle_tcp_syn_frame` reads the state twice, for CONNECT and
for ACTIVE: `Dispatch` is the first read and `ReadAgain` the second, and the timer thread
may write in between. A critical section of the main or command thread is
one step, so the lock is visible only while the timer thread is inside its own
(`LockFree`). UPDATE frames never touch this state and are left to `BgpRoutes`.

`BgpSession` implements `BgpHandshake` (refinement `rung <- Rung`): an end counts
as having climbed from the moment it has sent the frame that announces it.

### BgpRoutes

A machine is its AS number, and `Interfaces[r]` its neighbours in interface
order. `known` are the keys of `learned_routes`, `learned` the routes,
`held` the keys whose vector has ever held a route: the hijack check reads route
`[0]` of an empty vector, which crashes the process or finds the remains of an
old route (`MayCrash`, `Remains`). Entries of an UPDATE and routes of a key are
sets here and vectors in the code; their order decides only which route is `[0]`,
so the model lets any route be compared. The main thread stores one path per
step (`Store`), takes a withdrawal in `ReceiveWithdrawal` (read a copy),
`WriteBack` and `PassOn`; the command thread builds an UPDATE (`BuildUpdate`) and
sends it (`SendUpdate`) interface by interface. `TablesRace` is the crash that
the unlocked maps and vectors allow; a process that lives on with a route lost, or one
read twice, is not modelled. `Score` is the arithmetic of
`printRoutesToPrefix` in exact integers, in two digits of base 10^9, for any priority,
negative ones included. The code adds in a double, which agrees with it up to a priority of nine
million either way (`Exact`). Its fourth summand uses
`path_vector[1]`, which is the neighbour itself and so never decides after the
interface has; the property is about the three criteria that do.

### Dhcp

A client is named by the mac its frames carry. `pool` and `entry` are `ip_pool`;
`offers` and `ips` the client's vectors (`ips[c][a]` counts how often `a` is in
it: the code pushes without looking). The threads of a server look at the
pool entry by entry and write an entry field by field, in the order of the source:
`search` is the walk of the main thread (`get_one_ip`, `handle_hdcp_ack`: `Pass`, `Grant`,
`Cancel`, `GiveUp`), `count` that of `advance_time` (`CountNext`, `CountTtl`, `CountLate`,
`CountDown`), `writing` what a thread has still to write (`WriteField`), and `adding` what
`add_to_pool` has still to insert. For each address that has run out `TellTimeout` sends
and `ResetLapsed` resets, whatever the entry has become. So a reset and a grant may mix in one entry.
The handlers of a client are one step on its vectors. The frames a handler sends wait in
`out[m][t]` and leave one by one (`SendFrame`). Times are unsigned and wrap (`TimeRange`). `DataRace` is again the
crash of unlocked containers. Where a server survives its walk may miss an entry (`Pass`);
a client's vector that lives on with an element lost or left over is not modelled, nor is
a mac of which two threads have written a part each: it is taken for none (`NoMac`). TIMEOUT frames are four bytes short in the code, which
cuts off a time the client does not read.

### Rendezvous

`slot` and `current_id_index` are the server's, `my_id`, `local_port` and
`peers_data` the client's (`peers_data[c][i].known`: `i` is a key of `c`'s map; an
entry that `operator[]` makes has the address `0.0.0.0:0`). A handler is one step,
and its frame leaves in a later one (`SendFrame` from `out[c][t]`); the server has
one thread and sends at once. The names on the wire are those of the code, with
what it confuses left confused: request, answer and DROP of an id have one code,
so a DROP that gets to the server takes an id; an id of -1 fills the bits of the
type, so a PING before the client has an id arrives as the answer to a
"status" (`ToPeer`); the 32nd registration overwrites the index itself and
the process dies. The threads of a client share its map without a lock. The command thread
reads the port of an address and then the ip, and may get one of them from before an
answer and the other from after it (`Readings`); it writes the flags that a ping sets, too, and each
is as one of the two leaves it (`MakesSession`). `DataRace` is the crash. An entry that is
only being made counts as not there, and a `local_port` that both threads set as
set by one of them first.

The NATs are external. `mapping`, `punched`, `next_port` and `blocked` are what
the clients' handlers and the test scripts presuppose: an inside address gets a
public port, who has been sent to may answer, the rest is answered with DROP from
port 4321, a blocked port with DROP from port 1234; a reset is announced with
`NAT_UPDATED` and gives ports from the base on that the operator types: any base
(`nat_machine.cpp:145`), so that a port may be given a second time. Ports go on from the
last to the first (`PortAfter`). `astray` records the NATs that have gone back to ports
they had given, and the clients that have sent to half an address and half another; no step
depends on it. A frame between machines of one
lan does not pass the NAT. A client or the server may route for clients behind it
(`relay`, `RouteFrame`): what is not for itself it sends on, in its main thread. The ttl
of 64 is left out, as no path of such machines is near that long. Three
assumptions are about the network: no two machines at one place, a lan or the outside, have
one ip (`IpAssumption`; machines of different lans may), nobody is behind two who route
(`RelayAssumption`), and a wire keeps the order of its frames.

### Framework

`at` says where each thread stands; `stage` which request of the negotiation
(`Requests`) the main thread is at, and `resuming` that it is in
`recoverSimulation`, which skips two of them and holds `mutex` until the
simulation is resumed. `streams[k]` is what has been written to the `k`-th
connection; whether a server that goes away still reads the end of it is not
known to the program, nor said by the model. A thread's call is `call[t]`: a frame is two
writes, header and data, a walk or a changed address is one, and `send` may take
each in several parts (`Write`). `setIp` and `setMask` skip what would change
nothing (`SetAddress`), announce the address under the mutex, and assign it
afterwards without (`Assign`). No program of the repository calls them, nor `walk`; they are
the framework's interface, so any thread may. The wait for `initialized` is one step of checking
(`AwaitInitialization`), sleep, and a wake-up by `Signal` or for no reason
(`WakeUp`). Sockets are external and behave as on Linux: an error is reported to one
call (`reset`), after which `recv` returns 0 and `send` raises SIGPIPE (`dead`); `recv`
= 0 leads to `systemInterrupt` and the end. After `destroy()` the other
threads use freed memory until `exit` is done, and the mutex and condition it destroys may be in use
(`cf.cpp:63-64`), on which it may hang; the connection is closed and the
simulation over, and that is where the model stops. The
server is external: it answers, refuses, disconnects, and has an instance of the
map per `--new` (`maps`). `Init` takes any of `CommandLines` and reads it as
`parseArguments` does (`IsUsed`): all modes are initial states, and so are the
ends that a redundant, missing or unknown option leads to.

### Chat

A connection has two ends; `conns[c].got[e]` is what is under way to end `e` or waits
there, in pieces of lines. `queues[p][k]` is the backlog of the `k`-th listener of `p`;
`Accept` looks at the newest only, while `Connect` may land at any. `RecvChunk` is one
round of the loop in `recv`: a call that takes any number of pieces up to `Chunk`, of which
what follows the first newline is dropped (`Printed`). The sockets are external:
closing an end with unread data resets the other one, a reset may overtake
data (`Lose`), writing to a closed end is answered by a reset, and after that by
SIGPIPE (`Send`). `sent`, `heard` and `crowded` record what a user sees; no step
depends on them. A command that answers "invalid command" changes nothing and is left out.

## 3. Runs

| run | question | states |
| --- | --- | --- |
| `session_climb` | no expiry, one frame lost, a start command at each end: refinement of `BgpHandshake`, mutual establishment | about 140 000 |
| `session_live` | one hold timer runs out, and the end it notifies is given a second start command: timers, lock discipline; liveness: both establish, a notified end reconnects | about 78 000 |
| `session_open_confirm` | finding: OPEN_CONFIRM reached from IDLE | |
| `routes` | two stories: ASes 2, 3 (peers) and 4 (customer of both) advertise, one hijacks, one changes a priority; ASes 0 and 1 on a wire advertise and withdraw while a session flaps. Simple walks, no free transit, genuine origins, ranking, no ghost routes, indices | about 466 000 |
| `routes_ghost` | finding: with a third AS in the row a withdrawn route comes back | |
| `routes_hijack` | finding: two origins stored, no hijack announced | |
| `dhcp_row` | two servers and three clients in a row: tables, recorded and exclusive leases, answered requests | about 128 000 |
| `dhcp_late` | finding: an address is acknowledged that the table has as free | |
| `rendezvous` | six stories of clients behind two NATs and outside: ids, table, sessions, messages; everyone gets an id, the table follows the NATs | about 62 000 |
| `framework` | one process in all modes, its connection broken, closed, refused, SIGINT: whole commands, announced addresses, start-up, recovery, liveness | about 101 000 |
| `chat` | two programs, three stories: lines kept, every open end has its holder, every socket its use | about 45 000 |
| `rendezvous_placeholder` | finding: a message is sent to `0.0.0.0:0` | |

*Bounds.* `MaxStarts`, `MaxExpiries`, `MaxLosses` and `Workloads` bound what users
type, what time does (in `BgpRoutes` also a session that goes down and up again, the
event `flap`) and what the network loses; `Named` are the prefixes they name.
They are functions of the end in `BgpSession`.
In `session_climb` no hold timer runs out, so that no NOTIFICATION is sent and
`startConnection` runs in the command thread only; a loss, and two frames on a wire, make
handshakes overlap and start over. In `session_live` the hold timer of one end runs out; the other,
which is notified, has a second start command left, so that its command thread and its
main thread meet in `startConnection`. In `session_open_confirm` either hold timer may
run out. The proofs are for all bounds. `MaxFlight`
keeps the retry timer from filling the wire: a deadline passes only while fewer
frames are under way; with `MaxFlight = 2` (`session_climb`) a retry overlaps a SYN that
is still on the wire, with 1 (`session_live`) one that has been taken and not been
answered. The priorities of `routes` are an ordinary one and the two ends of the range
in which the score is exact. The triangle is the smallest topology with a cycle, a peering
and two providers of one customer; every other property of the topology in
`fill_interface_info` is covered by the proofs, which are for all topologies.
`dhcp_row` gives each server one address, so that clients compete for it and its two threads
for the entry, puts a
client between two servers and another client behind it; its `Workloads` are four
stories of which one is typed at a time. A smaller free address being found by
an extension does not occur there (one address per pool), nor does a client's own
frame come back to it to be dropped, which takes a ring of clients; the proofs
cover both.
`rendezvous` has two clients behind one NAT, of which one routes for the other, one
behind another NAT, and one outside behind the server, and six stories: `BlockedPort` (retries after a DROP, an id asked for twice),
`ChangedPorts` (a reset under way), `HolePunching` (a public session through both
NATs), `LocalSession`, `ReusedPorts` (a NAT starts over from its first port while
its clients register) and `HalfAddress` (a session is made while the address of the peer comes in). The table has 4 entries (three ids), ports are
modulo 8 and a retry adds 2 to port 7, so that it wraps.
`framework` has the main thread, the thread of `run()` and one timer, one frame received,
one reset and one other fault: a reset during a recovery needs both; a frame of 3
parts and another command of 2 can be cut at every boundary. Its `Workloads` are three
stories: each thread sends a frame; `run()` changes an address twice while
`processFrame` walks; `run()` changes the address of an interface and the timer its mask.
`chat` has lines of one to three pieces and reads of at most three, so that a read ends in
the middle of a line, at its end, or in the next one; a backlog that two callers
fill; three descriptors, which the second story uses up.

*Deadlock* is not an error in any run: when the bounds are used up nothing is left to do.

*Fairness.* `BgpSession`: strong fairness for the main and command threads,
because both wait for a mutex that the timer thread takes every second and
releases while it sleeps, weak fairness for the timer thread and for time.
`Dhcp`: weak fairness of "some thread of some machine does something", less than
the scheduler gives, and enough because the frames of a command in a row are
finitely many. `Rendezvous`: weak fairness of "some process has a frame to take
or to send", for the same reason. `Framework`: weak fairness of the main thread (which stands
for the server's answers, too), of writes and of the end of the process, strong
fairness for who competes for the mutex; no fairness of breaks, spurious wake-ups or
new sends. Nobody has to type a command. `BgpRoutes` states no liveness.

## 4. What the runs show

* `WaitsAreTimed`, `TimerFindsItsState`: in spite of the unlocked reads the timers
  stay right, and the mutex does its work for the timer thread.
* `ClimbsInStep`, `EstablishedIsMutual`: as long as no hold timer runs out, the
  handshake is sound under overlap, repetition and loss. With expiries it is
  not: see the finding.
* `BothEstablish`, `NotifiedReconnects`: the retry timer is what makes the start
  commands' order irrelevant. `BothEstablish` is stated for handshakes in which no write of CONNECT falls
  between the two reads of a segment: otherwise an ACK can be dropped, the peer
  stays in OPEN, where it drops every SYN, and this end repeats its SYN in vain, until a hold
  timer runs out at the peer.
* `RoutesAreSimpleWalks`, `NoFreeTransit`, `OriginsAreGenuine`: hold in
  all orders of the threads' steps. `PrintedByPreference`: the weights never spill over for
  priorities of at most nine million either way, where the double that holds the score is
  exact. `std::stoi` reads larger ones, and of their routes the property says nothing.
* `NoGhostRoutes`: holds on one wire that loses nothing, where every frame to the other machine follows
  the command order, and fails in a row of three (finding).
* `EntriesAreWhole`: the server's table agrees with itself in every order of
  grants, cancellations, releases and extensions, whenever the main thread is done with a frame.
  It is stated of servers at which no time has been added: a reset by `advance_time`
  whose fields fall between those of a grant leaves an entry that is allocated to
  nobody, and the process goes on.
* `LeasesAreRecorded`, `LeasesAreExclusive`: until a lease lapses, is extended or
  released, what a client holds is its own and recorded, although
  `handle_hdcp_request` checks neither state nor mac.
* `RequestIsAnswered`: passing on works in both directions, over wires that lose nothing.
* `IdsAreOwned`: although an answer is taken without asking what it answers, and a
  second request overtakes the first, the id a client goes by is always one the
  server has for it. `MessagesReachTheirPeer`: stale addresses lose messages but
  never deliver them to somebody else. `SessionsAreKnownToBoth`: a ping leaves an
  entry before it is answered.
  All three have a premise (`Regular`) that the code does not guarantee: an address stands for
  one machine. They fail where two lans use one private ip (a late pong can turn a session to a
  stranger), where a NAT gives a port a second time (an answer with an id, or a
  message, reaches whoever has the port now), and where a client reads the port of one
  address and the ip of another. The last two occur in the run.
* `EveryoneGetsAnId`: the retry from another port ends. `TableFollowsTheNats`: after
  resets the server has the current addresses, for a client that has one id and whose
  entry has a port (see below), while addresses stand for one machine.
* `StreamsAreWellFormed`: the mutex around the two writes of a frame and around the
  whole recovery keeps every connection readable for the server. One exception is
  in the property: when a recovery is given up, the mutex is free and the
  socket open for a moment, and a frame can go where a request is expected.
* `FramesFindTheMachine`, `EventLoopStarts`: signalling after the unlock is harmless,
  and the `while` is what makes it so.
* `AddressesAgree`: unless two threads change one address, the program has the address
  it told the server last, whichever write fails and however often the process
  reconnects. What was told is what was handed to `send` whole; bytes that are lost with
  the connection count as told.
* `OneMapPerProcess`: `--new` is meant once. `SendFrameReturns`: the recovery gives the
  mutex back on every path. `ResetIsRecovered` needs that nobody sends in between: a
  send may take the error, and the main thread then exits; or SIGPIPE ends the process.
* `LinesAreKept`: the loop of `recv` never runs two lines together or goes back, and
  whoever waits for a line to be taken before sending the next loses nothing. Who does
  not wait may lose lines, or the beginning of one.
* `NoSessionIsLost`: refusals, repeated listens and programs that end leave no open
  end of a connection that nobody holds. One that waits at an old listener is held by it,
  although nobody accepts it any more.
* `SocketsAreCounted`: a process has open its session, its listeners and one socket for each
  connect that was refused: the leak of `connect` is the only one, and sessions leave nothing behind.

Each property has a mutant of the modelled code, next to the definition it
mutates (`…Unlocked`, `…AnyMac`), under which its run fails.

### Findings (violated documentation)

1. `handle_open_frame` tests the state before it takes the lock; an expiry in
   between turns IDLE into OPEN_CONFIRM (`session_open_confirm`).
2. An UPDATE built before a withdrawal leaves after it; the withdrawn route stays
   with the neighbour for good (`routes_ghost`).
3. An owner does not check announcements of its own prefix and passes the
   hijacker's path on beside its own (`routes_hijack`).
4. A REQUEST for an address whose offer has lapsed is acknowledged, and the entry
   stays free (`dhcp_late`).
5. `send_message` is said to send to the id typed; for a key that a first, failing
   `message` has put in the map, a ping of that peer makes the session ready and the next
   message goes to `0.0.0.0:0` (`rendezvous_placeholder`).

Seen and not stated as properties, because no document says otherwise: withdrawals
(PA3) and foreign frames (PA1) circulate for ever in a cycle; routes outlive the
session they were learned on; a stale route `[0]` raises false hijack alarms;
`packet[54]` is written one past its end when a hold timer expires; a
second extension typed before the answer to the first makes a client forget the
wrong address; an answer to `NAT_UPDATED` built before the client has a port and
sent after its request puts port 0 in the server's table; of a client with two ids
only the entry of the first is updated; the 32nd id crashes the server; if two NATs use
the same private addresses a late pong can turn a session to a stranger in the own lan; two
threads that change one address of an interface may leave the program with the one and the
server with the other, and a recovery does not compare them; a chat connection may land at
an old listener, where it waits for ever; at the end of its input the chat program repeats its
last command, and a `send` without a text takes the next line for it.

## 5. Proofs

All constants are arbitrary, restricted by the assumptions in the modules: wires
connect interfaces in pairs (`PeerAssumption`); neighbours are distinct
(`TopologyAssumption`); servers and clients are different machines and no address
is in two servers' pools (`MachinesAssumption`, `BlocksAssumption` of `Dhcp`); the
clients of the rendezvous server are finitely many and ips are unique within a lan
(`MachinesAssumption`, `RelayAssumption`, `IpAssumption`); priorities are any integers; a frame is longer than its
header and nothing that is sent or read is empty (`SizesAssumption` of `Framework`
and `Chat`). Every safety property of a passing run is a theorem; four of them under a hypothesis that is
part of the theorem: `PrintedByPreference` and `NoGhostRoutes` on the network,
`EstablishedIsMutual` and `ClimbsInStep` on the hold timers.

* **BgpSession.** `TypeCorrect`, with each thread in its own code (`OwnPlaces`). `Timed` and `TimerFinds`: `WaitsAreTimed` and
  `TimerFindsItsState` are inductive together with the types (`TimedInv`): the
  timer thread holds the lock between its frame and its write, and every other
  write arms the timer of the state it enters. `MutualEstablishment` and
  `ImplementsHandshake` assume `NoExpiries`: no hold timer runs out; their inductive invariant is
  `ClimbInv == TypeOK /\ Quiet /\ Placed /\ Backed`: no NOTIFICATION is about
  (`Quiet`), the main thread's position fits the state it read (`Placed`), and a
  frame under way is backed by the rung its sender has reached (`Backed`). The
  last is what makes it inductive: the state of the peer is known to an end only
  through the frames between them.
* **BgpRoutes.** `RoutesInv` says of every place a route can be (table, message
  under way, entries being stored, copy being filtered, UPDATE being sent) what
  the properties say of the table; `TypeCorrect`, `SimpleWalks`,
  `NoTransitForFree` and `GenuineOrigins` follow. The path of an announcement
  under way starts at its sender and is fit for export to its receiver; that is
  the local fact from which `NoFreeTransit` composes along paths of any length.
  `PrintedInOrder` assumes AS numbers below 1000 (`ThreeDigits`; the code's weights
  presuppose it, and its own network has six): a path is a simple walk and so has no
  more than 1000 machines, nor has a machine more interfaces, and with that the lower
  summands of the score never outweigh one unit of the higher. It is tight: the
  margin between two lengths is 1. Priorities may be negative; the property itself is about
  those for which the double is exact.
  `NoGhostsInPairs` (module `BgpPairProofs`) assumes that the network consists of
  pairs of machines (`Pairs`); `PairsForget` is the same of one pair in any network.
  `PairOk` follows the withdrawal through four stages (`Gone`): ready to be sent;
  in the channel with nothing behind it that tells of the prefix; being handled, with
  no route kept; handled, and no route left or to come. A route that n still has leads
  through r, so what n exports after its withdrawal is skipped (`ExportIsStale`).
  With a third machine that last fact is lost, and finding 2 is the consequence.
* **Dhcp.** `TypeCorrect`; the others from `LeaseInv == TablesWhole /\ Formed /\ CalmInv`.
  At a server at which no time has been added, every entry is whole but the one being
  written, which will be: what is written of it and what is left agree (`TablesWhole`,
  for `EntriesWhole`). Only a TIMEOUT may carry no client's mac (`Formed`). `Recorded` and
  `Exclusive` follow from `CalmInv`: until a client accepts, what it is offered is reserved for it
  (`OffersStand`); after that everything under way for it is about one address,
  reserved for it, and its lease once an ACK exists (`RequestsStand`); so it is of the entries
  that the main thread searches for and writes (`TablesStand`). The ACK
  passed on to the other servers frees only what still waits, and of the
  client's own lease nothing waits.
* **Framework.** `TypeCorrect`, `FramesFindTheMachineAlways` and
  `OneMapPerProcessAlways` from `IndInv`: each kind of thread has its places
  (`PlacesInv`); interfaces, `initialized` and the server's maps follow the place of
  the main thread (`StartInv`, `MapInv`); who has sent part of a frame, or recovers,
  has the mutex (`MutexInv`); and the last stream is what the stage of the
  negotiation says (`ConnectionInv`). `StreamsAreWellFormedAlways` adds that a stream
  ends inside a command only if its sender is still at it, on that very connection
  (`CommandInv`). `AddressesAgreeAlways` adds that a thread between its announcement
  and its assignment still has in hand what it announced (`AnnouncedInv`).
* **Rendezvous.** `TypeCorrect`, `IdsAreOwnedAlways`, `MessagesReachTheirPeerAlways`
  and `SessionsAreKnownToBothAlways` from one invariant, `Inv == TypeOK /\ (Regular => IndInv)`:
  types hold whatever the addresses are, the rest while an address stands for one machine, and
  what is not `Regular` never becomes so again (`StaysRegular`). The idea of `IndInv` is that an
  address `Leads` to a client: what is sent there, now or after any changes of any NAT,
  comes to that client or to nobody. This stays true as long as a NAT gives ports from
  `next_port` on and none twice (`LeadsKept`). Every address that is kept or under way
  under an id then leads to the client registered for the id (`SlotInv`, `PeerInv`,
  `NetInv`, `OutInv`); so answers come to who asked, and messages to who is meant or to
  nobody. A frame is checked as it is written, and again where a NAT rewrites it
  (`GoesOutBy`, `LetsIn`).
* **Chat.** `TypeCorrect`; `NoSessionIsLostAlways` from `SessionInv`: sockets, the
  backlogs of listeners and the holders of open ends account for each other.
  `SocketsAreCountedAlways` (module `ChatSocketsProofs`) is inductive with these: every step
  that opens or closes a socket is followed in the number of connections made (`Made`).
  `LinesAreKeptAlways` from `StreamsInv`, of each end of a connection: what waits there
  goes through lines that were sent, in their order and without gaps (`Ordered`); it goes on
  where the last `recv` stopped (`GoesOn`); while two lines were never there at once,
  all that were sent are heard or wait (`Calm`); and what was heard is in parts of one
  line each (`Kept`).

TLC has checked each of these invariants on the instances above.

## 6. Only model-checked

Liveness (`BothEstablish`, `NotifiedReconnects`, `RequestIsAnswered`,
`EveryoneGetsAnId`, `TableFollowsTheNats`, `EventLoopStarts`, `SendFrameReturns`,
`ResetIsRecovered`): the prover does not handle fairness. With it the premises of
`BothEstablish` (`ReadsAreUndisturbed`) and `TableFollowsTheNats` (`Regular`). That `ThreeDigits` cannot
be dropped from `PrintedInOrder` is arithmetic; that `Pairs` cannot be dropped from
`NoGhostsInPairs` is what the run `routes_ghost` shows. `BgpSession` with expiries has
no theorem about mutual establishment, because it does not hold there (finding 1).

## 7. Plan

1. Safety cores of the liveness properties, as theorems: what `TableFollowsTheNats`
   says of a quiet state; that a recovery that has begun can only end in the loop
   or in the end of the process.
2. What holds of a BGP link with expiries: that an end in OPEN_CONFIRM or ESTABLISHED
   has taken an OPEN of its peer.
3. Partial orders of `BgpRoutes` in trees: which networks beyond pairs forget a
   prefix, if UPDATEs were built and sent in one step.
4. An abstract specification of a link that `Framework` and the wires of `BgpSession`
   implement.

## 8. Not modelled

The text of addresses, numbers and typed commands; the bytes of frames, checksums,
printing, counters that are only printed; the inside of the Java NAT (class files only);
the unused keep-alive timer of PA3; failures of `setsockopt`, `bind` and `inet_pton` in
PA0, which end the program as that of `socket` does; memory errors other than the races
and the empty-vector read above (`packet[54]` in PA3 among them: the byte behind it is
the build's business, and the receiver never reads it).
