----------------------------- MODULE Framework -----------------------------
(***************************************************************************)
(* The client framework of PA1, PA2 and PA3 (base/cf.cpp): one process,    *)
(* its connection to the simulation server, the main thread that           *)
(* negotiates, takes frames and recovers a broken connection, and the      *)
(* threads that send.                                                      *)
(*                                                                         *)
(* The server, the user's machine and the sockets are programs outside of  *)
(* base/: they are modelled by what the framework sees of them.            *)
(***************************************************************************)
EXTENDS Integers, Sequences, SequencesExt

CONSTANTS Main,
          Run,           \* the thread that simulateMachine starts
          Timers,        \* the threads the machine's initialize() starts
          Nobody,
          Interfaces,    \* the interfaces of the node: at least one
          Ipu,           \* the instances of a map that a user may have
          HeaderSize, FrameSize,  \* what a frame takes on the wire, header included
          CommandSize,   \* what another command takes
          Addresses,     \* ip addresses and masks
          Original,      \* the one the server gives an interface
          Settable,      \* bound: the interfaces whose addresses are changed
          CommandLines,  \* the options of the command lines, in their order; "other"
                         \* is unknown, or one whose value is none or missing
          Workloads,     \* bound: t makes call k w[t][k] times at most, for some
                         \* w of this set
          MaxReceived,   \* bound: frames the server sends
          MaxResets,     \* bound: connections that break
          MaxFaults      \* bound: refusals, disconnections, nonsense, signals

Users   == {Run} \cup Timers
Threads == {Main} \cup Users

\* What the user's threads call: sendFrame, walk, setIp and setMask.
Changes == {"ip", "mask"}
Calls   == {"frame", "walk"} \cup Changes

ASSUME ThreadsAssumption == Main # Run /\ {Main, Run} \cap Timers = {} /\ Nobody \notin Threads
ASSUME SizesAssumption ==
  /\ Interfaces \in Nat \ {0} /\ Ipu \in Nat \ {0}
  /\ HeaderSize \in Nat \ {0} /\ FrameSize \in Nat /\ HeaderSize < FrameSize
  /\ CommandSize \in Nat \ {0}
ASSUME CallsAssumption ==
  /\ Original \in Addresses /\ Settable \subseteq 1 .. Interfaces
  /\ Workloads \subseteq [Threads -> [Calls -> Nat]]

\* What is read of a command line: all up to the arguments of the user's program.
OptionsRead(options) ==
  LET own == SelectInSeq(options, LAMBDA o : o = "args")
  IN IF own = 0 THEN options ELSE SubSeq(options, 1, own)

NeedNewMaps == [id |-> 0, new |-> 1, free |-> -1]

\* Every option once, "--id", "--new" and "--free" being one of them; all but the
\* name of the node and the arguments of the user's program are mandatory.
Redundant(o, p) == o = p \/ {o, p} \subseteq DOMAIN NeedNewMaps
IsUsed(options) ==
  LET read == OptionsRead(options) IN
  /\ ~ Contains(read, "other")
  /\ \A i, j \in DOMAIN read : i # j => ~ Redundant(read[i], read[j])
  /\ \A o \in {"ip", "port", "map", "user", "pass", "id"} :
       \E i \in DOMAIN read : Redundant(read[i], o)

\* What is asked of the server, in order: at the start, and when it is resumed.
Requests(again) ==
  IF again THEN <<"sign_in", "map", "node", "start">>
  ELSE <<"sign_in", "map", "node", "interfaces", "custom", "start">>

\* A connection's "reset" is an error that no call has returned yet; after one
\* has, the connection is "dead".  It is "closed" when the server has closed it.
Lines == {"none", "up", "reset", "dead", "closed"}

Places == {"connect", "ask", "hear", "read", "create", "await", "asleep", "loop",
           "process", "recover", "unborn", "initialize", "signal", "run",
           "lock", "send", "assign", "interrupted"}

\* A call and its arguments, where they matter.
CallRecords == [what : Calls, iface : 0 .. Interfaces, address : Addresses]
Plain(what) == [what |-> what, iface |-> 0, address |-> Original]

Size(what) == IF what = "frame" THEN FrameSize ELSE CommandSize

\* Pieces of what is written to the server: requests, and the parts of commands.
Pieces ==
  [what : Calls \cup {Requests(FALSE)[i] : i \in 1 .. 6}, iface : 0 .. Interfaces,
   address : Addresses, by : Threads, number : Nat, part : Nat]
Request(r) ==
  [what |-> r, iface |-> 0, address |-> Original, by |-> Main, number |-> 0, part |-> 0]

VARIABLES at,           \* where each thread is
          mutex,        \* who holds the mutex
          initialized,
          needNewMap, nodeName,   \* from the arguments (nodeName: one was given)
          stage,        \* the request the main thread is at
          resuming,     \* it is in recoverSimulation
          line,         \* the state of the connection sfd
          streams,      \* what has been written to each connection so far
          ready,        \* the interfaces of machine that are initialised
          addresses,    \* ip and mask of the interfaces, as the program sees them
          calls,        \* the calls each thread has begun
          call,         \* the last of them
          part,         \* the parts of its command each thread has sent
          maps,         \* at the server: the creator's instances of the map
          over,         \* the process has ended
          received, resets, faults

args   == <<needNewMap, nodeName>>
bounds == <<received, resets, faults>>
user   == <<addresses, calls, call>>
vars   == <<at, mutex, initialized, args, stage, resuming, line, streams, ready,
            user, part, maps, over, bounds>>

TypeOK ==
  /\ at \in [Threads -> Places]
  /\ mutex \in Threads \cup {Nobody}
  /\ initialized \in BOOLEAN /\ nodeName \in BOOLEAN /\ resuming \in BOOLEAN /\ over \in BOOLEAN
  /\ needNewMap \in {-1, 0, 1}
  /\ stage \in 1 .. 6
  /\ line \in Lines
  /\ streams \in Seq(Seq(Pieces))
  /\ ready \in 0 .. Interfaces
  /\ addresses \in [1 .. Interfaces -> [Changes -> Addresses]]
  /\ calls \in [Threads -> [Calls -> Nat]]
  /\ call \in [Threads -> CallRecords]
  /\ \A t \in Threads : part[t] \in 0 .. Size(call[t].what)
  /\ maps \in 0 .. Ipu
  /\ received \in Nat /\ resets \in Nat /\ faults \in Nat

\* After a command line with a mistake usage() ends the program; "--id" and "--free"
\* are for a map that exists.
Init ==
  /\ at = [t \in Threads |-> IF t = Main THEN "connect" ELSE "unborn"]
  /\ mutex = Nobody
  /\ initialized = FALSE
  /\ \E options \in CommandLines :
       /\ over = ~ IsUsed(options)
       /\ nodeName = Contains(OptionsRead(options), "node")
       /\ IF over THEN needNewMap = 0
          ELSE \E o \in ToSet(OptionsRead(options)) \cap DOMAIN NeedNewMaps :
                 needNewMap = NeedNewMaps[o]
  /\ stage = 1 /\ resuming = FALSE
  /\ line = "none" /\ streams = <<>>
  /\ ready = 0
  /\ addresses = [i \in 1 .. Interfaces |-> [f \in Changes |-> Original]]
  /\ calls = [t \in Threads |-> [k \in Calls |-> 0]]
  /\ call = [t \in Threads |-> Plain("frame")] /\ part = [t \in Threads |-> 0]
  /\ maps = IF needNewMap = 1 THEN 0 ELSE 1
  /\ received = 0 /\ resets = 0 /\ faults = 0

-----------------------------------------------------------------------------
(* Threads, calls that fail, and the end of the process.                   *)

Step(t, from, to) == ~ over /\ at[t] = from /\ at' = [at EXCEPT ![t] = to]

\* Something goes wrong, for once.
Fault == faults < MaxFaults /\ faults' = faults + 1 /\ UNCHANGED <<received, resets>>

\* A negotiation returns false: the program ends, or recoverSimulation lets go
\* of the mutex and startSimulation goes on to systemInterrupt.
Fails ==
  IF resuming
  THEN /\ at' = [at EXCEPT ![Main] = "interrupted"]
       /\ mutex' = Nobody
       /\ UNCHANGED over
  ELSE over' = TRUE /\ UNCHANGED <<at, mutex>>

\* The end of systemInterrupt: destroy() closes the connection and frees what
\* all threads use.  Whether the process exits or crashes, it is over.
Destroy(t) ==
  /\ ~ over /\ at[t] = "interrupted"
  /\ over' = TRUE
  /\ line' = "none"
  /\ UNCHANGED <<at, mutex, initialized, args, stage, resuming, streams, ready, user, part, maps, bounds>>

\* SIGINT, on whichever thread: before startSimulation it has no handler.
Interrupt(t) ==
  /\ ~ over /\ at[t] \notin {"unborn", "interrupted"}
  /\ Fault
  /\ IF resuming \/ at[Main] \notin {"connect", "ask", "hear", "read"}
     THEN at' = [at EXCEPT ![t] = "interrupted"] /\ UNCHANGED over
     ELSE over' = TRUE /\ UNCHANGED at
  /\ UNCHANGED <<mutex, initialized, args, stage, resuming, line, streams, ready, user, part, maps>>

\* send() on the connection: what it takes is appended to its stream; once the
\* server has closed the connection it may still take some.  Nobody catches
\* SIGPIPE, which ends the process where the error is not reported.
Delivers(pieces) ==
  /\ line \in {"up", "closed"}
  /\ streams' = [streams EXCEPT ![Len(streams)] = @ \o pieces]

SendFails == line \in {"none", "reset"} /\ line' = IF line = "reset" THEN "dead" ELSE line
SendKills == line \in {"dead", "closed"} /\ over' = TRUE

\* recv(): -1 once, and 0 at the end, where sendOrReceive calls systemInterrupt.
ReceiveFails == line = "reset" /\ line' = "dead"
ReceiveEnds  == line \in {"dead", "closed"} /\ at' = [at EXCEPT ![Main] = "interrupted"]

-----------------------------------------------------------------------------
(* The main thread up to the simulation, and again in recoverSimulation.   *)

negotiated == <<initialized, nodeName, resuming, user, part>>

Connect ==
  /\ ~ over /\ at[Main] = "connect"
  /\ \/ /\ line' = "up" /\ streams' = Append(streams, <<>>)
        /\ at' = [at EXCEPT ![Main] = "ask"]
        /\ UNCHANGED <<mutex, over, bounds>>
     \/ /\ Fault /\ Fails
        /\ line' \in {"none", "dead"}   \* socket() or connect()
        /\ UNCHANGED streams
  /\ UNCHANGED <<negotiated, needNewMap, stage, ready, maps>>

\* Without the name of a node there is nothing to do after the map.
Ask ==
  /\ ~ over /\ at[Main] = "ask"
  /\ LET request == Requests(resuming)[stage] IN
     IF request = "node" /\ ~ nodeName
     THEN over' = TRUE /\ UNCHANGED <<at, mutex, line, streams>>
     ELSE \/ /\ Delivers(<<Request(request)>>)
             /\ at' = [at EXCEPT ![Main] = "hear"]
             /\ UNCHANGED <<mutex, line, over>>
          \/ SendFails /\ Fails /\ UNCHANGED streams
          \/ SendKills /\ UNCHANGED <<at, mutex, line, streams>>
  /\ UNCHANGED <<negotiated, needNewMap, stage, ready, maps, bounds>>

\* The server's answer to "map" and what it does (external).
MapIsSelected ==
  \/ needNewMap = 1 /\ maps < Ipu /\ maps' = maps + 1
  \/ needNewMap = 0 /\ maps > 0 /\ UNCHANGED maps
MapIsReleased == needNewMap = -1 /\ maps' = 0

\* What a request is followed by: the interfaces one by one, the next request,
\* the simulation's thread, or, in recoverSimulation, the event loop.
Accepted ==
  LET request == Requests(resuming)[stage]
      last == stage = Len(Requests(resuming))
  IN /\ at' = [at EXCEPT ![Main] =
          CASE request = "interfaces" -> "read"
            [] last -> IF resuming THEN "loop" ELSE "create"
            [] OTHER -> "ask"]
     /\ stage' = IF last \/ request = "interfaces" THEN stage ELSE stage + 1
     /\ mutex' = IF last /\ resuming THEN Nobody ELSE mutex

Hear ==
  /\ ~ over /\ at[Main] = "hear"
  /\ LET map == Requests(resuming)[stage] = "map" IN
     \/ /\ line = "up" /\ Accepted
        /\ IF map THEN MapIsSelected ELSE UNCHANGED maps
        /\ UNCHANGED <<line, over, bounds>>
     \/ /\ line = "up" /\ map /\ MapIsReleased /\ Fails
        /\ UNCHANGED <<line, stage, bounds>>
     \/ line = "up" /\ Fault /\ Fails /\ UNCHANGED <<line, stage, maps>>
     \/ ReceiveFails /\ Fails /\ UNCHANGED <<stage, maps, bounds>>
     \/ ReceiveEnds /\ UNCHANGED <<mutex, line, stage, maps, over, bounds>>
  /\ UNCHANGED <<negotiated, needNewMap, streams, ready>>

\* Mutant: one interface too many.
ReadInterfaceMore ==
  /\ ~ over /\ at[Main] = "read"
  /\ line = "up" /\ ready' = ready + 1
  /\ IF ready' > Interfaces
     THEN at' = [at EXCEPT ![Main] = "ask"] /\ stage' = stage + 1
     ELSE UNCHANGED <<at, stage>>
  /\ UNCHANGED <<negotiated, needNewMap, streams, maps, mutex, line, over, bounds>>

\* readInterfaceInformation for one interface; then the request for the rest.
ReadInterface ==
  /\ ~ over /\ at[Main] = "read"
  /\ \/ /\ line = "up" /\ ready' = ready + 1
        /\ IF ready' = Interfaces
           THEN at' = [at EXCEPT ![Main] = "ask"] /\ stage' = stage + 1
           ELSE UNCHANGED <<at, stage>>
        /\ UNCHANGED <<mutex, line, over, bounds>>
     \/ line = "up" /\ Fault /\ Fails /\ UNCHANGED <<line, stage, ready>>
     \/ ReceiveFails /\ Fails /\ UNCHANGED <<stage, ready, bounds>>
     \/ ReceiveEnds /\ UNCHANGED <<mutex, line, stage, ready, over, bounds>>
  /\ UNCHANGED <<negotiated, needNewMap, streams, maps>>

-----------------------------------------------------------------------------
(* The simulation's thread, and how the main thread waits for it.          *)

started == <<args, stage, resuming, line, streams, ready, user, part, maps, bounds>>

\* pthread_create
CreateThread ==
  /\ ~ over /\ at[Main] = "create"
  /\ \/ at' = [at EXCEPT ![Main] = "await", ![Run] = "initialize"] /\ UNCHANGED faults
     \/ /\ faults < MaxFaults /\ faults' = faults + 1
        /\ at' = [at EXCEPT ![Main] = "interrupted"]
  /\ UNCHANGED <<mutex, initialized, args, stage, resuming, line, streams, ready, user,
                 part, maps, over, received, resets>>

\* pthread_cond_wait gives the mutex back while the thread sleeps.
AwaitInitialization ==
  /\ mutex = Nobody
  /\ Step(Main, "await", IF initialized THEN "loop" ELSE "asleep")
  /\ UNCHANGED <<started, mutex, initialized, over>>

\* Mutant: "if" for "while".
WakeUpForGood == Step(Main, "asleep", "loop") /\ UNCHANGED <<started, mutex, initialized, over>>

\* It may return without a signal: the condition is read again.
WakeUp == Step(Main, "asleep", "await") /\ UNCHANGED <<started, mutex, initialized, over>>

\* initialize() starts the timers; they may be at work before it returns.
StartTimer(t) ==
  /\ at[Run] = "initialize"
  /\ Step(t, "unborn", "run")
  /\ UNCHANGED <<started, mutex, initialized, over>>

SetInitialized ==
  /\ mutex = Nobody
  /\ Step(Run, "initialize", "signal")
  /\ initialized' = TRUE
  /\ UNCHANGED <<started, mutex, over>>

\* Mutant: no signal.
SignalNobody ==
  /\ Step(Run, "signal", "run")
  /\ UNCHANGED <<started, mutex, initialized, over>>

Signal ==
  /\ ~ over /\ at[Run] = "signal"
  /\ at' = [t \in Threads |->
       IF t = Run THEN "run" ELSE IF t = Main /\ at[t] = "asleep" THEN "await" ELSE at[t]]
  /\ UNCHANGED <<started, mutex, initialized, over>>

-----------------------------------------------------------------------------
(* simulationEventLoop and recoverSimulation.                              *)

calm == <<mutex, initialized, args, stage, resuming, streams, ready, user, part, maps, over>>

\* (After a warning about a wrong interface index the loop goes on.)
ReceiveFrame ==
  /\ line = "up" /\ received < MaxReceived
  /\ Step(Main, "loop", "process")
  /\ received' = received + 1
  /\ UNCHANGED <<calm, line, resets, faults>>

\* What the protocol does not know breaks the loop as a broken connection does.
ReceiveNonsense ==
  /\ line = "up" /\ Fault
  /\ Step(Main, "loop", "recover")
  /\ UNCHANGED <<calm, line>>

ReceiveError ==
  /\ ReceiveFails
  /\ Step(Main, "loop", "recover")
  /\ UNCHANGED <<calm, bounds>>

ReceiveEnd ==
  /\ ~ over /\ at[Main] = "loop"
  /\ ReceiveEnds
  /\ UNCHANGED <<calm, line, bounds>>

\* The machine's processFrame returns.
FrameIsProcessed == Step(Main, "process", "loop") /\ UNCHANGED <<calm, line, bounds>>

\* Mutant: without the mutex.
RecoverSimulationUnlocked ==
  /\ Step(Main, "recover", "connect")
  /\ line' = "none" /\ needNewMap' = 0 /\ stage' = 1 /\ resuming' = TRUE
  /\ UNCHANGED <<mutex, initialized, nodeName, streams, ready, user, part, maps, over, bounds>>

\* Mutant: the map is asked for as it was at the start.
RecoverSimulationAnew ==
  /\ mutex = Nobody
  /\ Step(Main, "recover", "connect")
  /\ mutex' = Main
  /\ line' = "none" /\ stage' = 1 /\ resuming' = TRUE
  /\ UNCHANGED <<initialized, args, streams, ready, user, part, maps, over, bounds>>

\* Mutant: the old connection is used on.
RecoverSimulationInPlace ==
  /\ mutex = Nobody
  /\ Step(Main, "recover", "ask")
  /\ mutex' = Main
  /\ needNewMap' = 0 /\ stage' = 1 /\ resuming' = TRUE
  /\ UNCHANGED <<initialized, nodeName, line, streams, ready, user, part, maps, over, bounds>>

\* From here to the end of the negotiation the main thread holds the mutex.
RecoverSimulation ==
  /\ mutex = Nobody
  /\ Step(Main, "recover", "connect")
  /\ mutex' = Main
  /\ line' = "none" /\ needNewMap' = 0 /\ stage' = 1 /\ resuming' = TRUE
  /\ UNCHANGED <<initialized, nodeName, streams, ready, user, part, maps, over, bounds>>

-----------------------------------------------------------------------------
(* sendFrame, walk, setIp and setMask, from any thread.                    *)

idle == <<initialized, args, stage, resuming, ready, maps, bounds>>

Home(t) == IF t = Main THEN "process" ELSE "run"

MayCall(t, k) == \E w \in Workloads :
  /\ calls[t][k] < w[t][k]
  /\ \A u \in Threads, j \in Calls : calls[u][j] <= w[u][j]

Call(t, c) ==
  /\ MayCall(t, c.what)
  /\ Step(t, Home(t), "lock")
  /\ calls' = [calls EXCEPT ![t][c.what] = @ + 1]
  /\ call' = [call EXCEPT ![t] = c]
  /\ part' = [part EXCEPT ![t] = 0]
  /\ UNCHANGED <<idle, mutex, line, streams, addresses, over>>

SendFrame(t) == Call(t, Plain("frame"))
Walk(t)      == Call(t, Plain("walk"))

\* Interface::setIp and setMask: what would change nothing is not sent.
SetAddress(t) ==
  \E i \in Settable, f \in Changes, a \in Addresses :
    addresses[i][f] # a /\ Call(t, [what |-> f, iface |-> i, address |-> a])

\* A frame that is too short or too long is not sent.
Lock(t) ==
  /\ mutex = Nobody
  /\ \/ Step(t, "lock", "send") /\ mutex' = t
     \/ call[t].what = "frame" /\ Step(t, "lock", Home(t)) /\ UNCHANGED mutex
  /\ UNCHANGED <<idle, line, streams, user, part, over>>

\* Mutant: the mutex stays with who fails.
GivesUpLocked(t) == SendFails /\ at' = [at EXCEPT ![t] = Home(t)] /\ UNCHANGED mutex

\* Mutant: the result of the notification is not looked at.
GivesUpAssigning(t) ==
  /\ SendFails /\ mutex' = Nobody
  /\ at' = [at EXCEPT ![t] = IF call[t].what \in Changes THEN "assign" ELSE Home(t)]

GivesUp(t) == SendFails /\ at' = [at EXCEPT ![t] = Home(t)] /\ mutex' = Nobody

\* The i-th part of the command t sends.
Part(t, i) ==
  [what |-> call[t].what, iface |-> call[t].iface, address |-> call[t].address,
   by |-> t, number |-> calls[t][call[t].what], part |-> i]

\* realSendFrame, realWalk, realNotifyChange...: header and data of a frame are two
\* writes, another command is one; send() may take each in several parts.
Write(t) ==
  /\ ~ over /\ at[t] = "send"
  /\ LET what == call[t].what
         last == Size(what)
         end  == IF what = "frame" /\ part[t] < HeaderSize THEN HeaderSize ELSE last
     IN
     \/ \E n \in (part[t] + 1) .. end :
          /\ Delivers([i \in 1 .. n - part[t] |-> Part(t, part[t] + i)])
          /\ part' = [part EXCEPT ![t] = n]
          /\ at' = IF n < last THEN at
                   ELSE [at EXCEPT ![t] = IF what \in Changes THEN "assign" ELSE Home(t)]
          /\ mutex' = IF n < last THEN mutex ELSE Nobody
          /\ UNCHANGED <<line, over>>
     \/ GivesUp(t) /\ UNCHANGED <<streams, part, over>>
     \/ SendKills /\ UNCHANGED <<at, mutex, line, streams, part>>
  /\ UNCHANGED <<idle, user>>

\* What has been notified is assigned, without the mutex.
Assign(t) ==
  /\ Step(t, "assign", Home(t))
  /\ addresses' = [addresses EXCEPT ![call[t].iface][call[t].what] = call[t].address]
  /\ UNCHANGED <<idle, mutex, line, streams, calls, call, part, over>>

-----------------------------------------------------------------------------
(* The server and the network.                                             *)

ConnectionBreaks ==
  /\ ~ over /\ line = "up"
  /\ \/ line' = "reset" /\ resets < MaxResets /\ resets' = resets + 1 /\ UNCHANGED <<received, faults>>
     \/ line' = "closed" /\ Fault
  /\ UNCHANGED <<calm, at>>

-----------------------------------------------------------------------------
\* What the main thread does of its own, and the server's answers to it.
MainRuns ==
  \/ Connect \/ Ask \/ Hear \/ ReadInterface
  \/ CreateThread \/ AwaitInitialization
  \/ ReceiveError \/ ReceiveEnd \/ FrameIsProcessed

Next ==
  \/ MainRuns \/ WakeUp
  \/ SetInitialized \/ Signal
  \/ \E t \in Timers : StartTimer(t)
  \/ ReceiveFrame \/ ReceiveNonsense \/ RecoverSimulation
  \/ \E t \in Threads :
       \/ SendFrame(t) \/ Walk(t) \/ SetAddress(t)
       \/ Lock(t) \/ Write(t) \/ Assign(t) \/ Interrupt(t) \/ Destroy(t)
  \/ ConnectionBreaks

Spec == Init /\ [][Next]_vars

\* Who competes for the mutex gets it in the end; the others are just not
\* stopped.  The server answers, initialize() and processFrame return.
FairSpec ==
  /\ Spec
  /\ WF_vars(MainRuns)
  /\ WF_vars(Signal)
  /\ SF_vars(SetInitialized) /\ SF_vars(RecoverSimulation)
  /\ \A t \in Threads : SF_vars(Lock(t)) /\ WF_vars(Write(t) \/ Assign(t) \/ Destroy(t))

-----------------------------------------------------------------------------
\* The requests of a negotiation in their order, and after the last of them
\* commands, one after the other, the last of which may be cut short.
WellFormed(s, requests) ==
  \A j \in DOMAIN s :
    IF j <= Len(requests) THEN s[j] = Request(requests[j])
    ELSE LET before == s[j - 1]
             first == j = Len(requests) + 1 \/ before.part = Size(before.what)
         IN /\ s[j].what \in Calls
            /\ IF first THEN s[j].part = 1 ELSE s[j] = [before EXCEPT !.part = @ + 1]

\* "All threads can call the synchronized sendFrame": on no connection do frames or
\* other commands mix with each other or get into a negotiation, neither the first
\* nor that of a recovery, unless the main thread has given up and the process is
\* about to end.
StreamsAreWellFormed ==
  \A k \in DOMAIN streams :
    \/ WellFormed(streams[k], Requests(k > 1))
    \/ k = Len(streams) /\ at[Main] = "interrupted"

\* Frames are taken only by a machine whose interfaces are all known and whose
\* initialize() has returned, for all that it runs in another thread and the wait
\* for it may end early (simulateMachine, st_run).
FramesFindTheMachine ==
  at[Main] \in {"loop", "process", "lock", "send", "assign", "recover"} =>
    ready = Interfaces /\ at[Run] \notin {"unborn", "initialize"}

\* However often the connection breaks, the process goes back to the map it has
\* and does not take another of the server's (recoverSimulation).
OneMapPerProcess == maps <= 1

\* Where in the streams the changes of address f of interface i end that have been
\* written in full, and which of two places is the later one.
Piece(p) == streams[p[1]][p[2]]
Announced(i, f) ==
  {p \in UNION {{k} \X DOMAIN streams[k] : k \in DOMAIN streams} :
     Piece(p).what = f /\ Piece(p).iface = i /\ Piece(p).part = CommandSize}
IsLater(p, q) == p[1] > q[1] \/ (p[1] = q[1] /\ p[2] > q[2])

\* "return true if and only if the IP changed successfully": unless two threads
\* change one address, which nothing keeps apart, the program sees the address it
\* has told the server last, however many connections broke in the middle of that
\* or since (a recovery does not synchronise the interfaces again).  The thread
\* that has told it may not have got to the assignment yet, or SIGINT may have
\* stopped it.
AddressesAgree ==
  \A i \in 1 .. Interfaces, f \in Changes :
    LET told == Announced(i, f) IN
    \/ \E t \in Threads :
         at[t] \in {"assign", "interrupted"} /\ call[t].what = f /\ call[t].iface = i
    \/ \E p, q \in told : Piece(p).by # Piece(q).by
    \/ told = {} /\ addresses[i][f] = Original
    \/ \E p \in told :
         /\ \A q \in told : ~ IsLater(q, p)
         /\ addresses[i][f] = Piece(p).address

\* The main thread does not sleep through the signal of st_run.
EventLoopStarts == (at[Main] \in {"await", "asleep"}) ~> (over \/ at[Main] = "loop")

\* A sendFrame, walk, setIp or setMask returns, in whatever state it meets the connection.
SendFrameReturns ==
  \A t \in Threads : (at[t] \in {"lock", "send", "assign"}) ~> (over \/ at[t] = Home(t))

\* The recovery works if nobody sends before it and the connection breaks only
\* once: the main thread then is the one that is told of the reset, and gets back
\* to the event loop (sendOrReceive, recoverSimulation).
ResetIsRecovered ==
  [](faults = 0 /\ resets <= 1 /\ \A t \in Threads, k \in Calls : calls[t][k] = 0) =>
    []((line = "reset" /\ at[Main] = "loop") => <>(line # "reset" /\ at[Main] = "loop"))
=============================================================================
