----------------------------- MODULE BgpSession -----------------------------
(***************************************************************************)
(* The session half of PA3/user/sm.cpp: the finite state machine every     *)
(* BGP interface runs, the three threads that drive it and the frames they *)
(* exchange.  An element of Endpoints is one interface of one machine.     *)
(*                                                                         *)
(*   "main"   the client framework's event loop: processFrame and the      *)
(*            handle_..._frame functions                                   *)
(*   "cmd"    the thread of run(): "start connection on interface i"       *)
(*   "timer"  interface_handler(i), one thread per interface               *)
(*                                                                         *)
(* Each handler reads interface_bgp_states WITHOUT thread_locks[i], sends, *)
(* and only then takes the lock and writes.  Each read, the send and the   *)
(* write are therefore steps of their own here.  The timer thread takes    *)
(* the lock first and sends while it holds it.                             *)
(*                                                                         *)
(* A timer is its pair of fields in the code: "off" when the active flag   *)
(* is false, "armed" or "due" when it is true and the deadline lies ahead  *)
(* of or behind the timer thread's clock; arming it again sets a new       *)
(* deadline, so "armed".                                                   *)
(***************************************************************************)
EXTENDS Naturals, Sequences, SequencesExt

CONSTANTS Endpoints,   \* the interfaces that run a session
          Peer,        \* Peer[e] is the interface at the other end of e's wire
          MaxStarts,   \* bound: MaxStarts[e] start commands typed for e
          MaxExpiries, \* bound: MaxExpiries[e] hold timer deadlines that pass on e
          MaxLosses,   \* bound: frames the network drops
          MaxFlight    \* bound: a connect-retry deadline passes only while
                       \*        fewer frames than this are on the wire

ASSUME PeerAssumption ==
  Peer \in [Endpoints -> Endpoints] /\ \A e \in Endpoints : Peer[Peer[e]] = e
ASSUME BoundsAssumption ==
  MaxStarts \in [Endpoints -> Nat] /\ MaxExpiries \in [Endpoints -> Nat] /\ MaxLosses \in Nat /\ MaxFlight \in Nat

States  == {"IDLE", "CONNECT", "ACTIVE", "OPEN", "OPEN_CONFIRM", "ESTABLISHED"}
Timers  == {"off", "armed", "due"}
Threads == {"main", "cmd", "timer"}

\* SYN, SYNACK and ACK are the TCP segments of the handshake; UPDATE frames are
\* the business of BgpRoutes and never touch this state.
Segments == {"SYN", "SYNACK", "ACK"}
Frames   == Segments \cup {"OPEN", "KEEPALIVE", "NOTIFICATION"}

\* Where a thread stands: "rest", about to send ("sendX"), about to take the
\* lock and write ("toX"), between the two reads of handle_tcp_syn_frame
\* ("readX"), or inside the timer thread's critical section ("sentX").
CommandPositions == {"rest", "start", "sendSyn", "toConnect"}
TimerPositions   == {"rest", "sentSyn", "sentNotification"}
Positions == CommandPositions \cup TimerPositions \cup
             {"readSyn", "readSynAck", "readAck",
              "sendSynAck", "sendAck", "sendOpen", "toOpen",
              "sendKeepalive", "toOpenConfirm", "toEstablished", "toIdle"}

VARIABLES state,     \* interface_bgp_states
          retry,     \* connect_retry_timer_active, connect_retry_time_left
          hold,      \* hold_timer_active, hold_timer_time_left
          pc,        \* pc[e][t]: where thread t stands in its work for e
          net,       \* net[e]: the frames travelling to e, oldest first
          starts,    \* start commands typed so far, for MaxStarts
          expiries,  \* hold deadlines passed so far, for MaxExpiries
          losses     \* frames lost so far, for MaxLosses

vars == <<state, retry, hold, pc, net, starts, expiries, losses>>
counters == <<starts, expiries, losses>>

\* Each thread runs its own code only; in particular the timer thread, which
\* holds thread_locks[e], never calls startConnection, which would lock it again.
OwnPlaces == \A e \in Endpoints :
  pc[e]["cmd"] \in CommandPositions /\ pc[e]["timer"] \in TimerPositions

TypeOK ==
  /\ state \in [Endpoints -> States]
  /\ retry \in [Endpoints -> Timers]
  /\ hold \in [Endpoints -> Timers]
  /\ pc \in [Endpoints -> [Threads -> Positions]]
  /\ OwnPlaces
  /\ net \in [Endpoints -> Seq(Frames)]
  /\ starts \in [Endpoints -> Nat]
  /\ expiries \in [Endpoints -> Nat]
  /\ losses \in Nat

Init ==
  /\ state = [e \in Endpoints |-> "IDLE"]
  /\ retry = [e \in Endpoints |-> "off"]
  /\ hold = [e \in Endpoints |-> "off"]
  /\ pc = [e \in Endpoints |-> [t \in Threads |-> "rest"]]
  /\ net = [e \in Endpoints |-> <<>>]
  /\ starts = [e \in Endpoints |-> 0]
  /\ expiries = [e \in Endpoints |-> 0]
  /\ losses = 0

-----------------------------------------------------------------------------
\* thread_locks[e]: the other threads' critical sections are one step each, so
\* the lock is visibly held only while the timer thread is inside its own.
LockFree(e) == pc[e]["timer"] = "rest"

\* sendFrame on interface e.
Send(e, frame) == net' = [net EXCEPT ![Peer[e]] = Append(@, frame)]

Goto(e, t, position) == pc' = [pc EXCEPT ![e][t] = position]

-----------------------------------------------------------------------------
\* startConnection, called by the command thread and by
\* handle_notification_frame in the main thread: the unlocked test, the SYN,
\* the locked write.
StartCommand(e) ==
  /\ pc[e]["cmd"] = "rest"
  /\ starts[e] < MaxStarts[e]
  /\ starts' = [starts EXCEPT ![e] = @ + 1]
  /\ Goto(e, "cmd", "start")
  /\ UNCHANGED <<state, retry, hold, net, expiries, losses>>

StartCheck(e, t) ==
  /\ pc[e][t] = "start"
  /\ Goto(e, t, IF state[e] = "IDLE" THEN "sendSyn" ELSE "rest")
  /\ UNCHANGED <<state, retry, hold, net, counters>>

StartSend(e, t) ==
  /\ pc[e][t] = "sendSyn"
  /\ Send(e, "SYN")
  /\ Goto(e, t, "toConnect")
  /\ UNCHANGED <<state, retry, hold, counters>>

EnterConnect(e, t) ==
  /\ pc[e][t] = "toConnect"
  /\ LockFree(e)
  /\ state' = [state EXCEPT ![e] = "CONNECT"]
  /\ retry' = [retry EXCEPT ![e] = "armed"]
  /\ Goto(e, t, "rest")
  /\ UNCHANGED <<hold, net, counters>>

-----------------------------------------------------------------------------
\* handle_tcp_syn_frame: the first send for segment f, if the state is accepted,
\* and otherwise the place where the state is read again.
Answer(f, accepted) ==
  CASE f = "SYN"    -> IF accepted THEN "sendSynAck" ELSE "readSyn"
    [] f = "SYNACK" -> IF accepted THEN "sendAck" ELSE "readSynAck"
    [] f = "ACK"    -> IF accepted THEN "sendOpen" ELSE "readAck"

\* Mutant: OPEN is taken for the confirmation.
DispatchOpenConfirms(f, s) ==
  CASE f \in Segments                            -> Answer(f, s = "CONNECT")
    [] f = "OPEN"      /\ s = "OPEN"             -> "toEstablished"
    [] OTHER                                     -> "rest"

\* Mutant: handle_open_frame without its state check.
DispatchOpenUnchecked(f, s) ==
  CASE f \in Segments                            -> Answer(f, s = "CONNECT")
    [] f = "OPEN"                                -> "sendKeepalive"
    [] f = "KEEPALIVE" /\ s = "OPEN_CONFIRM"     -> "toEstablished"
    [] f = "NOTIFICATION"                        -> "toIdle"
    [] OTHER                                     -> "rest"

\* What the main thread does with frame f when the unlocked read finds state s:
\* the early returns of handle_open_frame and handle_keepalive_frame, and the
\* first of the two reads of handle_tcp_syn_frame.  The field checks of
\* handle_open_frame pass on every OPEN this program sends.
Dispatch(f, s) ==
  CASE f \in Segments                            -> Answer(f, s = "CONNECT")
    [] f = "OPEN"      /\ s = "OPEN"             -> "sendKeepalive"
    [] f = "KEEPALIVE" /\ s = "OPEN_CONFIRM"     -> "toEstablished"
    [] f = "NOTIFICATION"                        -> "toIdle"
    [] OTHER                                     -> "rest"

\* processFrame, up to the first send or lock of the handler it calls.
ProcessFrame(e) ==
  /\ pc[e]["main"] = "rest"
  /\ net[e] # <<>>
  /\ Goto(e, "main", Dispatch(Head(net[e]), state[e]))
  /\ net' = [net EXCEPT ![e] = Tail(@)]
  /\ UNCHANGED <<state, retry, hold, counters>>

\* "state != CONNECT and state != ACTIVE" reads the state twice: it can be ACTIVE
\* when it is compared with CONNECT, and CONNECT when it is compared with ACTIVE.
ReadAgain(e) ==
  /\ \E f \in Segments :
       /\ pc[e]["main"] = Answer(f, FALSE)
       /\ Goto(e, "main", IF state[e] = "ACTIVE" THEN Answer(f, TRUE) ELSE "rest")
  /\ UNCHANGED <<state, retry, hold, net, counters>>

\* The sends of handle_tcp_syn_frame: a SYN is answered with SYN and ACK and
\* nothing else; a segment with ACK completes the handshake and is followed
\* by OPEN, after the ACK that answers a SYN|ACK.
TcpReply(e) ==
  \/ /\ pc[e]["main"] = "sendSynAck"
     /\ Send(e, "SYNACK")
     /\ Goto(e, "main", "rest")
     /\ UNCHANGED <<state, retry, hold, counters>>
  \/ /\ pc[e]["main"] = "sendAck"
     /\ Send(e, "ACK")
     /\ Goto(e, "main", "sendOpen")
     /\ UNCHANGED <<state, retry, hold, counters>>
  \/ /\ pc[e]["main"] = "sendOpen"
     /\ Send(e, "OPEN")
     /\ Goto(e, "main", "toOpen")
     /\ UNCHANGED <<state, retry, hold, counters>>

\* Mutant: the hold timer is not armed.
EnterOpenUntimed(e) ==
  /\ pc[e]["main"] = "toOpen"
  /\ LockFree(e)
  /\ state' = [state EXCEPT ![e] = "OPEN"]
  /\ retry' = [retry EXCEPT ![e] = "off"]
  /\ Goto(e, "main", "rest")
  /\ UNCHANGED <<hold, net, counters>>

\* Mutant: thread_locks[e] is not taken.
EnterOpenUnlocked(e) ==
  /\ pc[e]["main"] = "toOpen"
  /\ state' = [state EXCEPT ![e] = "OPEN"]
  /\ retry' = [retry EXCEPT ![e] = "off"]
  /\ hold' = [hold EXCEPT ![e] = "armed"]
  /\ Goto(e, "main", "rest")
  /\ UNCHANGED <<net, counters>>

EnterOpen(e) ==
  /\ pc[e]["main"] = "toOpen"
  /\ LockFree(e)
  /\ state' = [state EXCEPT ![e] = "OPEN"]
  /\ retry' = [retry EXCEPT ![e] = "off"]
  /\ hold' = [hold EXCEPT ![e] = "armed"]
  /\ Goto(e, "main", "rest")
  /\ UNCHANGED <<net, counters>>

OpenReply(e) ==
  /\ pc[e]["main"] = "sendKeepalive"
  /\ Send(e, "KEEPALIVE")
  /\ Goto(e, "main", "toOpenConfirm")
  /\ UNCHANGED <<state, retry, hold, counters>>

EnterOpenConfirm(e) ==
  /\ pc[e]["main"] = "toOpenConfirm"
  /\ LockFree(e)
  /\ state' = [state EXCEPT ![e] = "OPEN_CONFIRM"]
  /\ hold' = [hold EXCEPT ![e] = "armed"]
  /\ Goto(e, "main", "rest")
  /\ UNCHANGED <<retry, net, counters>>

EnterEstablished(e) ==
  /\ pc[e]["main"] = "toEstablished"
  /\ LockFree(e)
  /\ state' = [state EXCEPT ![e] = "ESTABLISHED"]
  /\ hold' = [hold EXCEPT ![e] = "off"]
  /\ Goto(e, "main", "rest")
  /\ UNCHANGED <<retry, net, counters>>

\* Mutant: startConnection is not called.
EnterIdleAndStop(e) ==
  /\ pc[e]["main"] = "toIdle"
  /\ LockFree(e)
  /\ state' = [state EXCEPT ![e] = "IDLE"]
  /\ Goto(e, "main", "rest")
  /\ UNCHANGED <<retry, hold, net, counters>>

\* handle_notification_frame: IDLE whatever the state was, the timers left as
\* they are, then startConnection.
EnterIdle(e) ==
  /\ pc[e]["main"] = "toIdle"
  /\ LockFree(e)
  /\ state' = [state EXCEPT ![e] = "IDLE"]
  /\ Goto(e, "main", "start")
  /\ UNCHANGED <<retry, hold, net, counters>>

-----------------------------------------------------------------------------
\* Mutant: the connect-retry timer is not armed again in ACTIVE.
RetryInConnectOnce(e) ==
  /\ LockFree(e)
  /\ retry[e] = "due"
  /\ state[e] = "CONNECT"
  /\ state' = [state EXCEPT ![e] = "ACTIVE"]
  /\ retry' = [retry EXCEPT ![e] = "off"]
  /\ UNCHANGED <<hold, pc, net, counters>>

\* interface_handler: one round of the loop that finds something to do.  The
\* round reads its clock before it takes the lock, so a timer armed while it
\* waits for the lock is not due in that round.
RetryInConnect(e) ==
  /\ LockFree(e)
  /\ retry[e] = "due"
  /\ state[e] = "CONNECT"
  /\ state' = [state EXCEPT ![e] = "ACTIVE"]
  /\ retry' = [retry EXCEPT ![e] = "armed"]
  /\ UNCHANGED <<hold, pc, net, counters>>

RetryInActive(e) ==
  \/ /\ LockFree(e)
     /\ retry[e] = "due"
     /\ state[e] = "ACTIVE"
     /\ Send(e, "SYN")
     /\ Goto(e, "timer", "sentSyn")
     /\ UNCHANGED <<state, retry, hold, counters>>
  \/ /\ pc[e]["timer"] = "sentSyn"
     /\ state' = [state EXCEPT ![e] = "CONNECT"]
     /\ retry' = [retry EXCEPT ![e] = "armed"]
     /\ Goto(e, "timer", "rest")
     /\ UNCHANGED <<hold, net, counters>>

\* Mutant: startConnection is called at the end, with thread_locks[e] held.
HoldExpiredAndStart(e) ==
  \/ /\ LockFree(e)
     /\ hold[e] = "due"
     /\ state[e] \in {"OPEN", "OPEN_CONFIRM"}
     /\ Send(e, "NOTIFICATION")
     /\ Goto(e, "timer", "sentNotification")
     /\ UNCHANGED <<state, retry, hold, counters>>
  \/ /\ pc[e]["timer"] = "sentNotification"
     /\ hold' = [hold EXCEPT ![e] = "off"]
     /\ state' = [state EXCEPT ![e] = "IDLE"]
     /\ Goto(e, "timer", "start")
     /\ UNCHANGED <<retry, net, counters>>

HoldExpired(e) ==
  \/ /\ LockFree(e)
     /\ hold[e] = "due"
     /\ state[e] \in {"OPEN", "OPEN_CONFIRM"}
     /\ Send(e, "NOTIFICATION")
     /\ Goto(e, "timer", "sentNotification")
     /\ UNCHANGED <<state, retry, hold, counters>>
  \/ /\ pc[e]["timer"] = "sentNotification"
     /\ hold' = [hold EXCEPT ![e] = "off"]
     /\ state' = [state EXCEPT ![e] = "IDLE"]
     /\ Goto(e, "timer", "rest")
     /\ UNCHANGED <<retry, net, counters>>

\* Time passes a deadline.
RetryDeadline(e) ==
  /\ retry[e] = "armed"
  /\ Len(net[e]) + Len(net[Peer[e]]) < MaxFlight
  /\ retry' = [retry EXCEPT ![e] = "due"]
  /\ UNCHANGED <<state, hold, pc, net, counters>>

HoldDeadline(e) ==
  /\ hold[e] = "armed"
  /\ expiries[e] < MaxExpiries[e]
  /\ hold' = [hold EXCEPT ![e] = "due"]
  /\ expiries' = [expiries EXCEPT ![e] = @ + 1]
  /\ UNCHANGED <<state, retry, pc, net, starts, losses>>

\* A frame sent while a client reconnects to the simulation server
\* (recoverSimulation in base/cf.cpp) never arrives.
Lose(e) ==
  /\ losses < MaxLosses
  /\ \E i \in 1 .. Len(net[e]) :
        net' = [net EXCEPT ![e] = SubSeq(@, 1, i - 1) \o SubSeq(@, i + 1, Len(@))]
  /\ losses' = losses + 1
  /\ UNCHANGED <<state, retry, hold, pc, starts, expiries>>

-----------------------------------------------------------------------------
StartConnection(e, t) == StartCheck(e, t) \/ StartSend(e, t) \/ EnterConnect(e, t)

Main(e) ==
  \/ ProcessFrame(e) \/ ReadAgain(e)
  \/ TcpReply(e) \/ EnterOpen(e)
  \/ OpenReply(e) \/ EnterOpenConfirm(e)
  \/ EnterEstablished(e)
  \/ EnterIdle(e) \/ StartConnection(e, "main")

Timer(e) == RetryInConnect(e) \/ RetryInActive(e) \/ HoldExpired(e)

Environment(e) == StartCommand(e) \/ RetryDeadline(e) \/ HoldDeadline(e) \/ Lose(e)

Next == \E e \in Endpoints :
          Main(e) \/ StartConnection(e, "cmd") \/ Timer(e) \/ Environment(e)

Spec == Init /\ [][Next]_vars

\* The threads run, and time passes.  A thread that waits for thread_locks[e]
\* gets it in the end: the timer thread sleeps a second outside the lock in
\* every round.  No user has to type a command and no frame has to be lost.
Fairness == \A e \in Endpoints :
  /\ SF_vars(Main(e))
  /\ SF_vars(StartConnection(e, "cmd"))
  /\ WF_vars(Timer(e))
  /\ WF_vars(RetryDeadline(e))

FairSpec == Spec /\ Fairness
-----------------------------------------------------------------------------
(***************************************************************************)
(* Properties                                                              *)
(***************************************************************************)

\* Whatever the threads interleave, an interface that waits for its peer never
\* waits without the timer that would free it: CONNECT and ACTIVE have the
\* connect-retry timer running, OPEN and OPEN_CONFIRM the hold timer, and an
\* ESTABLISHED interface has no hold timer left to run out.
WaitsAreTimed == \A e \in Endpoints :
  /\ state[e] \in {"CONNECT", "ACTIVE"} => retry[e] # "off"
  /\ state[e] \in {"OPEN", "OPEN_CONFIRM"} => hold[e] # "off"
  /\ state[e] = "ESTABLISHED" => hold[e] = "off"

\* Between the frame the timer thread sends and the state it then writes, the
\* state still is the one the frame was sent for: no command and no frame
\* handled meanwhile is overwritten (what thread_locks is there for).
TimerFindsItsState == \A e \in Endpoints :
  /\ pc[e]["timer"] = "sentSyn" => state[e] = "ACTIVE" /\ retry[e] = "due"
  /\ pc[e]["timer"] = "sentNotification" =>
        state[e] \in {"OPEN", "OPEN_CONFIRM"} /\ hold[e] = "due"

\* How far e has climbed, counting a rung from the moment e has sent the frame
\* that announces it (EnterOpen and EnterOpenConfirm follow the sends).
Rung(e) ==
  IF state[e] = "ESTABLISHED" THEN 3
  ELSE IF state[e] = "OPEN_CONFIRM" \/ pc[e]["main"] = "toOpenConfirm" THEN 2
  ELSE IF state[e] = "OPEN" \/ pc[e]["main"] = "toOpen" THEN 1
  ELSE 0

\* While no hold timer runs out the two ends climb in step, however many SYNs
\* the retry timers repeat, however the threads interleave and whatever frames
\* are lost: the link implements BgpHandshake.
Handshake == INSTANCE BgpHandshake WITH rung <- [e \in Endpoints |-> Rung(e)]
ClimbsInStep == Handshake!Spec

\* In particular an interface that is ESTABLISHED has a peer that answered its
\* OPEN: one that is, or is about to be, at least in OPEN_CONFIRM.
EstablishedIsMutual == \A e \in Endpoints :
  state[e] = "ESTABLISHED" => Rung(Peer[e]) >= 2

\* No state is set to CONNECT between the two reads of a segment.
ReadsAreUndisturbed == \A e \in Endpoints :
  pc[e]["main"] \in {"readSyn", "readSynAck", "readAck"} => state[e] # "CONNECT"

\* When both users have typed their command, no frame is lost, no hold timer
\* runs out and no write of CONNECT falls between the two reads of a segment,
\* both ends of the link become and stay ESTABLISHED, even if a SYN arrives
\* before the other user's command or an answer before the write.  Without the
\* last premise handle_tcp_syn_frame may drop an ACK, and the peer stays in OPEN.
BothEstablish ==
  [](losses = 0 /\ ReadsAreUndisturbed /\ \A e \in Endpoints : expiries[e] = 0) =>
    ((\A e \in Endpoints : starts[e] > 0)
       ~> [](\A e \in Endpoints : state[e] = "ESTABLISHED"))

\* An interface that receives a NOTIFICATION tries again: it gets to CONNECT,
\* although the command and the timer thread compete for the state.
NotifiedReconnects == \A e \in Endpoints :
  ("NOTIFICATION" \in ToSet(net[e])) ~> (state[e] = "CONNECT")

\* desgin_documnet_pa3.md says handle_open_frame takes an interface from
\* openstate to openconfirm, and report.md that thread_locks keep the variables
\* shared by the timer threads and the main thread from going wrong.
OpenConfirmFromOpen ==
  [][\A e \in Endpoints :
        state'[e] = "OPEN_CONFIRM" => state[e] \in {"OPEN", "OPEN_CONFIRM"}]_vars
=============================================================================
