-------------------------- MODULE BgpSessionProofs --------------------------
(***************************************************************************)
(* Proofs about BgpSession, for every set of interfaces, every wiring and  *)
(* every bound.                                                            *)
(***************************************************************************)
EXTENDS BgpSession, TLAPS

-----------------------------------------------------------------------------
(***************************************************************************)
(* What the channel operations do to the frames on the wire.               *)
(***************************************************************************)

\* A frame f travels in channel q.
Carries(q, f) == \E i \in 1 .. Len(q) : q[i] = f

\* A queue carries what its tail does,
LEMMA CarriesTail ==
  ASSUME NEW S, NEW q \in Seq(S), q # <<>>, NEW f, Carries(Tail(q), f)
  PROVE  Carries(q, f)
<1>1. PICK i \in 1 .. Len(Tail(q)) : Tail(q)[i] = f
  BY DEF Carries
<1>2. Len(q) \in Nat /\ Len(Tail(q)) = Len(q) - 1
  OBVIOUS
<1>3. i + 1 \in 1 .. Len(q) /\ Tail(q)[i] = q[i + 1]
  BY <1>1, <1>2
<1>4. QED
  BY <1>1, <1>3 DEF Carries

\* and its head;
LEMMA CarriesHead ==
  ASSUME NEW S, NEW q \in Seq(S), q # <<>>
  PROVE  Carries(q, Head(q)) /\ Head(q) \in S
<1>1. Len(q) \in Nat \ {0}
  OBVIOUS
<1>2. 1 \in 1 .. Len(q) /\ Head(q) = q[1] /\ q[1] \in S
  BY <1>1
<1>3. QED
  BY <1>2 DEF Carries

\* nothing but the frame appended is new in it,
LEMMA CarriesAppend ==
  ASSUME NEW S, NEW q \in Seq(S), NEW g \in S, NEW f, Carries(Append(q, g), f)
  PROVE  Carries(q, f) \/ f = g
<1>1. PICK i \in 1 .. Len(Append(q, g)) : Append(q, g)[i] = f
  BY DEF Carries
<1>2. Len(q) \in Nat /\ i \in 1 .. Len(q) + 1
  BY <1>1
<1>3. i \in 1 .. Len(q) => Append(q, g)[i] = q[i]
  BY <1>2
<1>4. i = Len(q) + 1 => Append(q, g)[i] = g
  BY <1>2
<1>5. QED
  BY <1>1, <1>2, <1>3, <1>4 DEF Carries

\* a concatenation carries what one of its parts does,
LEMMA CarriesConcat ==
  ASSUME NEW S, NEW q \in Seq(S), NEW r \in Seq(S), NEW f, Carries(q \o r, f)
  PROVE  Carries(q, f) \/ Carries(r, f)
<1>1. PICK i \in 1 .. Len(q \o r) : (q \o r)[i] = f
  BY DEF Carries
<1>2. Len(q) \in Nat /\ Len(r) \in Nat /\ Len(q \o r) = Len(q) + Len(r)
  OBVIOUS
<1>3. CASE i <= Len(q)
  <2>1. i \in 1 .. Len(q) /\ (q \o r)[i] = q[i]
    BY <1>2, <1>3
  <2>2. QED
    BY <1>1, <2>1 DEF Carries
<1>4. CASE i > Len(q)
  <2>1. i - Len(q) \in 1 .. Len(r) /\ (q \o r)[i] = r[i - Len(q)]
    BY <1>2, <1>4
  <2>2. QED
    BY <1>1, <2>1 DEF Carries
<1>5. QED
  BY <1>2, <1>3, <1>4

\* and removing a frame adds none.
LEMMA CarriesDrop ==
  ASSUME NEW S, NEW q \in Seq(S), NEW k \in 1 .. Len(q), NEW f,
         Carries(SubSeq(q, 1, k - 1) \o SubSeq(q, k + 1, Len(q)), f)
  PROVE  Carries(q, f)
<1> DEFINE l == SubSeq(q, 1, k - 1)
           r == SubSeq(q, k + 1, Len(q))
<1>1. Len(q) \in Nat /\ l \in Seq(S) /\ r \in Seq(S)
  OBVIOUS
<1>2. Carries(l, f) \/ Carries(r, f)
  BY <1>1, CarriesConcat
<1>3. CASE Carries(l, f)
  <2>1. PICK i \in 1 .. Len(l) : l[i] = f
    BY <1>3 DEF Carries
  <2>2. i \in 1 .. Len(q) /\ l[i] = q[i]
    BY <1>1
  <2>3. QED
    BY <2>1, <2>2 DEF Carries
<1>4. CASE Carries(r, f)
  <2>1. PICK i \in 1 .. Len(r) : r[i] = f
    BY <1>4 DEF Carries
  <2>2. i + k \in 1 .. Len(q) /\ r[i] = q[i + k]
    BY <1>1
  <2>3. QED
    BY <2>1, <2>2 DEF Carries
<1>5. QED
  BY <1>2, <1>3, <1>4

-----------------------------------------------------------------------------
(***************************************************************************)
(* Types.                                                                  *)
(***************************************************************************)

\* The places of a thread are spelt out wherever Positions is.
USE DEF CommandPositions, TimerPositions

\* The frames that are segments are spelt out wherever Frames is.
USE DEF Segments

\* Sending keeps the channels sequences of frames.
LEMMA SendType ==
  ASSUME TypeOK, NEW e \in Endpoints, NEW f \in Frames, Send(e, f)
  PROVE  net' \in [Endpoints -> Seq(Frames)]
<1>1. Peer[e] \in Endpoints
  BY PeerAssumption
<1>2. Append(net[Peer[e]], f) \in Seq(Frames)
  BY <1>1 DEF TypeOK
<1>3. QED
  BY <1>1, <1>2 DEF Send, TypeOK

\* So does leaving them alone.
LEMMA UnchangedNetType ==
  ASSUME TypeOK, net' = net
  PROVE  net' \in [Endpoints -> Seq(Frames)]
  BY DEF TypeOK

\* Goto moves one thread of one endpoint.
LEMMA GotoType ==
  ASSUME TypeOK, NEW e \in Endpoints, NEW t \in Threads, NEW p \in Positions,
         Goto(e, t, p)
  PROVE  /\ pc' \in [Endpoints -> [Threads -> Positions]]
         /\ pc'[e][t] = p
         /\ \A u \in Threads : u # t => pc'[e][u] = pc[e][u]
         /\ \A d \in Endpoints : d # e => pc'[d] = pc[d]
         /\ /\ t = "cmd" => p \in CommandPositions
            /\ t = "timer" => p \in TimerPositions
            => OwnPlaces'
<1>1. /\ pc' \in [Endpoints -> [Threads -> Positions]]
      /\ pc'[e][t] = p
      /\ \A u \in Threads : u # t => pc'[e][u] = pc[e][u]
      /\ \A d \in Endpoints : d # e => pc'[d] = pc[d]
  BY DEF TypeOK, Goto
<1>2. OwnPlaces
  BY DEF TypeOK
<1>3. QED
  BY <1>1, <1>2 DEF OwnPlaces, Threads

\* A step of TcpReply moves the main thread of its own interface and no other
\* thread.
LEMMA TcpReplyMoves ==
  ASSUME TypeOK, NEW e \in Endpoints, TcpReply(e), NEW d \in Endpoints
  PROVE  /\ pc'[d]["timer"] = pc[d]["timer"] /\ pc'[d]["cmd"] = pc[d]["cmd"]
         /\ pc'[d]["main"] \in {pc[d]["main"], "rest", "sendOpen", "toOpen"}
<1>1. ASSUME NEW p \in {"rest", "sendOpen", "toOpen"}, Goto(e, "main", p)
      PROVE  /\ pc'[d]["timer"] = pc[d]["timer"] /\ pc'[d]["cmd"] = pc[d]["cmd"]
             /\ pc'[d]["main"] \in {pc[d]["main"], p}
  BY <1>1 DEF Goto, TypeOK, Threads
<1>2. PICK p \in {"rest", "sendOpen", "toOpen"} : Goto(e, "main", p)
  BY DEF TcpReply
<1>3. QED
  BY <1>1, <1>2

\* After the first read of the state the main thread is at one of its positions;
LEMMA DispatchType ==
  ASSUME NEW f, NEW s
  PROVE  Dispatch(f, s) \in Positions
  BY DEF Dispatch, Answer, Positions

\* after the second it answers, if the state is ACTIVE, or rests.
LEMMA ReadAgainMoves ==
  ASSUME TypeOK, NEW e \in Endpoints, ReadAgain(e)
  PROVE  /\ pc[e]["main"] \in {"readSyn", "readSynAck", "readAck"}
         /\ pc'[e]["main"] \in {"rest", "sendSynAck", "sendAck", "sendOpen"}
         /\ pc'[e]["main"] # "rest" => state[e] = "ACTIVE"
         /\ \A t \in Threads : t # "main" => pc'[e][t] = pc[e][t]
         /\ \A d \in Endpoints : d # e => pc'[d] = pc[d]
         /\ pc' \in [Endpoints -> [Threads -> Positions]]
         /\ UNCHANGED <<state, retry, hold, net, counters>>
<1>1. PICK f \in Segments :
        /\ pc[e]["main"] = Answer(f, FALSE)
        /\ Goto(e, "main", IF state[e] = "ACTIVE" THEN Answer(f, TRUE) ELSE "rest")
  BY DEF ReadAgain
<1>2. /\ Answer(f, FALSE) \in {"readSyn", "readSynAck", "readAck"}
      /\ Answer(f, TRUE) \in {"sendSynAck", "sendAck", "sendOpen"}
  BY DEF Answer
<1>3. PICK p \in {"rest", "sendSynAck", "sendAck", "sendOpen"} :
        Goto(e, "main", p) /\ (p # "rest" => state[e] = "ACTIVE")
  BY <1>1, <1>2
<1>4. p \in Positions
  BY DEF Positions
<1>5. QED
  BY <1>1, <1>2, <1>3, <1>4, GotoType DEF ReadAgain, Threads

\* No step of an endpoint leaves the types.
LEMMA TypeStep == TypeOK /\ [Next]_vars => TypeOK'
<1> SUFFICES ASSUME TypeOK, [Next]_vars PROVE TypeOK'
  OBVIOUS
<1>1. ASSUME NEW e \in Endpoints, StartCommand(e) PROVE TypeOK'
  BY <1>1 DEF StartCommand, Goto, TypeOK, OwnPlaces, States, Timers, Threads, Positions
<1>2. ASSUME NEW e \in Endpoints, NEW t \in {"main", "cmd"}, StartCheck(e, t) PROVE TypeOK'
  BY <1>2 DEF StartCheck, Goto, counters, TypeOK, OwnPlaces, States, Timers, Threads, Positions
<1>3. ASSUME NEW e \in Endpoints, NEW t \in {"main", "cmd"}, StartSend(e, t) PROVE TypeOK'
  <2>1. net' \in [Endpoints -> Seq(Frames)]
    BY <1>3, SendType DEF StartSend, Frames
  <2>2. pc' \in [Endpoints -> [Threads -> Positions]] /\ OwnPlaces'
    BY <1>3, GotoType DEF StartSend, Threads, Positions
  <2>3. QED
    BY <1>3, <2>1, <2>2 DEF StartSend, counters, TypeOK, States, Timers
<1>4. ASSUME NEW e \in Endpoints, NEW t \in {"main", "cmd"}, EnterConnect(e, t) PROVE TypeOK'
  BY <1>4 DEF EnterConnect, Goto, LockFree, counters, TypeOK, OwnPlaces, States, Timers, Threads, Positions
<1>5. ASSUME NEW e \in Endpoints, ProcessFrame(e) PROVE TypeOK'
  <2>1. net[e] \in Seq(Frames) /\ net[e] # <<>>
    BY <1>5 DEF ProcessFrame, TypeOK
  <2>2. Tail(net[e]) \in Seq(Frames)
    BY <2>1
  <2>3. net' \in [Endpoints -> Seq(Frames)]
    BY <1>5, <2>2 DEF ProcessFrame, TypeOK
  <2>4. pc' \in [Endpoints -> [Threads -> Positions]] /\ OwnPlaces'
    BY <1>5, DispatchType, GotoType DEF ProcessFrame, Threads
  <2>5. QED
    BY <1>5, <2>3, <2>4 DEF ProcessFrame, TypeOK, counters
<1>20. ASSUME NEW e \in Endpoints, ReadAgain(e) PROVE TypeOK'
  BY <1>20, ReadAgainMoves DEF TypeOK, OwnPlaces, counters, Threads
<1>6. ASSUME NEW e \in Endpoints, TcpReply(e) PROVE TypeOK'
  <2>1. net' \in [Endpoints -> Seq(Frames)]
    BY <1>6, SendType DEF TcpReply, Frames
  <2>2. pc' \in [Endpoints -> [Threads -> Positions]] /\ OwnPlaces'
    BY <1>6, GotoType DEF TcpReply, Threads, Positions
  <2>3. QED
    BY <1>6, <2>1, <2>2 DEF TcpReply, counters, TypeOK, States, Timers
<1>7. ASSUME NEW e \in Endpoints, EnterOpen(e) PROVE TypeOK'
  BY <1>7 DEF EnterOpen, Goto, LockFree, counters, TypeOK, OwnPlaces, States, Timers, Threads, Positions
<1>8. ASSUME NEW e \in Endpoints, OpenReply(e) PROVE TypeOK'
  <2>1. net' \in [Endpoints -> Seq(Frames)]
    BY <1>8, SendType DEF OpenReply, Frames
  <2>2. pc' \in [Endpoints -> [Threads -> Positions]] /\ OwnPlaces'
    BY <1>8, GotoType DEF OpenReply, Threads, Positions
  <2>3. QED
    BY <1>8, <2>1, <2>2 DEF OpenReply, counters, TypeOK, States, Timers
<1>9. ASSUME NEW e \in Endpoints, EnterOpenConfirm(e) PROVE TypeOK'
  BY <1>9 DEF EnterOpenConfirm, Goto, LockFree, counters, TypeOK, OwnPlaces, States, Timers, Threads, Positions
<1>10. ASSUME NEW e \in Endpoints, EnterEstablished(e) PROVE TypeOK'
  BY <1>10 DEF EnterEstablished, Goto, LockFree, counters, TypeOK, OwnPlaces, States, Timers, Threads, Positions
<1>11. ASSUME NEW e \in Endpoints, EnterIdle(e) PROVE TypeOK'
  BY <1>11 DEF EnterIdle, Goto, LockFree, counters, TypeOK, OwnPlaces, States, Timers, Threads, Positions
<1>12. ASSUME NEW e \in Endpoints, RetryInConnect(e) PROVE TypeOK'
  BY <1>12 DEF RetryInConnect, LockFree, counters, TypeOK, OwnPlaces, States, Timers, Threads, Positions
<1>13. ASSUME NEW e \in Endpoints, RetryInActive(e) PROVE TypeOK'
  <2>1. net' \in [Endpoints -> Seq(Frames)]
    BY <1>13, SendType, UnchangedNetType DEF RetryInActive, counters, Frames
  <2>2. pc' \in [Endpoints -> [Threads -> Positions]] /\ OwnPlaces'
    BY <1>13, GotoType DEF RetryInActive, Threads, Positions
  <2>3. QED
    BY <1>13, <2>1, <2>2 DEF RetryInActive, counters, TypeOK, States, Timers
<1>14. ASSUME NEW e \in Endpoints, HoldExpired(e) PROVE TypeOK'
  <2>1. net' \in [Endpoints -> Seq(Frames)]
    BY <1>14, SendType, UnchangedNetType DEF HoldExpired, counters, Frames
  <2>2. pc' \in [Endpoints -> [Threads -> Positions]] /\ OwnPlaces'
    BY <1>14, GotoType DEF HoldExpired, Threads, Positions
  <2>3. QED
    BY <1>14, <2>1, <2>2 DEF HoldExpired, counters, TypeOK, States, Timers
<1>15. ASSUME NEW e \in Endpoints, RetryDeadline(e) PROVE TypeOK'
  BY <1>15 DEF RetryDeadline, counters, TypeOK, OwnPlaces, States, Timers, Threads, Positions
<1>16. ASSUME NEW e \in Endpoints, HoldDeadline(e) PROVE TypeOK'
  BY <1>16 DEF HoldDeadline, TypeOK, OwnPlaces, States, Timers, Threads, Positions
<1>17. ASSUME NEW e \in Endpoints, Lose(e) PROVE TypeOK'
  <2>1. PICK i \in 1 .. Len(net[e]) :
          net' = [net EXCEPT ![e] = SubSeq(@, 1, i - 1) \o SubSeq(@, i + 1, Len(@))]
    BY <1>17 DEF Lose
  <2>2. net[e] \in Seq(Frames)
    BY DEF TypeOK
  <2>3. SubSeq(net[e], 1, i - 1) \o SubSeq(net[e], i + 1, Len(net[e])) \in Seq(Frames)
    BY <2>2
  <2>4. net' \in [Endpoints -> Seq(Frames)]
    BY <2>1, <2>3 DEF TypeOK
  <2>5. QED
    BY <1>17, <2>4, BoundsAssumption DEF Lose, TypeOK, OwnPlaces
<1>18. CASE UNCHANGED vars
  BY <1>18 DEF vars, TypeOK, OwnPlaces, States, Timers, Threads, Positions
<1>19. QED
  BY <1>1, <1>2, <1>3, <1>4, <1>5, <1>6, <1>7, <1>8, <1>9, <1>10, <1>11, <1>12, <1>13, <1>14, <1>15, <1>16, <1>17, <1>18, <1>20
     DEF Next, Main, StartConnection, Timer, Environment

\* Every variable keeps its type: in particular processFrame never leaves a
\* thread in a position the code does not have, and only the six frames of the
\* handshake ever travel.
THEOREM TypeCorrect == Spec => []TypeOK
<1>1. Init => TypeOK
  BY DEF Init, TypeOK, OwnPlaces, States, Timers, Threads, Positions
<1>2. QED
  BY <1>1, TypeStep, PTL DEF Spec

-----------------------------------------------------------------------------
(***************************************************************************)
(* The timers and the lock.  Every locked write sets the state and its     *)
(* timer together, and none of them can fall between the timer thread's    *)
(* send and its write; so both facts are inductive with the types alone.   *)
(***************************************************************************)

TimedInv == TypeOK /\ WaitsAreTimed /\ TimerFindsItsState

\* Every step keeps the timer threads of a session in their places.
LEMMA TimedStep == TimedInv /\ [Next]_vars => TimedInv'
<1> SUFFICES ASSUME TimedInv, [Next]_vars
             PROVE  WaitsAreTimed' /\ TimerFindsItsState'
  BY TypeStep DEF TimedInv
<1> USE DEF TimedInv, TypeOK, WaitsAreTimed, TimerFindsItsState
<1>1. ASSUME NEW e \in Endpoints, StartCommand(e) PROVE WaitsAreTimed' /\ TimerFindsItsState'
  BY <1>1
     DEF StartCommand, Goto, Threads
<1>2. ASSUME NEW e \in Endpoints, NEW t \in {"main", "cmd"}, StartCheck(e, t) PROVE WaitsAreTimed' /\ TimerFindsItsState'
  BY <1>2
     DEF StartCheck, Goto, counters, Threads
<1>3. ASSUME NEW e \in Endpoints, NEW t \in {"main", "cmd"}, StartSend(e, t) PROVE WaitsAreTimed' /\ TimerFindsItsState'
  BY <1>3
     DEF StartSend, Goto, counters, Threads
<1>4. ASSUME NEW e \in Endpoints, NEW t \in {"main", "cmd"}, EnterConnect(e, t) PROVE WaitsAreTimed' /\ TimerFindsItsState'
  BY <1>4
     DEF EnterConnect, Goto, LockFree, counters, Threads
<1>5. ASSUME NEW e \in Endpoints, ProcessFrame(e) PROVE WaitsAreTimed' /\ TimerFindsItsState'
  BY <1>5
     DEF ProcessFrame, Goto, counters, Threads
<1>20. ASSUME NEW e \in Endpoints, ReadAgain(e) PROVE WaitsAreTimed' /\ TimerFindsItsState'
  <2>1. /\ UNCHANGED <<state, retry, hold>>
        /\ \A d \in Endpoints : d # e => pc'[d] = pc[d]
        /\ pc'[e]["timer"] = pc[e]["timer"]
    BY <1>20, ReadAgainMoves DEF Threads
  <2>2. \A d \in Endpoints : pc'[d]["timer"] = pc[d]["timer"]
    BY <2>1
  <2>3. QED
    BY <2>1, <2>2
<1>6. ASSUME NEW e \in Endpoints, TcpReply(e) PROVE WaitsAreTimed' /\ TimerFindsItsState'
  <2>1. UNCHANGED <<state, retry, hold>>
    BY <1>6 DEF TcpReply
  <2>2. \A d \in Endpoints : pc'[d]["timer"] = pc[d]["timer"]
    BY <1>6, TcpReplyMoves
  <2>3. QED
    BY <2>1, <2>2
<1>7. ASSUME NEW e \in Endpoints, EnterOpen(e) PROVE WaitsAreTimed' /\ TimerFindsItsState'
  BY <1>7
     DEF EnterOpen, Goto, LockFree, counters, Threads
<1>8. ASSUME NEW e \in Endpoints, OpenReply(e) PROVE WaitsAreTimed' /\ TimerFindsItsState'
  BY <1>8
     DEF OpenReply, Goto, counters, Threads
<1>9. ASSUME NEW e \in Endpoints, EnterOpenConfirm(e) PROVE WaitsAreTimed' /\ TimerFindsItsState'
  BY <1>9
     DEF EnterOpenConfirm, Goto, LockFree, counters, Threads
<1>10. ASSUME NEW e \in Endpoints, EnterEstablished(e) PROVE WaitsAreTimed' /\ TimerFindsItsState'
  BY <1>10
     DEF EnterEstablished, Goto, LockFree, counters, Threads
<1>11. ASSUME NEW e \in Endpoints, EnterIdle(e) PROVE WaitsAreTimed' /\ TimerFindsItsState'
  BY <1>11
     DEF EnterIdle, Goto, LockFree, counters, Threads
<1>12. ASSUME NEW e \in Endpoints, RetryInConnect(e) PROVE WaitsAreTimed' /\ TimerFindsItsState'
  BY <1>12
     DEF RetryInConnect, LockFree, counters, Threads
<1>13. ASSUME NEW e \in Endpoints, RetryInActive(e) PROVE WaitsAreTimed' /\ TimerFindsItsState'
  <2>1. WaitsAreTimed'
    BY <1>13 DEF RetryInActive, LockFree, Goto, counters, Threads
  <2>2. \A d \in Endpoints : d # e => pc'[d] = pc[d]
    BY <1>13, GotoType DEF RetryInActive, Threads, Positions
  <2>3. pc'[e]["timer"] = "rest" \/ 
         (/\ pc'[e]["timer"] = "sentSyn" /\ state[e] = "ACTIVE" /\ retry[e] = "due"
          /\ UNCHANGED <<state, retry, hold>>)
    BY <1>13, GotoType DEF RetryInActive, Threads, Positions
  <2>4. TimerFindsItsState'
    <3>1. \A d \in Endpoints : d # e =>
            /\ state'[d] = state[d] /\ retry'[d] = retry[d]
            /\ hold'[d] = hold[d]   /\ pc'[d] = pc[d]
      BY <1>13, <2>2 DEF RetryInActive, counters
    <3>2. QED
      BY <2>3, <3>1
  <2>5. QED
    BY <2>1, <2>4
<1>14. ASSUME NEW e \in Endpoints, HoldExpired(e) PROVE WaitsAreTimed' /\ TimerFindsItsState'
  <2>1. WaitsAreTimed'
    BY <1>14 DEF HoldExpired, LockFree, Goto, counters, Threads
  <2>2. \A d \in Endpoints : d # e => pc'[d] = pc[d]
    BY <1>14, GotoType DEF HoldExpired, Threads, Positions
  <2>3. pc'[e]["timer"] = "rest" \/ 
         (/\ pc'[e]["timer"] = "sentNotification"
          /\ state[e] \in {"OPEN", "OPEN_CONFIRM"} /\ hold[e] = "due"
          /\ UNCHANGED <<state, retry, hold>>)
    BY <1>14, GotoType DEF HoldExpired, Threads, Positions
  <2>4. TimerFindsItsState'
    <3>1. \A d \in Endpoints : d # e =>
            /\ state'[d] = state[d] /\ retry'[d] = retry[d]
            /\ hold'[d] = hold[d]   /\ pc'[d] = pc[d]
      BY <1>14, <2>2 DEF HoldExpired, counters
    <3>2. QED
      BY <2>3, <3>1
  <2>5. QED
    BY <2>1, <2>4
<1>15. ASSUME NEW e \in Endpoints, RetryDeadline(e) PROVE WaitsAreTimed' /\ TimerFindsItsState'
  BY <1>15
     DEF RetryDeadline, counters, Threads
<1>16. ASSUME NEW e \in Endpoints, HoldDeadline(e) PROVE WaitsAreTimed' /\ TimerFindsItsState'
  BY <1>16
     DEF HoldDeadline, Threads
<1>17. ASSUME NEW e \in Endpoints, Lose(e) PROVE WaitsAreTimed' /\ TimerFindsItsState'
  BY <1>17
     DEF Lose, Threads
<1>18. CASE UNCHANGED vars
  BY <1>18 DEF vars, Threads
<1>19. QED
  BY <1>1, <1>2, <1>3, <1>4, <1>5, <1>6, <1>7, <1>8, <1>9, <1>10, <1>11, <1>12, <1>13, <1>14, <1>15, <1>16, <1>17, <1>18, <1>20
     DEF Next, Main, StartConnection, Timer, Environment

\* The inductive invariant holds on every behaviour.
LEMMA TimedAlways == Spec => []TimedInv
<1>1. Init => TimedInv
  BY DEF Init, TimedInv, TypeOK, OwnPlaces, WaitsAreTimed, TimerFindsItsState,
         States, Timers, Threads, Positions
<1>2. QED
  BY <1>1, TimedStep, PTL DEF Spec

\* No state of the session waits without the timer that ends the wait, although
\* the handlers read the state before they take the lock.
THEOREM Timed == Spec => []WaitsAreTimed
<1>1. TimedInv => WaitsAreTimed
  BY DEF TimedInv
<1>2. QED
  BY <1>1, TimedAlways, PTL

\* Between its frame and its write the timer thread finds the state and the timers
\* as it left them: everybody else writes under the mutex of the interface.
THEOREM TimerFinds == Spec => []TimerFindsItsState
<1>1. TimedInv => TimerFindsItsState
  BY DEF TimedInv
<1>2. QED
  BY <1>1, TimedAlways, PTL

-----------------------------------------------------------------------------
(***************************************************************************)
(* The climb.  Without hold expiries no NOTIFICATION is ever sent and no   *)
(* state is ever taken back (Quiet).  So what a handler read before it     *)
(* sent still holds when it writes (Placed), and a frame on the wire, or   *)
(* the handler it woke, vouches for the rung of its sender (Backed).       *)
(***************************************************************************)

NoExpiries == \A e \in Endpoints : MaxExpiries[e] = 0

Quiet == \A e \in Endpoints :
  /\ hold[e] # "due"
  /\ pc[e]["timer"] # "sentNotification"
  /\ pc[e]["main"] \notin {"toIdle", "start", "sendSyn", "toConnect"}
  /\ ~Carries(net[e], "NOTIFICATION")

PlacedAt(e) ==
  /\ pc[e]["cmd"] \in {"rest", "start", "sendSyn", "toConnect"}
  /\ pc[e]["cmd"] \in {"sendSyn", "toConnect"} => state[e] = "IDLE"
  /\ pc[e]["timer"] = "sentSyn" => state[e] = "ACTIVE"
  /\ pc[e]["main"] \in {"sendAck", "sendOpen", "toOpen"}
       => state[e] \in {"CONNECT", "ACTIVE"}
  /\ pc[e]["main"] \in {"sendKeepalive", "toOpenConfirm"} => state[e] = "OPEN"
  /\ pc[e]["main"] = "toEstablished" => state[e] = "OPEN_CONFIRM"

Placed == \A e \in Endpoints : PlacedAt(e)

Backed == \A e \in Endpoints :
  /\ Carries(net[e], "OPEN") => Rung(Peer[e]) >= 1
  /\ Carries(net[e], "KEEPALIVE") => Rung(Peer[e]) >= 2
  /\ pc[e]["main"] \in {"sendKeepalive", "toOpenConfirm"} => Rung(Peer[e]) >= 1
  /\ state[e] = "OPEN_CONFIRM" => Rung(Peer[e]) >= 1
  /\ pc[e]["main"] = "toEstablished" => Rung(Peer[e]) >= 2
  /\ state[e] = "ESTABLISHED" => Rung(Peer[e]) >= 2

ClimbInv == TypeOK /\ Quiet /\ Placed /\ Backed

\* Which frame in which state leads where (the early returns of the handlers).
LEMMA DispatchCases ==
  ASSUME NEW f, NEW s
  PROVE  /\ Dispatch(f, s) \in {"rest", "sendSynAck", "sendAck", "sendOpen",
                                "readSyn", "readSynAck", "readAck",
                                "sendKeepalive", "toEstablished", "toIdle"}
         /\ Dispatch(f, s) \in {"sendAck", "sendOpen"} => s = "CONNECT"
         /\ Dispatch(f, s) = "sendKeepalive" => f = "OPEN" /\ s = "OPEN"
         /\ Dispatch(f, s) = "toEstablished" => f = "KEEPALIVE" /\ s = "OPEN_CONFIRM"
         /\ Dispatch(f, s) = "toIdle" => f = "NOTIFICATION"
  BY DEF Dispatch, Answer

\* An endpoint is on one of four rungs of the handshake.
LEMMA RungType == \A e \in Endpoints : Rung(e) \in 0 .. 3 /\ Rung(e)' \in 0 .. 3
  BY DEF Rung

\* The rung of an end moves only with its own state and main thread.
LEMMA RungSame ==
  ASSUME NEW d \in Endpoints, state'[d] = state[d],
         pc'[d]["main"] = pc[d]["main"]
  PROVE  Rung(d)' = Rung(d)
  BY DEF Rung

\* A step of one endpoint leaves the places of the others.
LEMMA PlacedElsewhere ==
  ASSUME Placed, NEW e \in Endpoints, PlacedAt(e)',
         \A d \in Endpoints : d # e => state'[d] = state[d] /\ pc'[d] = pc[d]
  PROVE  Placed'
  BY DEF Placed, PlacedAt

\* Every step keeps state and position of an endpoint together.
LEMMA PlacedStep ==
  NoExpiries /\ ClimbInv /\ [Next]_vars => Placed'
<1> SUFFICES ASSUME NoExpiries, TypeOK, Quiet, Placed, [Next]_vars
             PROVE  Placed'
  BY DEF ClimbInv
<1> USE DEF TypeOK, Quiet, Placed, PlacedAt
<1>1. ASSUME NEW e \in Endpoints, StartCommand(e) PROVE Placed'
  BY <1>1
     DEF StartCommand, Goto, Threads
<1>2. ASSUME NEW e \in Endpoints, NEW t \in {"main", "cmd"}, StartCheck(e, t) PROVE Placed'
  BY <1>2
     DEF StartCheck, Goto, counters, Threads
<1>3. ASSUME NEW e \in Endpoints, NEW t \in {"main", "cmd"}, StartSend(e, t) PROVE Placed'
  BY <1>3
     DEF StartSend, Goto, counters, Threads
<1>4. ASSUME NEW e \in Endpoints, NEW t \in {"main", "cmd"}, EnterConnect(e, t) PROVE Placed'
  BY <1>4
     DEF EnterConnect, Goto, LockFree, counters, Threads
<1>5. ASSUME NEW e \in Endpoints, ProcessFrame(e) PROVE Placed'
  <2>1. \A d \in Endpoints : d # e => state'[d] = state[d] /\ pc'[d] = pc[d]
    BY <1>5 DEF ProcessFrame, Goto, counters
  <2>2. /\ pc'[e]["main"] = Dispatch(Head(net[e]), state[e])
        /\ pc'[e]["cmd"] = pc[e]["cmd"] /\ pc'[e]["timer"] = pc[e]["timer"]
        /\ state' = state
    BY <1>5, GotoType, DispatchType DEF ProcessFrame, Threads
  <2>3. /\ pc'[e]["main"] \in {"rest", "sendSynAck", "sendAck", "sendOpen",
                               "readSyn", "readSynAck", "readAck",
                               "sendKeepalive", "toEstablished", "toIdle"}
        /\ pc'[e]["main"] \in {"sendAck", "sendOpen"}
             => state[e] \in {"CONNECT", "ACTIVE"}
        /\ pc'[e]["main"] = "sendKeepalive" => state[e] = "OPEN"
        /\ pc'[e]["main"] = "toEstablished" => state[e] = "OPEN_CONFIRM"
    BY <2>2, DispatchCases
  <2>4. PlacedAt(e)'
    BY <2>2, <2>3
  <2>5. QED
    BY <2>1, <2>4, PlacedElsewhere
<1>20. ASSUME NEW e \in Endpoints, ReadAgain(e) PROVE Placed'
  <2>1. /\ state' = state
        /\ \A d \in Endpoints : d # e => pc'[d] = pc[d]
        /\ pc'[e]["cmd"] = pc[e]["cmd"] /\ pc'[e]["timer"] = pc[e]["timer"]
        /\ pc'[e]["main"] \in {"rest", "sendSynAck", "sendAck", "sendOpen"}
        /\ pc'[e]["main"] # "rest" => state[e] = "ACTIVE"
    BY <1>20, ReadAgainMoves DEF Threads
  <2>2. PlacedAt(e)'
    BY <2>1
  <2>3. QED
    BY <2>1, <2>2, PlacedElsewhere
<1>6. ASSUME NEW e \in Endpoints, TcpReply(e) PROVE Placed'
  <2>1. \A d \in Endpoints : d # e => state'[d] = state[d] /\ pc'[d] = pc[d]
    BY <1>6 DEF TcpReply, Goto, counters
  <2>2. /\ pc'[e]["main"] = "rest" \/
           (/\ pc'[e]["main"] \in {"sendOpen", "toOpen"}
            /\ pc[e]["main"] \in {"sendAck", "sendOpen"})
        /\ pc'[e]["cmd"] = pc[e]["cmd"] /\ pc'[e]["timer"] = pc[e]["timer"]
        /\ state' = state
    BY <1>6, GotoType DEF TcpReply, Threads, Positions
  <2>3. PlacedAt(e)'
    BY <2>2
  <2>4. QED
    BY <2>1, <2>3, PlacedElsewhere
<1>7. ASSUME NEW e \in Endpoints, EnterOpen(e) PROVE Placed'
  BY <1>7
     DEF EnterOpen, Goto, LockFree, counters, Threads
<1>8. ASSUME NEW e \in Endpoints, OpenReply(e) PROVE Placed'
  BY <1>8
     DEF OpenReply, Goto, counters, Threads
<1>9. ASSUME NEW e \in Endpoints, EnterOpenConfirm(e) PROVE Placed'
  BY <1>9
     DEF EnterOpenConfirm, Goto, LockFree, counters, Threads
<1>10. ASSUME NEW e \in Endpoints, EnterEstablished(e) PROVE Placed'
  BY <1>10
     DEF EnterEstablished, Goto, LockFree, counters, Threads
<1>11. ASSUME NEW e \in Endpoints, EnterIdle(e) PROVE Placed'
  BY <1>11
     DEF EnterIdle, Goto, LockFree, counters, Threads
<1>12. ASSUME NEW e \in Endpoints, RetryInConnect(e) PROVE Placed'
  BY <1>12
     DEF RetryInConnect, LockFree, counters, Threads
<1>13. ASSUME NEW e \in Endpoints, RetryInActive(e) PROVE Placed'
  <2>1. \A d \in Endpoints : d # e => state'[d] = state[d] /\ pc'[d] = pc[d]
    BY <1>13 DEF RetryInActive, Goto, counters
  <2>2. /\ pc'[e]["main"] = pc[e]["main"] /\ pc'[e]["cmd"] = pc[e]["cmd"]
        /\ \/ pc'[e]["timer"] = "sentSyn" /\ state[e] = "ACTIVE" /\ state' = state
           \/ /\ pc'[e]["timer"] = "rest" /\ pc[e]["timer"] = "sentSyn"
              /\ state'[e] = "CONNECT"
    BY <1>13, GotoType DEF RetryInActive, Threads, Positions
  <2>3. PlacedAt(e)'
    BY <2>2
  <2>4. QED
    BY <2>1, <2>3, PlacedElsewhere
<1>14. ASSUME NEW e \in Endpoints, HoldExpired(e) PROVE Placed'
  BY <1>14
     DEF HoldExpired, LockFree, Goto, counters, Threads
<1>15. ASSUME NEW e \in Endpoints, RetryDeadline(e) PROVE Placed'
  BY <1>15
     DEF RetryDeadline, counters, Threads
<1>16. ASSUME NEW e \in Endpoints, HoldDeadline(e) PROVE Placed'
  BY <1>16
     DEF HoldDeadline, Threads
<1>17. ASSUME NEW e \in Endpoints, Lose(e) PROVE Placed'
  BY <1>17
     DEF Lose, Threads
<1>18. CASE UNCHANGED vars
  BY <1>18 DEF vars, Threads
<1>19. QED
  BY <1>1, <1>2, <1>3, <1>4, <1>5, <1>6, <1>7, <1>8, <1>9, <1>10, <1>11, <1>12, <1>13, <1>14, <1>15, <1>16, <1>17, <1>18, <1>20
     DEF Next, Main, StartConnection, Timer, Environment

\* A step of one endpoint leaves the rungs of the others.
LEMMA RungElsewhere ==
  ASSUME NEW e \in Endpoints,
         \A d \in Endpoints : d # e => state'[d] = state[d] /\ pc'[d] = pc[d]
  PROVE  \A d \in Endpoints : d # e => Rung(d)' = Rung(d)
  BY RungSame

\* A step of BgpHandshake, or none.
Moves ==
  \/ \A d \in Endpoints : Rung(d)' = Rung(d)
  \/ \E e \in Endpoints :
       /\ \A d \in Endpoints : d # e => Rung(d)' = Rung(d)
       /\ \/ Rung(e) = 0 /\ Rung(e)' = 1
          \/ /\ Rung(e) \in {1, 2} /\ Rung(e)' = Rung(e) + 1
             /\ Rung(Peer[e]) >= Rung(e)

\* Without expiries, every step climbs one rung or stays.
LEMMA RungStep ==
  NoExpiries /\ ClimbInv /\ [Next]_vars => Moves
<1> SUFFICES ASSUME NoExpiries, TypeOK, Quiet, Placed, Backed, [Next]_vars
             PROVE  Moves
  BY DEF ClimbInv
<1> USE DEF TypeOK
<1>1. ASSUME NEW e \in Endpoints, StartCommand(e) PROVE Moves
  BY <1>1, RungSame DEF StartCommand, Goto, counters, Threads, Moves
<1>2. ASSUME NEW e \in Endpoints, NEW t \in {"main", "cmd"}, StartCheck(e, t) PROVE Moves
  <2>1. \A d \in Endpoints : d # e => state'[d] = state[d] /\ pc'[d] = pc[d]
    BY <1>2 DEF StartCheck, Goto, counters
  <2>2. Rung(e)' = Rung(e)
    BY <1>2 DEF StartCheck, Goto, counters, Threads, Rung, Quiet, Placed, PlacedAt
  <2>3. QED
    BY <2>1, <2>2, RungElsewhere DEF Moves
<1>3. ASSUME NEW e \in Endpoints, NEW t \in {"main", "cmd"}, StartSend(e, t) PROVE Moves
  <2>1. \A d \in Endpoints : d # e => state'[d] = state[d] /\ pc'[d] = pc[d]
    BY <1>3 DEF StartSend, Goto, counters
  <2>2. Rung(e)' = Rung(e)
    BY <1>3 DEF StartSend, Goto, counters, Threads, Rung, Quiet, Placed, PlacedAt
  <2>3. QED
    BY <2>1, <2>2, RungElsewhere DEF Moves
<1>4. ASSUME NEW e \in Endpoints, NEW t \in {"main", "cmd"}, EnterConnect(e, t) PROVE Moves
  <2>1. \A d \in Endpoints : d # e => state'[d] = state[d] /\ pc'[d] = pc[d]
    BY <1>4 DEF EnterConnect, Goto, counters
  <2>2. Rung(e)' = Rung(e)
    BY <1>4 DEF EnterConnect, Goto, counters, Threads, Rung, Quiet, Placed, PlacedAt
  <2>3. QED
    BY <2>1, <2>2, RungElsewhere DEF Moves
<1>5. ASSUME NEW e \in Endpoints, ProcessFrame(e) PROVE Moves
  <2>1. \A d \in Endpoints : d # e => state'[d] = state[d] /\ pc'[d] = pc[d]
    BY <1>5 DEF ProcessFrame, Goto, counters
  <2>2. Rung(e)' = Rung(e)
    <3>1. /\ pc[e]["main"] = "rest" /\ state' = state
          /\ pc'[e]["main"] = Dispatch(Head(net[e]), state[e])
      BY <1>5 DEF ProcessFrame, Goto, Threads
    <3>2. pc'[e]["main"] \in {"rest", "sendSynAck", "sendAck", "sendOpen",
                              "readSyn", "readSynAck", "readAck",
                              "sendKeepalive", "toEstablished", "toIdle"}
      BY <3>1, DispatchCases
    <3>3. QED
      BY <3>1, <3>2 DEF Rung
  <2>3. QED
    BY <2>1, <2>2, RungElsewhere DEF Moves
<1>20. ASSUME NEW e \in Endpoints, ReadAgain(e) PROVE Moves
  <2>1. /\ state' = state
        /\ \A d \in Endpoints : d # e => pc'[d] = pc[d]
        /\ pc[e]["main"] \in {"readSyn", "readSynAck", "readAck"}
        /\ pc'[e]["main"] \in {"rest", "sendSynAck", "sendAck", "sendOpen"}
    BY <1>20, ReadAgainMoves
  <2>2. Rung(e)' = Rung(e)
    BY <2>1 DEF Rung
  <2>3. QED
    BY <2>1, <2>2, RungElsewhere DEF Moves
<1>6. ASSUME NEW e \in Endpoints, TcpReply(e) PROVE Moves
  <2>1. \A d \in Endpoints : d # e => state'[d] = state[d] /\ pc'[d] = pc[d]
    BY <1>6 DEF TcpReply, Goto, counters
  <2>2. /\ state' = state
        /\ \/ pc[e]["main"] = "sendSynAck" /\ pc'[e]["main"] = "rest"
           \/ pc[e]["main"] = "sendAck" /\ pc'[e]["main"] = "sendOpen"
           \/ pc[e]["main"] = "sendOpen" /\ pc'[e]["main"] = "toOpen"
    BY <1>6 DEF TcpReply, Goto, Threads
  <2>3. Rung(e)' = Rung(e) \/ (Rung(e) = 0 /\ Rung(e)' = 1)
    BY <2>2 DEF Rung, Placed, PlacedAt
  <2>4. QED
    BY <2>1, <2>3, RungElsewhere DEF Moves
<1>7. ASSUME NEW e \in Endpoints, EnterOpen(e) PROVE Moves
  <2>1. \A d \in Endpoints : d # e => state'[d] = state[d] /\ pc'[d] = pc[d]
    BY <1>7 DEF EnterOpen, Goto, counters
  <2>2. Rung(e)' = Rung(e)
    BY <1>7 DEF EnterOpen, Goto, counters, Threads, Rung, Quiet, Placed, PlacedAt
  <2>3. QED
    BY <2>1, <2>2, RungElsewhere DEF Moves
<1>8. ASSUME NEW e \in Endpoints, OpenReply(e) PROVE Moves
  <2>1. \A d \in Endpoints : d # e => state'[d] = state[d] /\ pc'[d] = pc[d]
    BY <1>8 DEF OpenReply, Goto, counters
  <2>2. Rung(e) = 1 /\ Rung(e)' = 2
    BY <1>8 DEF OpenReply, Goto, Threads, Rung, Placed, PlacedAt
  <2>3. Rung(Peer[e]) >= 1
    BY <1>8 DEF OpenReply, Backed
  <2>4. /\ Rung(e) \in {1, 2} /\ Rung(e)' = Rung(e) + 1
        /\ Rung(Peer[e]) >= Rung(e)
    BY <2>2, <2>3
  <2>5. QED
    BY <2>1, <2>4, RungElsewhere, Zenon DEF Moves
<1>9. ASSUME NEW e \in Endpoints, EnterOpenConfirm(e) PROVE Moves
  <2>1. \A d \in Endpoints : d # e => state'[d] = state[d] /\ pc'[d] = pc[d]
    BY <1>9 DEF EnterOpenConfirm, Goto, counters
  <2>2. Rung(e)' = Rung(e)
    BY <1>9 DEF EnterOpenConfirm, Goto, counters, Threads, Rung, Quiet, Placed, PlacedAt
  <2>3. QED
    BY <2>1, <2>2, RungElsewhere DEF Moves
<1>10. ASSUME NEW e \in Endpoints, EnterEstablished(e) PROVE Moves
  <2>1. \A d \in Endpoints : d # e => state'[d] = state[d] /\ pc'[d] = pc[d]
    BY <1>10 DEF EnterEstablished, Goto, counters
  <2>2. Rung(e) = 2 /\ Rung(e)' = 3
    BY <1>10 DEF EnterEstablished, Goto, Threads, Rung, Placed, PlacedAt
  <2>3. Rung(Peer[e]) >= 2
    BY <1>10 DEF EnterEstablished, Backed
  <2>4. /\ Rung(e) \in {1, 2} /\ Rung(e)' = Rung(e) + 1
        /\ Rung(Peer[e]) >= Rung(e)
    BY <2>2, <2>3
  <2>5. QED
    BY <2>1, <2>4, RungElsewhere, Zenon DEF Moves
<1>11. ASSUME NEW e \in Endpoints, EnterIdle(e) PROVE Moves
  <2>1. \A d \in Endpoints : d # e => state'[d] = state[d] /\ pc'[d] = pc[d]
    BY <1>11 DEF EnterIdle, Goto, counters
  <2>2. Rung(e)' = Rung(e)
    BY <1>11 DEF EnterIdle, Goto, counters, Threads, Rung, Quiet, Placed, PlacedAt
  <2>3. QED
    BY <2>1, <2>2, RungElsewhere DEF Moves
<1>12. ASSUME NEW e \in Endpoints, RetryInConnect(e) PROVE Moves
  <2>1. \A d \in Endpoints : d # e => state'[d] = state[d] /\ pc'[d] = pc[d]
    BY <1>12 DEF RetryInConnect, Goto, counters
  <2>2. Rung(e)' = Rung(e)
    BY <1>12 DEF RetryInConnect, Goto, counters, Threads, Rung, Quiet, Placed, PlacedAt
  <2>3. QED
    BY <2>1, <2>2, RungElsewhere DEF Moves
<1>13. ASSUME NEW e \in Endpoints, RetryInActive(e) PROVE Moves
  <2>1. \A d \in Endpoints : d # e => state'[d] = state[d] /\ pc'[d] = pc[d]
    BY <1>13 DEF RetryInActive, Goto, counters
  <2>2. Rung(e)' = Rung(e)
    <3>1. /\ pc'[e]["main"] = pc[e]["main"]
          /\ \/ state'[e] = state[e]
             \/ state[e] = "ACTIVE" /\ state'[e] = "CONNECT"
      BY <1>13, GotoType DEF RetryInActive, Threads, Positions, Placed, PlacedAt, counters
    <3>2. QED
      BY <3>1 DEF Rung
  <2>3. QED
    BY <2>1, <2>2, RungElsewhere DEF Moves
<1>14. ASSUME NEW e \in Endpoints, HoldExpired(e) PROVE Moves
  BY <1>14 DEF HoldExpired, Quiet
<1>15. ASSUME NEW e \in Endpoints, RetryDeadline(e) PROVE Moves
  BY <1>15, RungSame DEF RetryDeadline, Goto, counters, Threads, Moves
<1>16. ASSUME NEW e \in Endpoints, HoldDeadline(e) PROVE Moves
  BY <1>16, RungSame DEF HoldDeadline, Goto, counters, Threads, Moves
<1>17. ASSUME NEW e \in Endpoints, Lose(e) PROVE Moves
  BY <1>17, RungSame DEF Lose, Goto, counters, Threads, Moves
<1>18. CASE UNCHANGED vars
  BY <1>18, RungSame DEF vars, Moves
<1>19. QED
  BY <1>1, <1>2, <1>3, <1>4, <1>5, <1>6, <1>7, <1>8, <1>9, <1>10, <1>11, <1>12, <1>13, <1>14, <1>15, <1>16, <1>17, <1>18, <1>20
     DEF Next, Main, StartConnection, Timer, Environment

\* No rung is ever taken back.
LEMMA RungGrows ==
  ASSUME NoExpiries, ClimbInv, [Next]_vars, NEW d \in Endpoints
  PROVE  Rung(d)' >= Rung(d)
<1>1. Moves
  BY RungStep
<1>2. Rung(d) \in 0 .. 3 /\ Rung(d)' \in 0 .. 3
  BY RungType
<1>3. QED
  BY <1>1, <1>2 DEF Moves

\* What a send adds to the wire.
LEMMA Arrivals ==
  ASSUME TypeOK, NEW e \in Endpoints, NEW g \in Frames, Send(e, g),
         NEW d \in Endpoints, NEW f, Carries(net'[d], f)
  PROVE  Carries(net[d], f) \/ (Peer[d] = e /\ f = g)
<1>1. CASE d = Peer[e]
  <2>1. Peer[e] \in Endpoints /\ Peer[d] = e
    BY <1>1, PeerAssumption
  <2>2. net'[d] = Append(net[d], g) /\ net[d] \in Seq(Frames)
    BY <1>1, <2>1 DEF Send, TypeOK
  <2>3. QED
    BY <2>1, <2>2, CarriesAppend
<1>2. CASE d # Peer[e]
  <2>1. net'[d] = net[d]
    BY <1>2, PeerAssumption DEF Send, TypeOK
  <2>2. QED
    BY <2>1
<1>3. QED
  BY <1>1, <1>2

\* The three frames that speak of the sender's state.
Telling == {"OPEN", "KEEPALIVE", "NOTIFICATION"}

\* A telling frame on the wire was there before the step or is sent by it, from
\* an end that has reached, in its own main thread, the rung it tells of.
LEMMA WireStep ==
  ASSUME NoExpiries, ClimbInv, [Next]_vars,
         NEW d \in Endpoints, NEW f \in Telling, Carries(net'[d], f)
  PROVE  \/ Carries(net[d], f)
         \/ f = "OPEN" /\ pc'[Peer[d]]["main"] = "toOpen"
         \/ f = "KEEPALIVE" /\ pc'[Peer[d]]["main"] = "toOpenConfirm"
<1> DEFINE Goal == \/ Carries(net[d], f)
                   \/ f = "OPEN" /\ pc'[Peer[d]]["main"] = "toOpen"
                   \/ f = "KEEPALIVE" /\ pc'[Peer[d]]["main"] = "toOpenConfirm"
<1>0. TypeOK /\ Quiet
  BY DEF ClimbInv
<1> SUFFICES Goal
  OBVIOUS
<1> HIDE DEF Goal
<1>1. ASSUME NEW e \in Endpoints, StartCommand(e) PROVE Goal
  BY <1>1 DEF StartCommand, counters, Goal
<1>2. ASSUME NEW e \in Endpoints, NEW t \in {"main", "cmd"}, StartCheck(e, t) PROVE Goal
  BY <1>2 DEF StartCheck, counters, Goal
<1>3. ASSUME NEW e \in Endpoints, NEW t \in {"main", "cmd"}, StartSend(e, t) PROVE Goal
  <2>1. Carries(net[d], f) \/ f = "SYN"
    BY <1>3, <1>0, Arrivals DEF Frames, StartSend
  <2>2. QED
    BY <2>1 DEF Telling, Goal
<1>4. ASSUME NEW e \in Endpoints, NEW t \in {"main", "cmd"}, EnterConnect(e, t) PROVE Goal
  BY <1>4 DEF EnterConnect, counters, Goal
<1>5. ASSUME NEW e \in Endpoints, ProcessFrame(e) PROVE Goal
  <2>1. net[e] \in Seq(Frames) /\ net[e] # <<>>
    BY <1>5, <1>0 DEF ProcessFrame, TypeOK
  <2>2. net'[d] = IF d = e THEN Tail(net[e]) ELSE net[d]
    BY <1>5, <1>0 DEF ProcessFrame, TypeOK
  <2>3. QED
    BY <2>1, <2>2, CarriesTail DEF Goal
<1>20. ASSUME NEW e \in Endpoints, ReadAgain(e) PROVE Goal
  BY <1>20, <1>0, ReadAgainMoves DEF counters, Goal
<1>6. ASSUME NEW e \in Endpoints, TcpReply(e) PROVE Goal
  <2>1. CASE pc[e]["main"] = "sendSynAck" /\ Send(e, "SYNACK")
    <3>1. Carries(net[d], f) \/ f = "SYNACK"
      BY <2>1, <1>0, Arrivals DEF Frames
    <3>2. QED
      BY <3>1 DEF Telling, Goal
  <2>2. CASE Send(e, "ACK")
    <3>1. Carries(net[d], f) \/ f = "ACK"
      BY <2>2, <1>0, Arrivals DEF Frames
    <3>2. QED
      BY <3>1 DEF Telling, Goal
  <2>3. CASE Send(e, "OPEN") /\ Goto(e, "main", "toOpen")
    <3>1. Carries(net[d], f) \/ (Peer[d] = e /\ f = "OPEN")
      BY <2>3, <1>0, Arrivals DEF Frames
    <3>2. pc'[e]["main"] = "toOpen"
      BY <2>3, <1>0 DEF Goto, TypeOK, Threads
    <3>3. QED
      BY <3>1, <3>2 DEF Telling, Goal
  <2>4. QED
    BY <1>6, <2>1, <2>2, <2>3 DEF TcpReply
<1>7. ASSUME NEW e \in Endpoints, EnterOpen(e) PROVE Goal
  BY <1>7 DEF EnterOpen, counters, Goal
<1>8. ASSUME NEW e \in Endpoints, OpenReply(e) PROVE Goal
  <2>1. Carries(net[d], f) \/ (Peer[d] = e /\ f = "KEEPALIVE")
    BY <1>8, <1>0, Arrivals DEF Frames, OpenReply
  <2>2. pc'[e]["main"] = "toOpenConfirm"
    BY <1>8, <1>0 DEF OpenReply, Goto, TypeOK, Threads
  <2>3. QED
    BY <2>1, <2>2 DEF Telling, Goal
<1>9. ASSUME NEW e \in Endpoints, EnterOpenConfirm(e) PROVE Goal
  BY <1>9 DEF EnterOpenConfirm, counters, Goal
<1>10. ASSUME NEW e \in Endpoints, EnterEstablished(e) PROVE Goal
  BY <1>10 DEF EnterEstablished, counters, Goal
<1>11. ASSUME NEW e \in Endpoints, EnterIdle(e) PROVE Goal
  BY <1>11 DEF EnterIdle, counters, Goal
<1>12. ASSUME NEW e \in Endpoints, RetryInConnect(e) PROVE Goal
  BY <1>12 DEF RetryInConnect, counters, Goal
<1>13. ASSUME NEW e \in Endpoints, RetryInActive(e) PROVE Goal
  <2>1. CASE Send(e, "SYN")
    <3>1. Carries(net[d], f) \/ f = "SYN"
      BY <2>1, <1>0, Arrivals DEF Frames
    <3>2. QED
      BY <3>1 DEF Telling, Goal
  <2>2. CASE net' = net
    BY <2>2 DEF Goal
  <2>3. QED
    BY <1>13, <2>1, <2>2 DEF RetryInActive
<1>14. ASSUME NEW e \in Endpoints, HoldExpired(e) PROVE Goal
  BY <1>14, <1>0 DEF HoldExpired, Quiet
<1>15. ASSUME NEW e \in Endpoints, RetryDeadline(e) PROVE Goal
  BY <1>15 DEF RetryDeadline, counters, Goal
<1>16. ASSUME NEW e \in Endpoints, HoldDeadline(e) PROVE Goal
  BY <1>16 DEF HoldDeadline, counters, Goal
<1>17. ASSUME NEW e \in Endpoints, Lose(e) PROVE Goal
  <2>1. PICK i \in 1 .. Len(net[e]) :
          net' = [net EXCEPT ![e] = SubSeq(@, 1, i - 1) \o SubSeq(@, i + 1, Len(@))]
    BY <1>17 DEF Lose
  <2>2. net[e] \in Seq(Frames)
    BY <1>0 DEF TypeOK
  <2>3. net'[d] = IF d = e THEN SubSeq(net[e], 1, i - 1) \o SubSeq(net[e], i + 1, Len(net[e]))
                  ELSE net[d]
    BY <1>0, <2>1 DEF TypeOK
  <2>4. QED
    BY <2>2, <2>3, CarriesDrop DEF Goal
<1>18. CASE UNCHANGED vars
  BY <1>18 DEF vars, Goal
<1>19. QED
  BY <1>1, <1>2, <1>3, <1>4, <1>5, <1>6, <1>7, <1>8, <1>9, <1>10, <1>11, <1>12, <1>13, <1>14, <1>15, <1>16, <1>17, <1>18, <1>20
     DEF Next, Main, StartConnection, Timer, Environment

\* Why an end is where it is: a handler is woken by the frame that speaks to it,
\* and a state is entered by the handler that was on its way there.
LEMMA Reasons ==
  ASSUME NoExpiries, ClimbInv, [Next]_vars, NEW d \in Endpoints
  PROVE  /\ pc'[d]["main"] \in {"sendKeepalive", "toOpenConfirm"} =>
              \/ pc[d]["main"] \in {"sendKeepalive", "toOpenConfirm"}
              \/ Carries(net[d], "OPEN")
         /\ pc'[d]["main"] = "toEstablished" =>
              pc[d]["main"] = "toEstablished" \/ Carries(net[d], "KEEPALIVE")
         /\ state'[d] = "OPEN_CONFIRM" =>
              state[d] = "OPEN_CONFIRM" \/ pc[d]["main"] = "toOpenConfirm"
         /\ state'[d] = "ESTABLISHED" =>
              state[d] = "ESTABLISHED" \/ pc[d]["main"] = "toEstablished"
<1> DEFINE Goal ==
         /\ pc'[d]["main"] \in {"sendKeepalive", "toOpenConfirm"} =>
              \/ pc[d]["main"] \in {"sendKeepalive", "toOpenConfirm"}
              \/ Carries(net[d], "OPEN")
         /\ pc'[d]["main"] = "toEstablished" =>
              pc[d]["main"] = "toEstablished" \/ Carries(net[d], "KEEPALIVE")
         /\ state'[d] = "OPEN_CONFIRM" =>
              state[d] = "OPEN_CONFIRM" \/ pc[d]["main"] = "toOpenConfirm"
         /\ state'[d] = "ESTABLISHED" =>
              state[d] = "ESTABLISHED" \/ pc[d]["main"] = "toEstablished"
<1>0. TypeOK /\ Quiet /\ Placed
  BY DEF ClimbInv
<1> SUFFICES Goal
  OBVIOUS
<1>1. ASSUME NEW e \in Endpoints, StartCommand(e) PROVE Goal
  BY <1>1, <1>0 DEF StartCommand, Goto, TypeOK, Threads
<1>2. ASSUME NEW e \in Endpoints, NEW t \in {"main", "cmd"}, StartCheck(e, t) PROVE Goal
  BY <1>2, <1>0 DEF StartCheck, Goto, counters, TypeOK, Threads
<1>3. ASSUME NEW e \in Endpoints, NEW t \in {"main", "cmd"}, StartSend(e, t) PROVE Goal
  BY <1>3, <1>0 DEF StartSend, Goto, counters, TypeOK, Threads
<1>4. ASSUME NEW e \in Endpoints, NEW t \in {"main", "cmd"}, EnterConnect(e, t) PROVE Goal
  BY <1>4, <1>0 DEF EnterConnect, Goto, counters, TypeOK, Threads
<1>5. ASSUME NEW e \in Endpoints, ProcessFrame(e) PROVE Goal
  <2>1. CASE d # e
    BY <1>5, <1>0, <2>1 DEF ProcessFrame, Goto, TypeOK, Threads
  <2>2. CASE d = e
    <3>1. Carries(net[e], Head(net[e]))
      BY <1>5, <1>0, CarriesHead DEF ProcessFrame, TypeOK
    <3>2. pc'[e]["main"] = Dispatch(Head(net[e]), state[e]) /\ state' = state
      BY <1>5, <1>0 DEF ProcessFrame, Goto, TypeOK, Threads
    <3>3. /\ pc'[e]["main"] # "toOpenConfirm"
          /\ pc'[e]["main"] = "sendKeepalive" => Head(net[e]) = "OPEN"
          /\ pc'[e]["main"] = "toEstablished" => Head(net[e]) = "KEEPALIVE"
      BY <3>2 DEF Dispatch, Answer
    <3>4. QED
      BY <2>2, <3>1, <3>2, <3>3
  <2>3. QED
    BY <2>1, <2>2
<1>20. ASSUME NEW e \in Endpoints, ReadAgain(e) PROVE Goal
  <2>1. /\ state' = state
        /\ \A c \in Endpoints : c # e => pc'[c] = pc[c]
        /\ pc'[e]["main"] \in {"rest", "sendSynAck", "sendAck", "sendOpen"}
    BY <1>20, <1>0, ReadAgainMoves
  <2>2. QED
    BY <2>1
<1>6. ASSUME NEW e \in Endpoints, TcpReply(e) PROVE Goal
  BY <1>6, <1>0 DEF TcpReply, Goto, counters, TypeOK, Threads
<1>7. ASSUME NEW e \in Endpoints, EnterOpen(e) PROVE Goal
  BY <1>7, <1>0 DEF EnterOpen, Goto, counters, TypeOK, Threads
<1>8. ASSUME NEW e \in Endpoints, OpenReply(e) PROVE Goal
  BY <1>8, <1>0 DEF OpenReply, Goto, counters, TypeOK, Threads
<1>9. ASSUME NEW e \in Endpoints, EnterOpenConfirm(e) PROVE Goal
  BY <1>9, <1>0 DEF EnterOpenConfirm, Goto, counters, TypeOK, Threads
<1>10. ASSUME NEW e \in Endpoints, EnterEstablished(e) PROVE Goal
  BY <1>10, <1>0 DEF EnterEstablished, Goto, counters, TypeOK, Threads
<1>11. ASSUME NEW e \in Endpoints, EnterIdle(e) PROVE Goal
  BY <1>11, <1>0 DEF EnterIdle, Goto, counters, TypeOK, Threads
<1>12. ASSUME NEW e \in Endpoints, RetryInConnect(e) PROVE Goal
  BY <1>12, <1>0 DEF RetryInConnect, counters, TypeOK, Threads
<1>13. ASSUME NEW e \in Endpoints, RetryInActive(e) PROVE Goal
  <2>1. /\ pc'[d]["main"] = pc[d]["main"]
        /\ pc'[d]["timer"] \in {pc[d]["timer"], "rest", "sentSyn"}
    BY <1>13, <1>0, GotoType DEF RetryInActive, Threads, Positions
  <2>2. hold' = hold /\ (state'[d] = state[d] \/ state'[d] = "CONNECT")
    BY <1>13, <1>0 DEF RetryInActive, counters, TypeOK
  <2>3. QED
    BY <2>1, <2>2
<1>14. ASSUME NEW e \in Endpoints, HoldExpired(e) PROVE Goal
  BY <1>14, <1>0 DEF HoldExpired, Quiet
<1>15. ASSUME NEW e \in Endpoints, RetryDeadline(e) PROVE Goal
  BY <1>15, <1>0 DEF RetryDeadline, counters, TypeOK, Threads
<1>16. ASSUME NEW e \in Endpoints, HoldDeadline(e) PROVE Goal
  BY <1>16, <1>0 DEF HoldDeadline, TypeOK, Threads
<1>17. ASSUME NEW e \in Endpoints, Lose(e) PROVE Goal
  BY <1>17, <1>0 DEF Lose, TypeOK, Threads
<1>18. CASE UNCHANGED vars
  BY <1>18, <1>0 DEF vars
<1>19. QED
  BY <1>1, <1>2, <1>3, <1>4, <1>5, <1>6, <1>7, <1>8, <1>9, <1>10, <1>11, <1>12, <1>13, <1>14, <1>15, <1>16, <1>17, <1>18, <1>20
     DEF Next, Main, StartConnection, Timer, Environment

\* Without expiries, no step sends a frame that resets a session.
LEMMA QuietStep ==
  NoExpiries /\ ClimbInv /\ [Next]_vars => Quiet'
<1> SUFFICES ASSUME NoExpiries, ClimbInv, [Next]_vars, NEW d \in Endpoints
             PROVE  /\ hold'[d] # "due"
                    /\ pc'[d]["timer"] # "sentNotification"
                    /\ pc'[d]["main"] \notin {"toIdle", "start", "sendSyn", "toConnect"}
                    /\ ~Carries(net'[d], "NOTIFICATION")
  BY DEF Quiet
<1> DEFINE Goal ==
         /\ hold'[d] # "due"
         /\ pc'[d]["timer"] # "sentNotification"
         /\ pc'[d]["main"] \notin {"toIdle", "start", "sendSyn", "toConnect"}
<1>0. TypeOK /\ Quiet
  BY DEF ClimbInv
<1>a. ~Carries(net'[d], "NOTIFICATION")
  BY <1>0, WireStep DEF Telling, Quiet
<1> SUFFICES Goal
  BY <1>a
<1>1. ASSUME NEW e \in Endpoints, StartCommand(e) PROVE Goal
  BY <1>1, <1>0 DEF StartCommand, Goto, TypeOK, Threads, Quiet
<1>2. ASSUME NEW e \in Endpoints, NEW t \in {"main", "cmd"}, StartCheck(e, t) PROVE Goal
  BY <1>2, <1>0 DEF StartCheck, Goto, counters, TypeOK, Threads, Quiet
<1>3. ASSUME NEW e \in Endpoints, NEW t \in {"main", "cmd"}, StartSend(e, t) PROVE Goal
  BY <1>3, <1>0 DEF StartSend, Goto, counters, TypeOK, Threads, Quiet
<1>4. ASSUME NEW e \in Endpoints, NEW t \in {"main", "cmd"}, EnterConnect(e, t) PROVE Goal
  BY <1>4, <1>0 DEF EnterConnect, Goto, counters, TypeOK, Threads, Quiet
<1>5. ASSUME NEW e \in Endpoints, ProcessFrame(e) PROVE Goal
  <2>1. CASE d # e
    BY <1>5, <1>0, <2>1 DEF ProcessFrame, Goto, TypeOK, Threads, Quiet
  <2>2. CASE d = e
    <3>1. Carries(net[e], Head(net[e]))
      BY <1>5, <1>0, CarriesHead DEF ProcessFrame, TypeOK
    <3>2. /\ pc'[e]["main"] = Dispatch(Head(net[e]), state[e]) /\ hold' = hold
          /\ pc'[e]["timer"] = pc[e]["timer"]
      BY <1>5, <1>0 DEF ProcessFrame, Goto, TypeOK, Threads
    <3>3. /\ pc'[e]["main"] \notin {"start", "sendSyn", "toConnect"}
          /\ pc'[e]["main"] = "toIdle" => Head(net[e]) = "NOTIFICATION"
      BY <3>2 DEF Dispatch, Answer
    <3>4. QED
      BY <1>0, <2>2, <3>1, <3>2, <3>3 DEF Quiet
  <2>3. QED
    BY <2>1, <2>2
<1>20. ASSUME NEW e \in Endpoints, ReadAgain(e) PROVE Goal
  <2>1. /\ hold' = hold /\ pc'[e]["timer"] = pc[e]["timer"]
        /\ \A c \in Endpoints : c # e => pc'[c] = pc[c]
        /\ pc'[e]["main"] \in {"rest", "sendSynAck", "sendAck", "sendOpen"}
    BY <1>20, <1>0, ReadAgainMoves DEF Threads
  <2>2. QED
    BY <2>1, <1>0 DEF Quiet
<1>6. ASSUME NEW e \in Endpoints, TcpReply(e) PROVE Goal
  <2>1. /\ pc'[d]["timer"] = pc[d]["timer"]
        /\ pc'[d]["main"] \in {pc[d]["main"], "rest", "sendOpen", "toOpen"}
    BY <1>6, <1>0, TcpReplyMoves
  <2>2. hold' = hold
    BY <1>6 DEF TcpReply
  <2>3. QED
    BY <1>0, <2>1, <2>2 DEF Quiet
<1>7. ASSUME NEW e \in Endpoints, EnterOpen(e) PROVE Goal
  BY <1>7, <1>0 DEF EnterOpen, Goto, counters, TypeOK, Threads, Quiet
<1>8. ASSUME NEW e \in Endpoints, OpenReply(e) PROVE Goal
  BY <1>8, <1>0 DEF OpenReply, Goto, counters, TypeOK, Threads, Quiet
<1>9. ASSUME NEW e \in Endpoints, EnterOpenConfirm(e) PROVE Goal
  BY <1>9, <1>0 DEF EnterOpenConfirm, Goto, counters, TypeOK, Threads, Quiet
<1>10. ASSUME NEW e \in Endpoints, EnterEstablished(e) PROVE Goal
  BY <1>10, <1>0 DEF EnterEstablished, Goto, counters, TypeOK, Threads, Quiet
<1>11. ASSUME NEW e \in Endpoints, EnterIdle(e) PROVE Goal
  BY <1>11, <1>0 DEF EnterIdle, Goto, counters, TypeOK, Threads, Quiet
<1>12. ASSUME NEW e \in Endpoints, RetryInConnect(e) PROVE Goal
  BY <1>12, <1>0 DEF RetryInConnect, counters, TypeOK, Threads, Quiet
<1>13. ASSUME NEW e \in Endpoints, RetryInActive(e) PROVE Goal
  <2>1. /\ pc'[d]["main"] = pc[d]["main"]
        /\ pc'[d]["timer"] \in {pc[d]["timer"], "rest", "sentSyn"}
    BY <1>13, <1>0, GotoType DEF RetryInActive, Threads, Positions
  <2>2. hold' = hold /\ (state'[d] = state[d] \/ state'[d] = "CONNECT")
    BY <1>13, <1>0 DEF RetryInActive, counters, TypeOK
  <2>3. QED
    BY <2>1, <2>2, <1>0 DEF Quiet
<1>14. ASSUME NEW e \in Endpoints, HoldExpired(e) PROVE Goal
  BY <1>14, <1>0 DEF HoldExpired, Goto, counters, TypeOK, Threads, Quiet
<1>15. ASSUME NEW e \in Endpoints, RetryDeadline(e) PROVE Goal
  BY <1>15, <1>0 DEF RetryDeadline, counters, TypeOK, Threads, Quiet
<1>16. ASSUME NEW e \in Endpoints, HoldDeadline(e) PROVE Goal
  <2>1. expiries[e] \in Nat /\ expiries[e] < 0
    BY <1>16, <1>0 DEF HoldDeadline, TypeOK, NoExpiries
  <2>2. QED
    BY <2>1
<1>17. ASSUME NEW e \in Endpoints, Lose(e) PROVE Goal
  BY <1>17, <1>0 DEF Lose, TypeOK, Threads, Quiet
<1>18. CASE UNCHANGED vars
  BY <1>18, <1>0 DEF vars, Quiet
<1>19. QED
  BY <1>1, <1>2, <1>3, <1>4, <1>5, <1>6, <1>7, <1>8, <1>9, <1>10, <1>11, <1>12, <1>13, <1>14, <1>15, <1>16, <1>17, <1>18, <1>20
     DEF Next, Main, StartConnection, Timer, Environment

\* Every frame under way is backed by the rung its sender has reached.
LEMMA BackedStep ==
  NoExpiries /\ ClimbInv /\ [Next]_vars => Backed'
<1> SUFFICES ASSUME NoExpiries, ClimbInv, [Next]_vars, NEW d \in Endpoints
             PROVE  /\ Carries(net'[d], "OPEN") => Rung(Peer[d])' >= 1
                    /\ Carries(net'[d], "KEEPALIVE") => Rung(Peer[d])' >= 2
                    /\ pc'[d]["main"] \in {"sendKeepalive", "toOpenConfirm"}
                         => Rung(Peer[d])' >= 1
                    /\ state'[d] = "OPEN_CONFIRM" => Rung(Peer[d])' >= 1
                    /\ pc'[d]["main"] = "toEstablished" => Rung(Peer[d])' >= 2
                    /\ state'[d] = "ESTABLISHED" => Rung(Peer[d])' >= 2
  BY DEF Backed
<1>1. Backed
  BY DEF ClimbInv
<1>2. Peer[d] \in Endpoints
  BY PeerAssumption
<1>3. /\ Rung(Peer[d])' >= Rung(Peer[d])
      /\ Rung(Peer[d]) \in 0 .. 3 /\ Rung(Peer[d])' \in 0 .. 3
  BY <1>2, RungGrows, RungType
<1>4. /\ pc'[Peer[d]]["main"] = "toOpen" => Rung(Peer[d])' >= 1
      /\ pc'[Peer[d]]["main"] = "toOpenConfirm" => Rung(Peer[d])' >= 2
  BY DEF Rung
<1>5. Carries(net'[d], "OPEN") => Rung(Peer[d])' >= 1
  <2>1. Carries(net[d], "OPEN") => Rung(Peer[d]) >= 1
    BY <1>1 DEF Backed
  <2>2. QED
    BY <1>3, <1>4, <2>1, WireStep DEF Telling
<1>6. Carries(net'[d], "KEEPALIVE") => Rung(Peer[d])' >= 2
  <2>1. Carries(net[d], "KEEPALIVE") => Rung(Peer[d]) >= 2
    BY <1>1 DEF Backed
  <2>2. QED
    BY <1>3, <1>4, <2>1, WireStep DEF Telling
<1>7. /\ pc'[d]["main"] \in {"sendKeepalive", "toOpenConfirm"} => Rung(Peer[d])' >= 1
      /\ state'[d] = "OPEN_CONFIRM" => Rung(Peer[d])' >= 1
  BY <1>1, <1>3, Reasons DEF Backed
<1>8. /\ pc'[d]["main"] = "toEstablished" => Rung(Peer[d])' >= 2
      /\ state'[d] = "ESTABLISHED" => Rung(Peer[d])' >= 2
  BY <1>1, <1>3, Reasons DEF Backed
<1>9. QED
  BY <1>5, <1>6, <1>7, <1>8

\* The initial states satisfy the inductive invariant.
LEMMA ClimbInit == Init => ClimbInv
<1> SUFFICES ASSUME Init PROVE ClimbInv
  OBVIOUS
<1>1. \A e \in Endpoints, f \in Frames : ~Carries(net[e], f)
  BY DEF Init, Carries
<1>2. TypeOK
  BY DEF Init, TypeOK, OwnPlaces, States, Timers, Threads, Positions
<1>3. Quiet /\ Backed
  BY <1>1 DEF Init, Quiet, Backed, Frames, Threads
<1>4. Placed
  BY DEF Init, Placed, PlacedAt, Threads
<1>5. QED
  BY <1>2, <1>3, <1>4 DEF ClimbInv

\* Every step without expiries preserves it.
LEMMA ClimbStep == NoExpiries /\ ClimbInv /\ [Next]_vars => ClimbInv'
  BY TypeStep, QuietStep, PlacedStep, BackedStep DEF ClimbInv

\* While no hold timer runs out an ESTABLISHED interface has a peer that has
\* confirmed it, for every number of links, retries, commands and lost frames.
THEOREM MutualEstablishment ==
  ASSUME NoExpiries
  PROVE  Spec => []EstablishedIsMutual
<1>1. ClimbInv => EstablishedIsMutual
  BY DEF ClimbInv, Backed, EstablishedIsMutual
<1>2. ClimbInv /\ [Next]_vars => ClimbInv'
  BY ClimbStep
<1>3. QED
  BY <1>1, <1>2, ClimbInit, PTL DEF Spec

\* And the link implements BgpHandshake: every step of the three threads, the
\* clock and the network is a step of the climb or leaves it where it is.
THEOREM ImplementsHandshake ==
  ASSUME NoExpiries
  PROVE  Spec => ClimbsInStep
<1> DEFINE rungs == [e \in Endpoints |-> Rung(e)]
<1>1. Init => Handshake!Init
  BY DEF Init, Handshake!Init, Handshake!Down, Rung, Threads
<1>2. ClimbInv /\ [Next]_vars => [Handshake!Next]_rungs
  <2> SUFFICES ASSUME ClimbInv, [Next]_vars PROVE [Handshake!Next]_rungs
    OBVIOUS
  <2>1. Moves
    BY RungStep
  <2>2. CASE \A d \in Endpoints : Rung(d)' = Rung(d)
    BY <2>2
  <2>3. ASSUME NEW e \in Endpoints,
               \A d \in Endpoints : d # e => Rung(d)' = Rung(d),
               Rung(e) = 0 /\ Rung(e)' = 1
        PROVE  Handshake!Announce(e)
    BY <2>3 DEF Handshake!Announce, Handshake!Down, Handshake!Open
  <2>4. ASSUME NEW e \in Endpoints,
               \A d \in Endpoints : d # e => Rung(d)' = Rung(d),
               Rung(e) \in {1, 2} /\ Rung(e)' = Rung(e) + 1,
               Rung(Peer[e]) >= Rung(e)
        PROVE  Handshake!Climb(e)
    BY <2>4, PeerAssumption
       DEF Handshake!Climb, Handshake!Open, Handshake!OpenConfirm
  <2>5. QED
    BY <2>1, <2>2, <2>3, <2>4 DEF Moves, Handshake!Next
<1>3. ClimbInv /\ [Next]_vars => ClimbInv'
  BY ClimbStep
<1>4. QED
  BY <1>1, <1>2, <1>3, ClimbInit, PTL DEF Spec, ClimbsInStep, Handshake!Spec
=============================================================================
