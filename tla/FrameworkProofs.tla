--------------------------- MODULE FrameworkProofs ---------------------------
(***************************************************************************)
(* Proofs about Framework, for every set of timers, every number of        *)
(* interfaces, every size of a frame and of a command, every workload and  *)
(* every bound.                                                            *)
(***************************************************************************)
EXTENDS Framework, TLAPS

-----------------------------------------------------------------------------
(***************************************************************************)
(* The inductive invariant.                                                *)
(***************************************************************************)

\* The main thread from the end of the first negotiation on, but for a recovery.
Simulating ==
  {"create", "await", "asleep", "loop", "process", "recover", "lock", "send", "assign"}

\* The requests of the negotiation under way or done last, and what has been
\* written to the last connection.
Agenda  == Requests(resuming)
Current == streams[Len(streams)]

\* Each kind of thread has its places.
PlacesInv ==
  /\ at[Main] \notin {"unborn", "initialize", "signal", "run"}
  /\ \A u \in Users :
       at[u] \in {"unborn", "initialize", "signal", "run", "lock", "send", "assign", "interrupted"}
  /\ \A u \in Timers : at[u] \notin {"initialize", "signal"}

\* How far the start has got: the interfaces are read between the requests, and no
\* thread is born before all is negotiated.
StartInv ==
  /\ stage <= Len(Agenda)
  /\ at[Main] = "connect" => stage = 1
  /\ at[Main] = "read" => ~ resuming /\ stage = 4 /\ ready < Interfaces
  /\ at[Main] = "create" => ~ resuming
  /\ at[Main] \in {"connect", "ask", "hear"} /\ ~ resuming =>
       ready = IF stage <= 4 THEN 0 ELSE Interfaces
  /\ resuming \/ at[Main] \in Simulating => ready = Interfaces
  /\ at[Main] \in {"connect", "ask", "hear", "read", "create"} /\ ~ resuming =>
       mutex = Nobody /\ \A u \in Users : at[u] = "unborn"
  /\ initialized => at[Run] \notin {"unborn", "initialize"}
  /\ resuming \/ at[Main] \in {"loop", "process", "recover", "lock", "send", "assign"} =>
       initialized

\* A map is taken once, before the third request of the first negotiation.
MapInv ==
  /\ maps <= 1
  /\ needNewMap = 1 /\ stage <= 2 => maps = 0
  /\ resuming => needNewMap # 1

\* Who sends has the mutex and is not done; a recovery has it throughout.
MutexInv ==
  /\ \A t \in Threads : at[t] = "lock" => part[t] = 0
  /\ \A t \in Threads : at[t] = "send" => mutex = t /\ part[t] < Size(call[t].what)
  /\ resuming /\ at[Main] \in {"connect", "ask", "hear"} => mutex = Main

\* The negotiation writes to a connection of its own.
ConnectionInv ==
  /\ line \in {"up", "closed"} => streams # <<>>
  /\ ~ resuming => IF at[Main] = "connect" THEN streams = <<>> ELSE Len(streams) = 1
  /\ resuming => Len(streams) >= IF at[Main] \in {"connect", "interrupted"} THEN 1 ELSE 2
  /\ at[Main] = "ask" => Len(Current) = stage - 1
  /\ at[Main] \in {"hear", "read"} => Len(Current) = stage
  /\ at[Main] \in Simulating => Len(Current) >= Len(Agenda)

\* The negotiation, or the last command written to a connection, is complete.
Complete ==
  Len(Current) = Len(Agenda) \/ Current[Len(Current)].part = Size(Current[Len(Current)].what)

\* While a connection takes what is sent, who holds the mutex can tell how the
\* stream ends: with a complete command, or in the middle of one's own.
CommandInv ==
  at[Main] \in Simulating /\ line \in {"up", "closed"} =>
    /\ mutex = Nobody => Complete
    /\ \A t \in Threads : at[t] = "send" =>
         IF part[t] = 0 THEN Complete
         ELSE Len(Current) > Len(Agenda) /\ Current[Len(Current)] = Part(t, part[t])

\* Who is about to assign has announced just that, and nothing else since.
HasAnnounced(t, i, f) ==
  \E p \in Announced(i, f) :
    /\ Piece(p).by = t /\ Piece(p).address = call[t].address
    /\ \A q \in Announced(i, f) : IsLater(q, p) => Piece(q).by # t
AnnouncedInv ==
  \A t \in Threads : at[t] = "assign" =>
    call[t].what \in Changes /\ HasAnnounced(t, call[t].iface, call[t].what)

\* Of the parts TypeOK says how many they may be; that there is one count per thread:
PartType == part \in [Threads -> Nat]

\* All but the streams' contents, which build on it.
IndInv ==
  /\ TypeOK /\ PartType
  /\ PlacesInv /\ StartInv /\ MapInv /\ MutexInv /\ ConnectionInv

-----------------------------------------------------------------------------
(***************************************************************************)
(* Requests, parts of commands, and what send() does to the streams.       *)
(***************************************************************************)

\* The threads are different ones.
LEMMA ThreadsDiffer ==
  /\ Main \in Threads /\ Run \in Threads /\ Users \subseteq Threads /\ Timers \subseteq Users
  /\ Run \in Users
  /\ Main \notin Users /\ Nobody \notin Threads
  /\ \A t \in Threads : Home(t) \in {"process", "run"}
  BY ThreadsAssumption DEF Threads, Users, Home

\* Six requests at the start, four in a recovery, and none of them is a command.
LEMMA RequestsLength ==
  /\ Len(Requests(FALSE)) = 6 /\ Len(Requests(TRUE)) = 4
  BY DEF Requests

\* and they are told apart by their places, at the start and in a recovery.
LEMMA RequestsAre ==
  /\ \A i \in 1 .. 6 : /\ Requests(FALSE)[i] \notin Calls
                       /\ (Requests(FALSE)[i] = "interfaces" <=> i = 4)
                       /\ (Requests(FALSE)[i] = "map" <=> i = 2)
  /\ \A i \in 1 .. 4 : /\ Requests(TRUE)[i] \notin Calls
                       /\ Requests(TRUE)[i] # "interfaces"
                       /\ (Requests(TRUE)[i] = "map" <=> i = 2)
  BY DEF Requests, Calls, Changes

\* A recovery asks for nothing new.
LEMMA RequestsAgain ==
  \A i \in 1 .. 4 : \E j \in 1 .. 6 : Requests(TRUE)[i] = Requests(FALSE)[j]
  BY DEF Requests

\* The agenda has six or four of them,
LEMMA AgendaLength ==
  ASSUME resuming \in BOOLEAN
  PROVE  Len(Agenda) = IF resuming THEN 4 ELSE 6
<1>1. CASE resuming = TRUE
  BY <1>1, RequestsLength DEF Agenda
<1>2. CASE resuming = FALSE
  BY <1>2, RequestsLength DEF Agenda
<1>3. QED
  BY <1>1, <1>2

\* the stage is a place in it, and says what is asked for,
LEMMA StageIs ==
  ASSUME TypeOK, StartInv
  PROVE  /\ Len(Agenda) = IF resuming THEN 4 ELSE 6
         /\ stage \in 1 .. Len(Agenda)
         /\ Agenda[stage] \notin Calls
         /\ Agenda[stage] = "interfaces" <=> ~ resuming /\ stage = 4
         /\ Agenda[stage] = "map" <=> stage = 2
<1>1. stage \in 1 .. 6 /\ resuming \in BOOLEAN /\ stage <= Len(Agenda)
  BY DEF TypeOK, StartInv
<1>2. CASE resuming = TRUE
  <2>1. Agenda = Requests(TRUE) /\ Len(Agenda) = 4
    BY <1>2, RequestsLength DEF Agenda
  <2> DEFINE last == Len(Agenda)
  <2>2. stage \in 1 .. 6 /\ stage <= last /\ last = 4
    BY <1>1, <2>1
  <2> HIDE DEF last
  <2>3. stage \in 1 .. 4
    BY <2>2
  <2>4. /\ Requests(TRUE)[stage] \notin Calls
        /\ Requests(TRUE)[stage] = "map" <=> stage = 2
        /\ Requests(TRUE)[stage] # "interfaces"
    BY <2>3, RequestsAre
  <2>5. QED
    BY <1>1, <1>2, <2>1, <2>3, <2>4
<1>3. CASE resuming = FALSE
  <2>1. Agenda = Requests(FALSE) /\ Len(Agenda) = 6 /\ stage \in 1 .. 6
    BY <1>1, <1>3, RequestsLength DEF Agenda
  <2>2. /\ Requests(FALSE)[stage] \notin Calls
        /\ Requests(FALSE)[stage] = "map" <=> stage = 2
        /\ Requests(FALSE)[stage] = "interfaces" <=> stage = 4
    BY <2>1, RequestsAre
  <2>3. QED
    BY <1>1, <1>3, <2>1, <2>2
<1>4. QED
  BY <1>1, <1>2, <1>3

\* and a request is a piece.
LEMMA RequestType ==
  ASSUME NEW again \in BOOLEAN, NEW i \in 1 .. Len(Requests(again))
  PROVE  Request(Requests(again)[i]) \in Pieces
<1>1. PICK j \in 1 .. 6 : Requests(again)[i] = Requests(FALSE)[j]
  <2>1. CASE again
    BY <2>1, RequestsLength, RequestsAgain
  <2>2. CASE ~ again
    <3>1. again = FALSE
      BY <2>2
    <3>2. QED
      BY <3>1, RequestsLength
  <2>3. QED
    BY <2>1, <2>2
<1>2. Requests(again)[i] \in {Requests(FALSE)[k] : k \in 1 .. 6}
  BY <1>1
<1>3. Original \in Addresses /\ 0 \in 0 .. Interfaces /\ Main \in Threads
  BY CallsAssumption, ThreadsDiffer, SizesAssumption
<1>4. QED
  BY <1>2, <1>3 DEF Request, Pieces

\* A command takes something on the wire,
LEMMA SizeType == \A what : Size(what) \in Nat \ {0}
  BY SizesAssumption DEF Size

\* each part of it is a piece,
LEMMA PartIsPiece ==
  ASSUME TypeOK, NEW t \in Threads, NEW i \in Nat
  PROVE  Part(t, i) \in Pieces
<1>1. call[t] \in CallRecords /\ calls[t] \in [Calls -> Nat]
  BY DEF TypeOK
<1>2. calls[t][call[t].what] \in Nat
  BY <1>1 DEF CallRecords
<1>3. QED
  BY <1>1, <1>2 DEF Part, Pieces, CallRecords

\* and the parts of one write are a sequence of them.
LEMMA PartsAreSeq ==
  ASSUME TypeOK, PartType, NEW t \in Threads, NEW n \in part[t] + 1 .. Size(call[t].what)
  PROVE  /\ [i \in 1 .. n - part[t] |-> Part(t, part[t] + i)] \in Seq(Pieces)
         /\ part[t] \in Nat /\ n \in Nat /\ n - part[t] \in Nat \ {0}
<1>1. part[t] \in Nat /\ n \in Nat /\ n - part[t] \in Nat \ {0}
  BY SizeType DEF PartType
<1>2. \A i \in 1 .. n - part[t] : Part(t, part[t] + i) \in Pieces
  BY <1>1, PartIsPiece
<1>3. [i \in 1 .. n - part[t] |-> Part(t, part[t] + i)] \in [1 .. n - part[t] -> Pieces]
  BY <1>2
<1>4. \A m \in Nat : \A f \in [1 .. m -> Pieces] : f \in Seq(Pieces)
  OBVIOUS
<1>5. QED
  BY <1>1, <1>3, <1>4

\* What send() takes goes to the end of the last stream, whatever is before it.
LEMMA DeliversType ==
  ASSUME TypeOK, ConnectionInv, NEW pieces \in Seq(Pieces), Delivers(pieces)
  PROVE  /\ streams' \in Seq(Seq(Pieces)) /\ Len(streams') = Len(streams) /\ Len(streams) # 0
         /\ \A k \in 1 .. Len(streams) :
              streams'[k] = IF k = Len(streams) THEN streams[k] \o pieces ELSE streams[k]
<1>1. streams \in Seq(Seq(Pieces)) /\ streams # <<>>
  BY DEF TypeOK, ConnectionInv, Delivers
<1>2. Len(streams) \in 1 .. Len(streams) /\ streams[Len(streams)] \in Seq(Pieces)
  BY <1>1
<1>3. streams[Len(streams)] \o pieces \in Seq(Pieces)
  BY <1>2
<1>4. QED
  BY <1>1, <1>2, <1>3 DEF Delivers

\* The last stream is longer by what is taken.
LEMMA CurrentGrows ==
  ASSUME TypeOK, ConnectionInv, NEW pieces \in Seq(Pieces), Delivers(pieces)
  PROVE  /\ Current \in Seq(Pieces) /\ Current' = Current \o pieces
         /\ Len(Current') = Len(Current) + Len(pieces)
         /\ Len(Current) \in Nat /\ Len(pieces) \in Nat
<1>1. streams \in Seq(Seq(Pieces)) /\ Len(streams) \in 1 .. Len(streams)
  BY DeliversType DEF TypeOK
<1>2. Current \in Seq(Pieces)
  BY <1>1 DEF Current
<1>3. Current' = Current \o pieces
  BY <1>1, DeliversType DEF Current
<1>4. QED
  BY <1>2, <1>3

\* sendFrame, walk, setIp and setMask are calls.
LEMMA CallsAre ==
  \A t \in Threads : SendFrame(t) \/ Walk(t) \/ SetAddress(t) =>
    \E c \in CallRecords : Call(t, c)
<1>1. Plain("frame") \in CallRecords /\ Plain("walk") \in CallRecords
  BY CallsAssumption, SizesAssumption DEF Plain, CallRecords, Calls
<1>2. \A i \in Settable, f \in Changes, a \in Addresses :
        [what |-> f, iface |-> i, address |-> a] \in CallRecords
  BY CallsAssumption, SizesAssumption DEF CallRecords, Calls
<1>3. QED
  BY <1>1, <1>2 DEF SendFrame, Walk, SetAddress

\* Write either appends the next parts of the command, up to its end or to that of
\* the header, or changes nothing that has been sent.
LEMMA WriteCases ==
  ASSUME NEW t \in Threads, PartType, Write(t)
  PROVE  \/ \E n \in part[t] + 1 .. Size(call[t].what) :
              /\ Delivers([i \in 1 .. n - part[t] |-> Part(t, part[t] + i)])
              /\ part' = [part EXCEPT ![t] = n]
              /\ at' = IF n < Size(call[t].what) THEN at
                       ELSE [at EXCEPT ![t] = IF call[t].what \in Changes THEN "assign"
                                              ELSE Home(t)]
              /\ mutex' = IF n < Size(call[t].what) THEN mutex ELSE Nobody
              /\ UNCHANGED <<line, over>>
         \/ GivesUp(t) /\ UNCHANGED <<streams, part, over>>
         \/ SendKills /\ UNCHANGED <<at, mutex, line, streams, part>>
<1> DEFINE last == Size(call[t].what)
           end  == IF call[t].what = "frame" /\ part[t] < HeaderSize THEN HeaderSize ELSE last
<1>1. end \in Nat /\ last \in Nat /\ end <= last /\ part[t] \in Nat
  BY SizesAssumption DEF Size, PartType
<1>2. part[t] + 1 .. end \subseteq part[t] + 1 .. last
  BY <1>1
<1>3. QED
  BY <1>2 DEF Write

-----------------------------------------------------------------------------
(***************************************************************************)
(* Types.                                                                  *)
(***************************************************************************)

\* All variables have their type at the start,
LEMMA TypeInit == Init => TypeOK /\ PartType
<1> SUFFICES ASSUME Init PROVE TypeOK /\ PartType
  OBVIOUS
<1>1. over \in BOOLEAN /\ nodeName \in BOOLEAN /\ needNewMap \in {-1, 0, 1}
  BY DEF Init, IsUsed, Contains, NeedNewMaps
<1>2. maps \in 0 .. Ipu
  BY <1>1, SizesAssumption DEF Init
<1>3. call \in [Threads -> CallRecords]
  BY CallsAssumption, SizesAssumption DEF Init, Plain, CallRecords, Calls
<1>4. \A t \in Threads : part[t] \in 0 .. Size(call[t].what)
  BY SizeType DEF Init
<1>5. addresses \in [1 .. Interfaces -> [Changes -> Addresses]]
  BY CallsAssumption DEF Init
<1>6. at \in [Threads -> Places] /\ calls \in [Threads -> [Calls -> Nat]] /\ PartType
  BY DEF Init, PartType, Places
<1>7. streams \in Seq(Seq(Pieces))
  BY DEF Init
<1>8. /\ mutex \in Threads \cup {Nobody} /\ line \in Lines /\ initialized \in BOOLEAN
      /\ resuming \in BOOLEAN /\ stage \in 1 .. 6 /\ ready \in 0 .. Interfaces
      /\ received \in Nat /\ resets \in Nat /\ faults \in Nat
  <2>1. /\ mutex = Nobody /\ line = "none" /\ stage = 1 /\ ready = 0
        /\ received = 0 /\ resets = 0 /\ faults = 0
    BY DEF Init
  <2>2. initialized \in BOOLEAN /\ resuming \in BOOLEAN
    BY DEF Init
  <2>3. QED
    BY <2>1, <2>2, SizesAssumption DEF Lines
<1>9. QED
  BY <1>1, <1>2, <1>3, <1>4, <1>5, <1>6, <1>7, <1>8 DEF TypeOK

\* and keep it.  (The definitions that group variables are expanded throughout.)
LEMMA TypeStep ==
  ASSUME IndInv, [Next]_vars
  PROVE  TypeOK' /\ PartType'
<1> USE ThreadsDiffer DEF args, bounds, user, negotiated, started, calm, idle, IndInv
<1>1. CASE Connect
  <2>1. at' \in [Threads -> Places] /\ mutex' \in Threads \cup {Nobody} /\ over' \in BOOLEAN
    BY <1>1 DEF Connect, Fails, TypeOK, Places
  <2>2. streams' \in Seq(Seq(Pieces))
    <3>1. streams \in Seq(Seq(Pieces)) /\ <<>> \in Seq(Pieces)
      BY DEF TypeOK
    <3>2. Append(streams, <<>>) \in Seq(Seq(Pieces))
      BY <3>1
    <3>3. QED
      BY <1>1, <3>1, <3>2 DEF Connect
  <2>3. line' \in Lines /\ faults' \in Nat /\ received' \in Nat /\ resets' \in Nat
    BY <1>1 DEF Connect, Fault, TypeOK, Lines
  <2>4. QED
    BY <1>1, <2>1, <2>2, <2>3 DEF Connect, Fault, TypeOK, PartType
<1>2. CASE Ask
  <2>1. at' \in [Threads -> Places] /\ mutex' \in Threads \cup {Nobody} /\ over' \in BOOLEAN
    BY <1>2 DEF Ask, Fails, TypeOK, Places, SendKills
  <2>2. streams' \in Seq(Seq(Pieces))
    <3>0. resuming \in BOOLEAN /\ stage \in 1 .. Len(Requests(resuming))
      <4>1. stage \in 1 .. 6 /\ stage <= Len(Requests(resuming)) /\ resuming \in BOOLEAN
        BY DEF Agenda, StartInv, TypeOK
      <4>2. Len(Requests(resuming)) \in {4, 6}
        BY <4>1, AgendaLength DEF Agenda
      <4>3. QED
        BY <4>1, <4>2
    <3>1. Request(Agenda[stage]) \in Pieces
      BY <3>0, RequestType DEF Agenda
    <3>2. <<Request(Agenda[stage])>> \in Seq(Pieces)
      BY <3>1
    <3>3. QED
      BY <1>2, <3>2, DeliversType DEF Ask, Agenda, TypeOK
  <2>3. line' \in Lines
    BY <1>2 DEF Ask, SendFails, SendKills, TypeOK, Lines
  <2>4. QED
    BY <1>2, <2>1, <2>2, <2>3 DEF Ask, TypeOK, PartType
<1>3. CASE Hear
  <2>1. at' \in [Threads -> Places] /\ mutex' \in Threads \cup {Nobody} /\ over' \in BOOLEAN
    BY <1>3 DEF Hear, Accepted, Fails, TypeOK, Places, ReceiveEnds
  <2>2. maps' \in 0 .. Ipu
    BY <1>3, SizesAssumption DEF Hear, MapIsSelected, MapIsReleased, TypeOK
  <2>3. stage' \in 1 .. 6
    <3> DEFINE last == Len(Agenda)
    <3>1. stage \in 1 .. 6 /\ stage <= last /\ last \in {4, 6}
      BY AgendaLength DEF TypeOK, StartInv
    <3>2. stage' = stage \/ (stage # last /\ stage' = stage + 1)
      BY <1>3 DEF Hear, Accepted, Agenda
    <3> HIDE DEF last
    <3>3. QED
      BY <3>1, <3>2
  <2>4. QED
    BY <1>3, <2>1, <2>2, <2>3, SMTT(60) DEF Hear, ReceiveFails, Fault, TypeOK, PartType, Lines
<1>4. CASE ReadInterface
  <2>1. at' \in [Threads -> Places] /\ mutex' \in Threads \cup {Nobody} /\ over' \in BOOLEAN
    BY <1>4 DEF ReadInterface, Fails, TypeOK, Places, ReceiveEnds
  <2>2. stage' \in 1 .. 6 /\ ready' \in 0 .. Interfaces
    BY <1>4, SizesAssumption DEF ReadInterface, StartInv, TypeOK
  <2>3. QED
    BY <1>4, <2>1, <2>2, SMTT(60) DEF ReadInterface, ReceiveFails, Fault, TypeOK, PartType, Lines
<1>5. CASE CreateThread
  <2>1. at' \in [Threads -> Places]
    BY <1>5 DEF CreateThread, TypeOK, Places
  <2>2. faults' \in Nat
    BY <1>5 DEF CreateThread, TypeOK
  <2>3. QED
    BY <1>5, <2>1, <2>2 DEF CreateThread, TypeOK, PartType
<1>6. CASE AwaitInitialization
  BY <1>6 DEF AwaitInitialization, Step, TypeOK, PartType, Places
<1>7. CASE ReceiveError
  BY <1>7 DEF ReceiveError, ReceiveFails, Step, TypeOK, PartType, Places, Lines
<1>8. CASE ReceiveEnd
  BY <1>8 DEF ReceiveEnd, ReceiveEnds, TypeOK, PartType, Places
<1>9. CASE FrameIsProcessed
  BY <1>9 DEF FrameIsProcessed, Step, TypeOK, PartType, Places
<1>10. CASE WakeUp
  BY <1>10 DEF WakeUp, Step, TypeOK, PartType, Places
<1>11. CASE SetInitialized
  BY <1>11 DEF SetInitialized, Step, TypeOK, PartType, Places
<1>12. CASE Signal
  BY <1>12 DEF Signal, TypeOK, PartType, Places
<1>13. ASSUME NEW t \in Timers, StartTimer(t) PROVE TypeOK' /\ PartType'
  BY <1>13 DEF StartTimer, Step, TypeOK, PartType, Places
<1>14. CASE ReceiveFrame
  BY <1>14 DEF ReceiveFrame, Step, TypeOK, PartType, Places
<1>15. CASE ReceiveNonsense
  BY <1>15 DEF ReceiveNonsense, Fault, Step, TypeOK, PartType, Places
<1>16. CASE RecoverSimulation
  BY <1>16 DEF RecoverSimulation, Step, TypeOK, PartType, Places, Lines
<1>17. ASSUME NEW t \in Threads, NEW c \in CallRecords, Call(t, c)
       PROVE  TypeOK' /\ PartType'
  <2>1. at' \in [Threads -> Places] /\ call' \in [Threads -> CallRecords]
    BY <1>17 DEF Call, Step, TypeOK, Places
  <2>2. calls' \in [Threads -> [Calls -> Nat]]
    <3>1. calls[t] \in [Calls -> Nat] /\ c.what \in Calls
      BY <1>17 DEF CallRecords, TypeOK
    <3>2. [calls[t] EXCEPT ![c.what] = @ + 1] \in [Calls -> Nat]
      BY <3>1
    <3>3. calls' = [calls EXCEPT ![t] = [calls[t] EXCEPT ![c.what] = @ + 1]]
      BY <1>17 DEF Call
    <3>4. QED
      BY <3>2, <3>3 DEF TypeOK
  <2>3. PartType' /\ \A u \in Threads : part'[u] \in 0 .. Size(call'[u].what)
    BY <1>17, SizeType, SMTT(60) DEF Call, TypeOK, PartType
  <2>4. QED
    BY <1>17, <2>1, <2>2, <2>3 DEF Call, TypeOK
<1>18. ASSUME NEW t \in Threads, Lock(t) PROVE TypeOK' /\ PartType'
  BY <1>18, ZenonT(60) DEF Lock, Step, TypeOK, PartType, Places
<1>19. ASSUME NEW t \in Threads, Write(t) PROVE TypeOK' /\ PartType'
  <2>1. at' \in [Threads -> Places] /\ mutex' \in Threads \cup {Nobody} /\ over' \in BOOLEAN
    BY <1>19 DEF Write, GivesUp, SendKills, TypeOK, Places
  <2>2. line' \in Lines
    BY <1>19 DEF Write, GivesUp, SendFails, SendKills, TypeOK, Lines
  <2>3. /\ PartType' /\ streams' \in Seq(Seq(Pieces))
        /\ \A u \in Threads : part'[u] \in 0 .. Size(call[u].what)
    <3>1. CASE UNCHANGED <<streams, part>>
      BY <3>1 DEF TypeOK, PartType
    <3>2. ASSUME NEW n \in part[t] + 1 .. Size(call[t].what),
                 Delivers([i \in 1 .. n - part[t] |-> Part(t, part[t] + i)]),
                 part' = [part EXCEPT ![t] = n]
          PROVE  /\ PartType' /\ streams' \in Seq(Seq(Pieces))
                 /\ \A u \in Threads : part'[u] \in 0 .. Size(call[u].what)
      <4>1. part[t] \in Nat /\ n \in Nat
        BY PartsAreSeq
      <4>2. n \in 0 .. Size(call[t].what)
        BY <4>1, SizeType
      <4>5. streams' \in Seq(Seq(Pieces))
        BY <3>2, PartsAreSeq, DeliversType
      <4>6. QED
        BY <3>2, <4>1, <4>2, <4>5 DEF TypeOK, PartType
    <3>3. QED
      BY <1>19, <3>1, <3>2, WriteCases
  <2>4. QED
    BY <1>19, <2>1, <2>2, <2>3 DEF Write, TypeOK
<1>20. ASSUME NEW t \in Threads, Assign(t) PROVE TypeOK' /\ PartType'
  <2>1. addresses' \in [1 .. Interfaces -> [Changes -> Addresses]]
    BY <1>20 DEF Assign, TypeOK, CallRecords
  <2>2. at' \in [Threads -> Places]
    BY <1>20 DEF Assign, Step, TypeOK, Places
  <2>3. QED
    BY <1>20, <2>1, <2>2 DEF Assign, TypeOK, PartType
<1>21. ASSUME NEW t \in Threads, Interrupt(t) PROVE TypeOK' /\ PartType'
  <2>1. at' \in [Threads -> Places] /\ over' \in BOOLEAN
    BY <1>21 DEF Interrupt, TypeOK, Places
  <2>2. QED
    BY <1>21, <2>1 DEF Interrupt, Fault, TypeOK, PartType
<1>22. ASSUME NEW t \in Threads, Destroy(t) PROVE TypeOK' /\ PartType'
  BY <1>22 DEF Destroy, TypeOK, PartType, Lines
<1>23. CASE ConnectionBreaks
  BY <1>23, SMTT(60) DEF ConnectionBreaks, Fault, TypeOK, PartType, Lines
<1>24. CASE UNCHANGED vars
  BY <1>24 DEF vars, TypeOK, PartType
<1>25. QED
  BY <1>1, <1>2, <1>3, <1>4, <1>5, <1>6, <1>7, <1>8, <1>9, <1>10, <1>11, <1>12, <1>13, <1>14,
     <1>15, <1>16, <1>17, <1>18, <1>19, <1>20, <1>21, <1>22, <1>23, <1>24, CallsAre
  DEF Next, MainRuns

\* No thread leaves its places.
LEMMA PlacesStep ==
  ASSUME IndInv, [Next]_vars
  PROVE  PlacesInv'
<1> USE ThreadsDiffer DEF args, bounds, user, negotiated, started, calm, idle, IndInv
<1>1. CASE Connect
  BY <1>1 DEF Connect, Fails, Fault, PlacesInv, TypeOK
<1>2. CASE Ask
  BY <1>2 DEF Ask, Fails, Delivers, SendFails, SendKills, PlacesInv, TypeOK
<1>3. CASE Hear
  BY <1>3, ZenonT(60) DEF Hear, Fails, Accepted, Fault, ReceiveFails, ReceiveEnds, PlacesInv, TypeOK
<1>4. CASE ReadInterface
  BY <1>4 DEF ReadInterface, Fails, Fault, ReceiveFails, ReceiveEnds, PlacesInv, TypeOK
<1>5. CASE CreateThread
  <2>1. /\ at'[Main] \in {"await", "interrupted"}
        /\ at'[Run] = at[Run] \/ at'[Run] = "initialize"
        /\ \A u \in Timers : at'[u] = at[u]
    BY <1>5, ThreadsAssumption DEF CreateThread, TypeOK
  <2>2. QED
    BY <2>1 DEF PlacesInv, Users
<1>6. CASE AwaitInitialization
  BY <1>6 DEF AwaitInitialization, Step, PlacesInv, TypeOK
<1>7. CASE ReceiveError
  BY <1>7 DEF ReceiveError, ReceiveFails, Step, PlacesInv, TypeOK
<1>8. CASE ReceiveEnd
  BY <1>8 DEF ReceiveEnd, ReceiveEnds, PlacesInv, TypeOK
<1>9. CASE FrameIsProcessed
  BY <1>9 DEF FrameIsProcessed, Step, PlacesInv, TypeOK
<1>10. CASE WakeUp
  BY <1>10 DEF WakeUp, Step, PlacesInv, TypeOK
<1>11. CASE SetInitialized
  BY <1>11 DEF SetInitialized, Step, PlacesInv, TypeOK
<1>12. CASE Signal
  BY <1>12 DEF Signal, PlacesInv, TypeOK
<1>13. ASSUME NEW t \in Timers, StartTimer(t) PROVE PlacesInv'
  BY <1>13 DEF StartTimer, Step, PlacesInv, TypeOK
<1>14. CASE ReceiveFrame
  BY <1>14 DEF ReceiveFrame, Step, PlacesInv, TypeOK
<1>15. CASE ReceiveNonsense
  BY <1>15 DEF ReceiveNonsense, Step, Fault, PlacesInv, TypeOK
<1>16. CASE RecoverSimulation
  BY <1>16 DEF RecoverSimulation, Step, PlacesInv, TypeOK
<1>17. ASSUME NEW t \in Threads, NEW c \in CallRecords, Call(t, c) PROVE PlacesInv'
  BY <1>17 DEF Call, Step, Home, PlacesInv, TypeOK
<1>18. ASSUME NEW t \in Threads, Lock(t) PROVE PlacesInv'
  BY <1>18, ZenonT(60) DEF Lock, Step, Home, PlacesInv, TypeOK
<1>19. ASSUME NEW t \in Threads, Write(t) PROVE PlacesInv'
  BY <1>19, ZenonT(60) DEF Write, GivesUp, SendKills, Home, PlacesInv, TypeOK
<1>20. ASSUME NEW t \in Threads, Assign(t) PROVE PlacesInv'
  BY <1>20 DEF Assign, Step, Home, PlacesInv, TypeOK
<1>21. ASSUME NEW t \in Threads, Interrupt(t) PROVE PlacesInv'
  BY <1>21 DEF Interrupt, PlacesInv, TypeOK
<1>22. ASSUME NEW t \in Threads, Destroy(t) PROVE PlacesInv'
  BY <1>22 DEF Destroy, PlacesInv, TypeOK
<1>23. CASE ConnectionBreaks
  BY <1>23 DEF ConnectionBreaks, PlacesInv, TypeOK
<1>24. CASE UNCHANGED vars
  BY <1>24 DEF vars, PlacesInv, TypeOK
<1>25. QED
  BY <1>1, <1>2, <1>3, <1>4, <1>5, <1>6, <1>7, <1>8, <1>9, <1>10, <1>11, <1>12, <1>13, <1>14, <1>15, <1>16, <1>17, <1>18, <1>19, <1>20, <1>21, <1>22, <1>23, <1>24, CallsAre DEF Next, MainRuns

\* The start goes on in its order.
LEMMA StartStep ==
  ASSUME IndInv, [Next]_vars
  PROVE  StartInv'
<1> USE ThreadsDiffer DEF args, bounds, user, negotiated, started, calm, idle, IndInv
<1>1. CASE Connect
  BY <1>1 DEF Connect, Fails, Fault, StartInv, PlacesInv, MutexInv, TypeOK, Agenda, Simulating
<1>2. CASE Ask
  BY <1>2 DEF Ask, Fails, Delivers, SendFails, SendKills, StartInv, PlacesInv, MutexInv, TypeOK, Agenda, Simulating
<1>3. CASE Hear
  <2>1. UNCHANGED <<initialized, resuming, ready>> /\ \A u \in Users : at'[u] = at[u]
    BY <1>3 DEF Hear, Accepted, Fails, ReceiveEnds, TypeOK
  <2>2. at'[Main] = "interrupted" /\ UNCHANGED stage => StartInv'
    BY <1>3, <2>1 DEF Hear, StartInv, Agenda, TypeOK, PlacesInv, Simulating
  <2>3. UNCHANGED <<at, mutex, stage>> => StartInv'
    BY <2>1 DEF StartInv, Agenda, Simulating
  <2>4. ASSUME Accepted PROVE StartInv'
    <3>1. CASE Agenda[stage] = "interfaces"
      <4>1. at'[Main] = "read" /\ UNCHANGED <<stage, mutex>> /\ stage = 4 /\ ~ resuming
        <5>1. stage = 4 /\ ~ resuming /\ stage # Len(Agenda)
          BY <3>1, StageIs
        <5>2. UNCHANGED <<stage, mutex>>
          BY <2>4, <3>1, <5>1 DEF Accepted, Agenda
        <5>3. at' = [at EXCEPT ![Main] = "read"]
          BY <2>4, <3>1, <5>1 DEF Accepted, Agenda
        <5>4. QED
          BY <5>1, <5>2, <5>3 DEF TypeOK
      <4>2. QED
        BY <1>3, <2>1, <4>1, SizesAssumption DEF Hear, StartInv, Agenda, Simulating
    <3>2. CASE Agenda[stage] # "interfaces" /\ stage = Len(Agenda)
      <4>1. /\ UNCHANGED stage
            /\ at'[Main] = IF resuming THEN "loop" ELSE "create"
            /\ resuming \/ UNCHANGED mutex
        BY <1>3, <2>4, <3>2 DEF Accepted, Agenda, TypeOK
      <4>2. QED
        BY <1>3, <2>1, <3>2, <4>1, StageIs, SMTT(60) DEF Hear, StartInv, Agenda, Simulating, TypeOK
    <3>3. CASE Agenda[stage] # "interfaces" /\ stage # Len(Agenda)
      <4>1. stage' = stage + 1 /\ at'[Main] = "ask" /\ UNCHANGED mutex
        BY <1>3, <2>4, <3>3 DEF Accepted, Agenda, TypeOK
      <4>2. ~ resuming => stage # 4
        BY <3>3, StageIs
      <4>3. QED
        BY <1>3, <2>1, <3>3, <4>1, <4>2, StageIs DEF Hear, StartInv, Agenda, Simulating, TypeOK
    <3>4. QED
      BY <3>1, <3>2, <3>3
  <2>5. QED
    BY <1>3, <2>2, <2>3, <2>4 DEF Hear, Fails, ReceiveEnds, TypeOK
<1>4. CASE ReadInterface
  <2>1. /\ UNCHANGED <<initialized, resuming>> /\ \A u \in Users : at'[u] = at[u]
        /\ ~ resuming /\ stage = 4 /\ ready < Interfaces
        /\ ready \in Nat /\ Interfaces \in Nat /\ Len(Agenda) = 6
    BY <1>4, StageIs, SizesAssumption
    DEF ReadInterface, Fails, ReceiveEnds, TypeOK, StartInv
  <2>2. \/ UNCHANGED <<at, mutex, stage, ready>>
        \/ at'[Main] = "interrupted" /\ UNCHANGED <<mutex, stage, ready>>
        \/ ready' = ready + 1 /\ ready' # Interfaces /\ UNCHANGED <<at, mutex, stage>>
        \/ ready' = Interfaces /\ at'[Main] = "ask" /\ stage' = 5 /\ UNCHANGED mutex
    BY <1>4, <2>1 DEF ReadInterface, Fails, ReceiveEnds, TypeOK
  <2>3. QED
    BY <1>4, <2>1, <2>2 DEF ReadInterface, StartInv, Agenda, Simulating
<1>5. CASE CreateThread
  <2>1. /\ at'[Main] \in {"await", "interrupted"} /\ UNCHANGED <<initialized, stage, resuming, ready, mutex>>
        /\ at[Main] = "create"
    BY <1>5, ThreadsAssumption DEF CreateThread, TypeOK
  <2>2. ~ initialized \/ at'[Run] = at[Run] \/ at[Run] = "unborn"
    BY <1>5 DEF CreateThread, StartInv, Simulating
  <2>3. QED
    BY <2>1, <2>2 DEF StartInv, Agenda, Simulating
<1>6. CASE AwaitInitialization
  BY <1>6 DEF AwaitInitialization, Step, StartInv, PlacesInv, MutexInv, TypeOK, Agenda, Simulating
<1>7. CASE ReceiveError
  BY <1>7 DEF ReceiveError, ReceiveFails, Step, StartInv, PlacesInv, MutexInv, TypeOK, Agenda, Simulating
<1>8. CASE ReceiveEnd
  BY <1>8 DEF ReceiveEnd, ReceiveEnds, StartInv, PlacesInv, MutexInv, TypeOK, Agenda, Simulating
<1>9. CASE FrameIsProcessed
  BY <1>9 DEF FrameIsProcessed, Step, StartInv, PlacesInv, MutexInv, TypeOK, Agenda, Simulating
<1>10. CASE WakeUp
  BY <1>10 DEF WakeUp, Step, StartInv, PlacesInv, MutexInv, TypeOK, Agenda, Simulating
<1>11. CASE SetInitialized
  BY <1>11 DEF SetInitialized, Step, StartInv, PlacesInv, MutexInv, TypeOK, Agenda, Simulating
<1>12. CASE Signal
  BY <1>12 DEF Signal, StartInv, PlacesInv, MutexInv, TypeOK, Agenda, Simulating
<1>13. ASSUME NEW t \in Timers, StartTimer(t) PROVE StartInv'
  BY <1>13 DEF StartTimer, Step, StartInv, PlacesInv, MutexInv, TypeOK, Agenda, Simulating
<1>14. CASE ReceiveFrame
  BY <1>14 DEF ReceiveFrame, Step, StartInv, PlacesInv, MutexInv, TypeOK, Agenda, Simulating
<1>15. CASE ReceiveNonsense
  BY <1>15 DEF ReceiveNonsense, Step, Fault, StartInv, PlacesInv, MutexInv, TypeOK, Agenda, Simulating
<1>16. CASE RecoverSimulation
  <2>1. /\ at[Main] = "recover" /\ at'[Main] = "connect" /\ \A u \in Users : at'[u] = at[u]
        /\ UNCHANGED <<initialized, ready>> /\ stage' = 1 /\ resuming' = TRUE
    BY <1>16 DEF RecoverSimulation, Step, TypeOK
  <2>2. Len(Agenda') = 4
    BY <2>1, RequestsLength DEF Agenda
  <2>3. QED
    BY <2>1, <2>2 DEF StartInv, Simulating
<1>17. ASSUME NEW t \in Threads, NEW c \in CallRecords, Call(t, c) PROVE StartInv'
  BY <1>17 DEF Call, Step, Home, StartInv, PlacesInv, MutexInv, TypeOK, Agenda, Simulating
<1>18. ASSUME NEW t \in Threads, Lock(t) PROVE StartInv'
  <2>1. /\ UNCHANGED <<initialized, resuming, stage, ready>>
        /\ at[t] = "lock" /\ at'[t] \in {"send", Home(t)} /\ \A u \in Threads : u # t => at'[u] = at[u]
    BY <1>18 DEF Lock, Step, TypeOK
  <2>2. CASE t = Main
    BY <2>1, <2>2 DEF StartInv, Simulating, Agenda, Home
  <2>3. CASE t # Main
    <3>1. resuming \/ at[Main] \notin {"connect", "ask", "hear", "read", "create"}
      BY <2>1, <2>3 DEF StartInv, Threads
    <3>2. at'[t] \notin {"unborn", "initialize"} /\ at'[Main] = at[Main]
      BY <2>1, <2>3 DEF Home
    <3>3. QED
      BY <2>1, <3>1, <3>2 DEF StartInv, Simulating, Agenda
  <2>4. QED
    BY <2>2, <2>3
<1>19. ASSUME NEW t \in Threads, Write(t) PROVE StartInv'
  <2>1. /\ UNCHANGED <<initialized, resuming, stage, ready>> /\ at[t] = "send"
        /\ \A u \in Threads : u # t => at'[u] = at[u]
    BY <1>19, Zenon DEF Write, GivesUp, SendKills, TypeOK
  <2>2. at'[t] \in {"send", "assign", Home(t)}
    BY <1>19, <2>1, ZenonT(60) DEF Write, GivesUp, SendKills, TypeOK
  <2>3. CASE t = Main
    <3>1. at'[Main] \in {"send", "assign", "process"}
      BY <2>2, <2>3 DEF Home
    <3>2. at[Main] \in Simulating /\ at'[Main] \in Simulating /\ at'[Run] = at[Run]
      BY <2>1, <2>3, <3>1 DEF Simulating
    <3>3. QED
      BY <2>1, <2>3, <3>1, <3>2 DEF StartInv, Agenda
  <2>4. CASE t # Main
    <3>1. resuming \/ at[Main] \notin {"connect", "ask", "hear", "read", "create"}
      BY <2>1, <2>4 DEF StartInv, Threads
    <3>2. at'[t] \notin {"unborn", "initialize"} /\ at'[Main] = at[Main]
      BY <2>1, <2>2, <2>4 DEF Home
    <3>3. QED
      BY <2>1, <3>1, <3>2 DEF StartInv, Simulating, Agenda
  <2>5. QED
    BY <2>3, <2>4
<1>20. ASSUME NEW t \in Threads, Assign(t) PROVE StartInv'
  BY <1>20 DEF Assign, Step, Home, StartInv, PlacesInv, MutexInv, TypeOK, Agenda, Simulating
<1>21. ASSUME NEW t \in Threads, Interrupt(t) PROVE StartInv'
  BY <1>21 DEF Interrupt, StartInv, PlacesInv, MutexInv, TypeOK, Agenda, Simulating
<1>22. ASSUME NEW t \in Threads, Destroy(t) PROVE StartInv'
  BY <1>22 DEF Destroy, StartInv, PlacesInv, MutexInv, TypeOK, Agenda, Simulating
<1>23. CASE ConnectionBreaks
  BY <1>23 DEF ConnectionBreaks, StartInv, PlacesInv, MutexInv, TypeOK, Agenda, Simulating
<1>24. CASE UNCHANGED vars
  BY <1>24 DEF vars, StartInv, PlacesInv, MutexInv, TypeOK, Agenda, Simulating
<1>25. QED
  BY <1>1, <1>2, <1>3, <1>4, <1>5, <1>6, <1>7, <1>8, <1>9, <1>10, <1>11, <1>12, <1>13, <1>14, <1>15, <1>16, <1>17, <1>18, <1>19, <1>20, <1>21, <1>22, <1>23, <1>24, CallsAre DEF Next, MainRuns

\* A second map is never taken.
LEMMA MapStep ==
  ASSUME IndInv, [Next]_vars
  PROVE  MapInv'
<1> USE ThreadsDiffer DEF args, bounds, user, negotiated, started, calm, idle, IndInv
<1>1. CASE Connect
  BY <1>1 DEF Connect, Fails, Fault, MapInv, StartInv, TypeOK, Agenda
<1>2. CASE Ask
  BY <1>2 DEF Ask, Fails, Delivers, SendFails, SendKills, MapInv, StartInv, TypeOK, Agenda
<1>3. CASE Hear
  <2>1. UNCHANGED <<resuming, needNewMap>> /\ maps \in Nat /\ stage \in 1 .. 6
    BY <1>3, SizesAssumption DEF Hear, TypeOK
  <2>2. UNCHANGED <<stage, maps>> \/ (UNCHANGED stage /\ maps' = 0) => MapInv'
    BY <2>1 DEF MapInv
  <2>3. ASSUME line = "up", Accepted,
               IF Agenda[stage] = "map" THEN MapIsSelected ELSE UNCHANGED maps
        PROVE  MapInv'
    <3>1. stage' = stage \/ stage' = stage + 1
      BY <2>3 DEF Accepted
    <3>2. CASE stage = 2
      <4>1. stage' = 3
        <5>1. Agenda[stage] = "map" /\ stage # Len(Agenda)
          BY <3>2, StageIs
        <5>2. stage' = stage + 1
          BY <2>3, <5>1 DEF Accepted, Agenda
        <5>3. QED
          BY <3>2, <5>2
      <4>2. needNewMap = 1 => maps = 0
        BY <3>2 DEF MapInv
      <4>3. maps' = maps \/ (needNewMap = 1 /\ maps' = maps + 1)
        BY <2>3 DEF MapIsSelected
      <4>4. QED
        BY <2>1, <4>1, <4>2, <4>3 DEF MapInv
    <3>3. CASE stage # 2
      BY <2>1, <2>3, <3>1, <3>3, StageIs DEF MapInv
    <3>4. QED
      BY <3>2, <3>3
  <2>4. QED
    BY <1>3, <2>2, <2>3 DEF Hear, MapIsReleased, Agenda
<1>4. CASE ReadInterface
  BY <1>4 DEF ReadInterface, Fails, Fault, ReceiveFails, ReceiveEnds, MapInv, StartInv, TypeOK, Agenda
<1>5. CASE CreateThread
  BY <1>5 DEF CreateThread, MapInv, StartInv, TypeOK, Agenda
<1>6. CASE AwaitInitialization
  BY <1>6 DEF AwaitInitialization, Step, MapInv, StartInv, TypeOK, Agenda
<1>7. CASE ReceiveError
  BY <1>7 DEF ReceiveError, ReceiveFails, Step, MapInv, StartInv, TypeOK, Agenda
<1>8. CASE ReceiveEnd
  BY <1>8 DEF ReceiveEnd, ReceiveEnds, MapInv, StartInv, TypeOK, Agenda
<1>9. CASE FrameIsProcessed
  BY <1>9 DEF FrameIsProcessed, Step, MapInv, StartInv, TypeOK, Agenda
<1>10. CASE WakeUp
  BY <1>10 DEF WakeUp, Step, MapInv, StartInv, TypeOK, Agenda
<1>11. CASE SetInitialized
  BY <1>11 DEF SetInitialized, Step, MapInv, StartInv, TypeOK, Agenda
<1>12. CASE Signal
  BY <1>12 DEF Signal, MapInv, StartInv, TypeOK, Agenda
<1>13. ASSUME NEW t \in Timers, StartTimer(t) PROVE MapInv'
  BY <1>13 DEF StartTimer, Step, MapInv, StartInv, TypeOK, Agenda
<1>14. CASE ReceiveFrame
  BY <1>14 DEF ReceiveFrame, Step, MapInv, StartInv, TypeOK, Agenda
<1>15. CASE ReceiveNonsense
  BY <1>15 DEF ReceiveNonsense, Step, Fault, MapInv, StartInv, TypeOK, Agenda
<1>16. CASE RecoverSimulation
  BY <1>16 DEF RecoverSimulation, Step, MapInv, StartInv, TypeOK, Agenda
<1>17. ASSUME NEW t \in Threads, NEW c \in CallRecords, Call(t, c) PROVE MapInv'
  BY <1>17 DEF Call, Step, Home, MapInv, StartInv, TypeOK, Agenda
<1>18. ASSUME NEW t \in Threads, Lock(t) PROVE MapInv'
  BY <1>18 DEF Lock, Step, Home, MapInv, StartInv, TypeOK, Agenda
<1>19. ASSUME NEW t \in Threads, Write(t) PROVE MapInv'
  BY <1>19 DEF Write, GivesUp, SendKills, Home, MapInv, StartInv, TypeOK, Agenda
<1>20. ASSUME NEW t \in Threads, Assign(t) PROVE MapInv'
  BY <1>20 DEF Assign, Step, Home, MapInv, StartInv, TypeOK, Agenda
<1>21. ASSUME NEW t \in Threads, Interrupt(t) PROVE MapInv'
  BY <1>21 DEF Interrupt, MapInv, StartInv, TypeOK, Agenda
<1>22. ASSUME NEW t \in Threads, Destroy(t) PROVE MapInv'
  BY <1>22 DEF Destroy, MapInv, StartInv, TypeOK, Agenda
<1>23. CASE ConnectionBreaks
  BY <1>23 DEF ConnectionBreaks, MapInv, StartInv, TypeOK, Agenda
<1>24. CASE UNCHANGED vars
  BY <1>24 DEF vars, MapInv, StartInv, TypeOK, Agenda
<1>25. QED
  BY <1>1, <1>2, <1>3, <1>4, <1>5, <1>6, <1>7, <1>8, <1>9, <1>10, <1>11, <1>12, <1>13, <1>14, <1>15, <1>16, <1>17, <1>18, <1>19, <1>20, <1>21, <1>22, <1>23, <1>24, CallsAre DEF Next, MainRuns

\* The mutex passes only from who is done with it to who waits for it.
LEMMA MutexStep ==
  ASSUME IndInv, [Next]_vars
  PROVE  MutexInv'
<1> USE ThreadsDiffer DEF args, bounds, user, negotiated, started, calm, idle, IndInv
<1>1. CASE Connect
  BY <1>1 DEF Connect, Fails, Fault, MutexInv, PlacesInv, StartInv, TypeOK
<1>2. CASE Ask
  BY <1>2 DEF Ask, Fails, Delivers, SendFails, SendKills, MutexInv, PlacesInv, StartInv, TypeOK
<1>3. CASE Hear
  BY <1>3 DEF Hear, Fails, Accepted, Fault, ReceiveFails, ReceiveEnds, MutexInv, PlacesInv, StartInv, TypeOK
<1>4. CASE ReadInterface
  BY <1>4 DEF ReadInterface, Fails, Fault, ReceiveFails, ReceiveEnds, MutexInv, PlacesInv, StartInv, TypeOK
<1>5. CASE CreateThread
  BY <1>5, ZenonT(60) DEF CreateThread, MutexInv, PlacesInv, StartInv, TypeOK
<1>6. CASE AwaitInitialization
  BY <1>6 DEF AwaitInitialization, Step, MutexInv, PlacesInv, StartInv, TypeOK
<1>7. CASE ReceiveError
  BY <1>7 DEF ReceiveError, ReceiveFails, Step, MutexInv, PlacesInv, StartInv, TypeOK
<1>8. CASE ReceiveEnd
  BY <1>8 DEF ReceiveEnd, ReceiveEnds, MutexInv, PlacesInv, StartInv, TypeOK
<1>9. CASE FrameIsProcessed
  BY <1>9 DEF FrameIsProcessed, Step, MutexInv, PlacesInv, StartInv, TypeOK
<1>10. CASE WakeUp
  BY <1>10 DEF WakeUp, Step, MutexInv, PlacesInv, StartInv, TypeOK
<1>11. CASE SetInitialized
  BY <1>11 DEF SetInitialized, Step, MutexInv, PlacesInv, StartInv, TypeOK
<1>12. CASE Signal
  BY <1>12 DEF Signal, MutexInv, PlacesInv, StartInv, TypeOK
<1>13. ASSUME NEW t \in Timers, StartTimer(t) PROVE MutexInv'
  BY <1>13 DEF StartTimer, Step, MutexInv, PlacesInv, StartInv, TypeOK
<1>14. CASE ReceiveFrame
  BY <1>14 DEF ReceiveFrame, Step, MutexInv, PlacesInv, StartInv, TypeOK
<1>15. CASE ReceiveNonsense
  BY <1>15 DEF ReceiveNonsense, Step, Fault, MutexInv, PlacesInv, StartInv, TypeOK
<1>16. CASE RecoverSimulation
  BY <1>16 DEF RecoverSimulation, Step, MutexInv, PlacesInv, StartInv, TypeOK
<1>17. ASSUME NEW t \in Threads, NEW c \in CallRecords, Call(t, c) PROVE MutexInv'
  <2>1. /\ UNCHANGED <<mutex, resuming>> /\ at'[t] = "lock" /\ part'[t] = 0
        /\ \A u \in Threads : u # t => at'[u] = at[u] /\ part'[u] = part[u] /\ call'[u] = call[u]
    BY <1>17 DEF Call, Step, TypeOK, PartType
  <2>2. QED
    BY <2>1 DEF MutexInv
<1>18. ASSUME NEW t \in Threads, Lock(t) PROVE MutexInv'
  <2>1. /\ UNCHANGED <<resuming, part, call>> /\ mutex = Nobody
        /\ \A u \in Threads : u # t => at'[u] = at[u]
        /\ at[t] = "lock"
        /\ (at'[t] = "send" /\ mutex' = t) \/ (at'[t] = Home(t) /\ UNCHANGED mutex)
    BY <1>18 DEF Lock, Step, TypeOK
  <2>2. part[t] = 0 /\ part[t] < Size(call[t].what)
    BY <2>1, SizeType DEF MutexInv
  <2>3. Home(t) \notin {"lock", "send", "connect", "ask", "hear"}
    BY DEF Home
  <2>4. mutex \notin Threads
    BY <2>1
  <2>5. at[Main] \in {"connect", "ask", "hear"} => ~ resuming
    BY <2>4 DEF MutexInv
  <2>6. QED
    BY <2>1, <2>2, <2>3, <2>4, <2>5 DEF MutexInv
<1>19. ASSUME NEW t \in Threads, Write(t) PROVE MutexInv'
  <2>1. /\ UNCHANGED <<resuming, call>> /\ at[t] = "send" /\ mutex = t
        /\ \A u \in Threads : u # t => at'[u] = at[u] /\ part'[u] = part[u] /\ at[u] # "send"
    BY <1>19 DEF Write, GivesUp, SendKills, MutexInv, TypeOK, PartType
  <2>2. \/ at'[t] = "send" /\ mutex' = t /\ part'[t] < Size(call[t].what)
        \/ at'[t] \in {"assign", Home(t)}
    BY <1>19, <2>1, WriteCases, SizeType, ZenonT(60) DEF GivesUp, TypeOK, PartType, MutexInv
  <2>3. ~ (resuming /\ at'[Main] \in {"connect", "ask", "hear"})
    <3>1. CASE t = Main
      BY <2>1, <2>2, <3>1 DEF Home
    <3>2. CASE t # Main
      BY <2>1, <3>2 DEF MutexInv
    <3>3. QED
      BY <3>1, <3>2
  <2>4. \A u \in Threads : u # t => (at'[u] = "lock" => part'[u] = 0)
    BY <2>1 DEF MutexInv
  <2>5. QED
    BY <2>1, <2>2, <2>3, <2>4 DEF MutexInv, Home
<1>20. ASSUME NEW t \in Threads, Assign(t) PROVE MutexInv'
  BY <1>20 DEF Assign, Step, Home, MutexInv, PlacesInv, StartInv, TypeOK
<1>21. ASSUME NEW t \in Threads, Interrupt(t) PROVE MutexInv'
  BY <1>21 DEF Interrupt, MutexInv, PlacesInv, StartInv, TypeOK
<1>22. ASSUME NEW t \in Threads, Destroy(t) PROVE MutexInv'
  BY <1>22 DEF Destroy, MutexInv, PlacesInv, StartInv, TypeOK
<1>23. CASE ConnectionBreaks
  BY <1>23 DEF ConnectionBreaks, MutexInv, PlacesInv, StartInv, TypeOK
<1>24. CASE UNCHANGED vars
  BY <1>24 DEF vars, MutexInv, PlacesInv, StartInv, TypeOK
<1>25. QED
  BY <1>1, <1>2, <1>3, <1>4, <1>5, <1>6, <1>7, <1>8, <1>9, <1>10, <1>11, <1>12, <1>13, <1>14, <1>15, <1>16, <1>17, <1>18, <1>19, <1>20, <1>21, <1>22, <1>23, <1>24, CallsAre DEF Next, MainRuns

\* Nobody sends while the main thread negotiates.
LEMMA NegotiationIsAlone ==
  ASSUME IndInv, NEW t \in Threads, at[t] = "send"
  PROVE  at[Main] \in Simulating \cup {"interrupted"}
<1>1. t = Main \/ at[Main] \notin {"connect", "ask", "hear", "read"}
  <2> SUFFICES ASSUME t # Main, at[Main] \in {"connect", "ask", "hear", "read"} PROVE FALSE
    OBVIOUS
  <2>1. t \in Users /\ mutex = t
    BY DEF IndInv, MutexInv, Threads
  <2>2. resuming
    BY <2>1 DEF IndInv, StartInv
  <2>3. QED
    BY <2>1, <2>2 DEF IndInv, MutexInv, StartInv
<1>2. at[Main] \in Places
  BY ThreadsDiffer DEF IndInv, TypeOK
<1>3. QED
  BY <1>1, <1>2 DEF IndInv, PlacesInv, Places, Simulating

\* The last stream is as long as the negotiation has got.
LEMMA ConnectionStep ==
  ASSUME IndInv, [Next]_vars
  PROVE  ConnectionInv'
<1> USE ThreadsDiffer DEF args, bounds, user, negotiated, started, calm, idle, IndInv
<1>1. CASE Connect
  <2>1. at[Main] = "connect" /\ stage = 1 /\ UNCHANGED <<stage, resuming>>
    BY <1>1 DEF Connect, StartInv
  <2>2. streams \in Seq(Seq(Pieces)) /\ Len(streams) \in Nat
    BY DEF TypeOK
  <2>3. ASSUME streams' = Append(streams, <<>>), at' = [at EXCEPT ![Main] = "ask"]
        PROVE  ConnectionInv'
    <3>1. at'[Main] = "ask"
      BY <2>3 DEF TypeOK
    <3>2. Len(streams') = Len(streams) + 1 /\ streams'[Len(streams) + 1] = <<>>
      BY <2>2, <2>3
    <3>3. Len(Current') = 0 /\ streams' # <<>>
      BY <3>2, <2>2 DEF Current
    <3>4. ~ resuming => streams = <<>>
      BY <2>1 DEF ConnectionInv
    <3>5. QED
      BY <2>1, <2>2, <3>1, <3>2, <3>3, <3>4 DEF ConnectionInv, Simulating
  <2>4. ASSUME line' \in {"none", "dead"}, Fails, UNCHANGED streams
        PROVE  ConnectionInv'
    BY <2>1, <2>4 DEF Fails, ConnectionInv, TypeOK, Simulating
  <2>5. QED
    BY <1>1, <2>3, <2>4 DEF Connect
<1>2. CASE Ask
  <2>1. at[Main] = "ask" /\ UNCHANGED <<stage, resuming>> /\ Len(Current) = stage - 1
    BY <1>2 DEF Ask, ConnectionInv
  <2>2. /\ Request(Agenda[stage]) \in Pieces
    BY StageIs, RequestType DEF Agenda, TypeOK
  <2>3. ASSUME Delivers(<<Request(Agenda[stage])>>), at' = [at EXCEPT ![Main] = "hear"],
               UNCHANGED line
        PROVE  ConnectionInv'
    <3>1. <<Request(Agenda[stage])>> \in Seq(Pieces) /\ Len(<<Request(Agenda[stage])>>) = 1
      BY <2>2
    <3>2. Len(Current') = stage /\ Len(streams') = Len(streams) /\ streams' # <<>>
      <4>1. Len(Current') = Len(Current) + 1 /\ Len(streams') = Len(streams) /\ Len(streams) # 0
        BY <2>3, <3>1, CurrentGrows, DeliversType
      <4>2. QED
        BY <2>1, <4>1 DEF TypeOK
    <3>3. at'[Main] = "hear"
      BY <2>3 DEF TypeOK
    <3>4. QED
      BY <2>1, <2>3, <3>2, <3>3 DEF ConnectionInv, Simulating
  <2>4. ASSUME UNCHANGED streams, at' = at \/ (resuming /\ at' = [at EXCEPT ![Main] = "interrupted"]),
               line' = line \/ line' \notin {"up", "closed"}
        PROVE  ConnectionInv'
    BY <2>1, <2>4 DEF ConnectionInv, Current, TypeOK, Simulating
  <2>5. QED
    BY <1>2, <2>3, <2>4 DEF Ask, Fails, SendFails, SendKills, Agenda, TypeOK
<1>3. CASE Hear
  <2>1. /\ at[Main] = "hear" /\ UNCHANGED <<streams, resuming>> /\ Len(Current) = stage
        /\ line' = line \/ line' = "dead"
    BY <1>3 DEF Hear, ConnectionInv, ReceiveFails
  <2>2. UNCHANGED Current
    BY <2>1 DEF Current
  <2>3. ASSUME UNCHANGED stage, at' = at \/ at' = [at EXCEPT ![Main] = "interrupted"]
        PROVE  ConnectionInv'
    BY <2>1, <2>2, <2>3 DEF ConnectionInv, TypeOK, Simulating
  <2>4. ASSUME Accepted PROVE ConnectionInv'
    <3>1. \/ at'[Main] = "read" /\ stage' = stage
          \/ at'[Main] \in {"loop", "create"} /\ stage = Len(Agenda)
          \/ at'[Main] = "ask" /\ stage' = stage + 1
      BY <2>4 DEF Accepted, Agenda, TypeOK
    <3>2. UNCHANGED Agenda
      BY <2>1 DEF Agenda
    <3> DEFINE last == Len(Agenda)
    <3>3. last = last /\ last \in Nat
      BY StageIs
    <3>4. \/ at'[Main] = "read" /\ Len(Current') = stage'
          \/ at'[Main] \in {"loop", "create"} /\ Len(Current') >= last
          \/ at'[Main] = "ask" /\ Len(Current') = stage' - 1
      BY <2>1, <2>2, <3>1, <3>3 DEF TypeOK
    <3>5. QED
      BY <2>1, <3>2, <3>4 DEF ConnectionInv, Simulating
  <2>5. QED
    BY <1>3, <2>3, <2>4 DEF Hear, Fails, ReceiveEnds, TypeOK
<1>4. CASE ReadInterface
  <2>1. /\ at[Main] = "read" /\ UNCHANGED <<streams, resuming>> /\ Len(Current) = stage
        /\ line' = line \/ line' = "dead"
    BY <1>4 DEF ReadInterface, ConnectionInv, ReceiveFails
  <2>2. UNCHANGED <<Current, Agenda>>
    BY <2>1 DEF Current, Agenda
  <2>3. \/ at'[Main] = "interrupted"
        \/ at'[Main] = "read" /\ stage' = stage
        \/ at'[Main] = "ask" /\ stage' = stage + 1
    BY <1>4, <2>1 DEF ReadInterface, Fails, ReceiveEnds, TypeOK
  <2>4. Len(Current') = IF at'[Main] = "ask" THEN stage' - 1 ELSE stage
    BY <2>1, <2>2, <2>3 DEF TypeOK
  <2>5. ~ resuming
    BY <2>1 DEF StartInv
  <2>6. QED
    BY <2>1, <2>3, <2>4, <2>5 DEF ConnectionInv, Simulating
<1>5. CASE CreateThread
  BY <1>5 DEF CreateThread, ConnectionInv, PlacesInv, StartInv, MutexInv, TypeOK, Agenda, Current, Simulating
<1>6. CASE AwaitInitialization
  BY <1>6 DEF AwaitInitialization, Step, ConnectionInv, PlacesInv, StartInv, MutexInv, TypeOK, Agenda, Current, Simulating
<1>7. CASE ReceiveError
  BY <1>7 DEF ReceiveError, ReceiveFails, Step, ConnectionInv, PlacesInv, StartInv, MutexInv, TypeOK, Agenda, Current, Simulating
<1>8. CASE ReceiveEnd
  BY <1>8 DEF ReceiveEnd, ReceiveEnds, ConnectionInv, PlacesInv, StartInv, MutexInv, TypeOK, Agenda, Current, Simulating
<1>9. CASE FrameIsProcessed
  BY <1>9 DEF FrameIsProcessed, Step, ConnectionInv, PlacesInv, StartInv, MutexInv, TypeOK, Agenda, Current, Simulating
<1>10. CASE WakeUp
  BY <1>10 DEF WakeUp, Step, ConnectionInv, PlacesInv, StartInv, MutexInv, TypeOK, Agenda, Current, Simulating
<1>11. CASE SetInitialized
  BY <1>11 DEF SetInitialized, Step, ConnectionInv, PlacesInv, StartInv, MutexInv, TypeOK, Agenda, Current, Simulating
<1>12. CASE Signal
  BY <1>12 DEF Signal, ConnectionInv, PlacesInv, StartInv, MutexInv, TypeOK, Agenda, Current, Simulating
<1>13. ASSUME NEW t \in Timers, StartTimer(t) PROVE ConnectionInv'
  BY <1>13 DEF StartTimer, Step, ConnectionInv, PlacesInv, StartInv, MutexInv, TypeOK, Agenda, Current, Simulating
<1>14. CASE ReceiveFrame
  BY <1>14 DEF ReceiveFrame, Step, ConnectionInv, PlacesInv, StartInv, MutexInv, TypeOK, Agenda, Current, Simulating
<1>15. CASE ReceiveNonsense
  BY <1>15 DEF ReceiveNonsense, Step, Fault, ConnectionInv, PlacesInv, StartInv, MutexInv, TypeOK, Agenda, Current, Simulating
<1>16. CASE RecoverSimulation
  <2>1. /\ at[Main] = "recover" /\ at'[Main] = "connect" /\ UNCHANGED streams
        /\ resuming' = TRUE /\ line' = "none"
    BY <1>16 DEF RecoverSimulation, Step, TypeOK
  <2>2. Len(streams) \in Nat
    BY DEF TypeOK
  <2> DEFINE last == Len(streams)
  <2>3. last \in Nat /\ (last = 1 \/ last >= 2)
    BY <2>1, <2>2 DEF ConnectionInv
  <2> HIDE DEF last
  <2>4. last >= 1
    BY <2>3
  <2>5. QED
    BY <2>1, <2>4 DEF last, ConnectionInv, Simulating
<1>17. ASSUME NEW t \in Threads, NEW c \in CallRecords, Call(t, c) PROVE ConnectionInv'
  BY <1>17 DEF Call, Step, Home, ConnectionInv, PlacesInv, StartInv, MutexInv, TypeOK, Agenda, Current, Simulating
<1>18. ASSUME NEW t \in Threads, Lock(t) PROVE ConnectionInv'
  BY <1>18 DEF Lock, Step, Home, ConnectionInv, PlacesInv, StartInv, MutexInv, TypeOK, Agenda, Current, Simulating
<1>19. ASSUME NEW t \in Threads, Write(t) PROVE ConnectionInv'
  <2>1. UNCHANGED <<resuming, stage>> /\ at[t] = "send"
    BY <1>19 DEF Write
  <2>2. \/ at'[Main] = at[Main] /\ t # Main
        \/ at[Main] \in Simulating /\ at'[Main] \in Simulating
    BY <1>19, WriteCases DEF GivesUp, SendKills, Home, Simulating, TypeOK, Write
  <2>3. CASE UNCHANGED streams
    <3>1. line' = line \/ line' \notin {"up", "closed"}
      BY <1>19, WriteCases DEF GivesUp, SendFails, SendKills
    <3>2. QED
      BY <2>1, <2>2, <2>3, <3>1 DEF ConnectionInv, Current, Agenda, Simulating
  <2>4. ASSUME NEW n \in part[t] + 1 .. Size(call[t].what),
               Delivers([i \in 1 .. n - part[t] |-> Part(t, part[t] + i)]), UNCHANGED line
        PROVE  ConnectionInv'
    <3> DEFINE pieces == [i \in 1 .. n - part[t] |-> Part(t, part[t] + i)]
    <3>1. pieces \in Seq(Pieces)
      BY PartsAreSeq
    <3>2. /\ Len(streams') = Len(streams) /\ Len(streams) # 0
          /\ Len(Current') = Len(Current) + Len(pieces) /\ Len(pieces) \in Nat /\ Len(Current) \in Nat
      BY <2>4, <3>1, DeliversType, CurrentGrows
    <3> HIDE DEF pieces
    <3>3. /\ at'[Main] \in Simulating \cup {"interrupted"}
          /\ at'[Main] \in Simulating <=> at[Main] \in Simulating
      BY <2>1, <2>2, NegotiationIsAlone DEF Simulating
    <3>4. at[Main] \in Simulating => Len(Current') >= Len(Agenda)
      <4> DEFINE last == Len(Agenda)
                 old  == Len(Current)
                 new  == Len(Current')
                 more == Len(pieces)
      <4>1. at[Main] \in Simulating => old >= last
        BY DEF ConnectionInv
      <4>2. last \in Nat /\ new = old + more /\ old \in Nat /\ more \in Nat
        BY <3>2, StageIs
      <4> HIDE DEF last, old, new, more
      <4>3. at[Main] \in Simulating => new >= last
        BY <4>1, <4>2
      <4>4. QED
        BY <4>3 DEF last, new
    <3>5. UNCHANGED Agenda
      BY <2>1 DEF Agenda
    <3>6. at[Main] \in Simulating \cup {"interrupted"}
      BY <2>1, NegotiationIsAlone
    <3>7. ~ resuming => Len(streams') = 1
      BY <3>2, <3>6 DEF ConnectionInv, Simulating
    <3>8. resuming => Len(streams') >= IF at'[Main] = "interrupted" THEN 1 ELSE 2
      BY <2>2, <3>2, <3>6 DEF ConnectionInv, Simulating
    <3>9. QED
      BY <2>1, <2>4, <3>2, <3>3, <3>4, <3>5, <3>7, <3>8 DEF ConnectionInv, Simulating
  <2>5. QED
    BY <1>19, <2>3, <2>4, WriteCases
<1>20. ASSUME NEW t \in Threads, Assign(t) PROVE ConnectionInv'
  BY <1>20 DEF Assign, Step, Home, ConnectionInv, PlacesInv, StartInv, MutexInv, TypeOK, Agenda, Current, Simulating
<1>21. ASSUME NEW t \in Threads, Interrupt(t) PROVE ConnectionInv'
  BY <1>21 DEF Interrupt, ConnectionInv, PlacesInv, StartInv, MutexInv, TypeOK, Agenda, Current, Simulating
<1>22. ASSUME NEW t \in Threads, Destroy(t) PROVE ConnectionInv'
  BY <1>22 DEF Destroy, ConnectionInv, PlacesInv, StartInv, MutexInv, TypeOK, Agenda, Current, Simulating
<1>23. CASE ConnectionBreaks
  BY <1>23 DEF ConnectionBreaks, ConnectionInv, PlacesInv, StartInv, MutexInv, TypeOK, Agenda, Current, Simulating
<1>24. CASE UNCHANGED vars
  BY <1>24 DEF vars, ConnectionInv, PlacesInv, StartInv, MutexInv, TypeOK, Agenda, Current, Simulating
<1>25. QED
  BY <1>1, <1>2, <1>3, <1>4, <1>5, <1>6, <1>7, <1>8, <1>9, <1>10, <1>11, <1>12, <1>13, <1>14, <1>15, <1>16, <1>17, <1>18, <1>19, <1>20, <1>21, <1>22, <1>23, <1>24, CallsAre DEF Next, MainRuns

\* The invariant holds at the start,
LEMMA IndInvInit == Init => IndInv
<1> SUFFICES ASSUME Init PROVE IndInv
  OBVIOUS
<1>1. TypeOK /\ PartType
  BY TypeInit
<1>2. /\ at[Main] = "connect" /\ \A u \in Users : at[u] = "unborn"
      /\ stage = 1 /\ ready = 0 /\ mutex = Nobody /\ line = "none" /\ streams = <<>>
      /\ needNewMap = 1 => maps = 0
      /\ maps <= 1
  BY ThreadsDiffer DEF Init
<1>3. ~ resuming /\ ~ initialized
  BY DEF Init
<1>4. Len(Agenda) = 6
  BY <1>3, AgendaLength, <1>1 DEF TypeOK
<1>5. PlacesInv /\ MapInv /\ ConnectionInv
  BY <1>2, <1>3, ThreadsDiffer DEF PlacesInv, MapInv, ConnectionInv, Simulating
<1>6. StartInv
  BY <1>2, <1>3, <1>4 DEF StartInv, Simulating
<1>7. MutexInv
  BY <1>2, <1>3, ThreadsDiffer DEF MutexInv, Threads
<1>8. QED
  BY <1>1, <1>5, <1>6, <1>7 DEF IndInv

\* and always.
LEMMA IndInvAlways == Spec => []IndInv
<1>1. IndInv /\ [Next]_vars => IndInv'
  BY TypeStep, PlacesStep, StartStep, MapStep, MutexStep, ConnectionStep DEF IndInv
<1>2. QED
  BY <1>1, IndInvInit, PTL DEF Spec

\* Every variable keeps its type.
THEOREM TypeCorrect == Spec => []TypeOK
<1>1. IndInv => TypeOK
  BY DEF IndInv
<1>2. QED
  BY <1>1, IndInvAlways, PTL

\* Frames are taken only by a machine that is ready for them.
THEOREM FramesFindTheMachineAlways == Spec => []FramesFindTheMachine
<1>1. IndInv => FramesFindTheMachine
  BY DEF IndInv, StartInv, Simulating, FramesFindTheMachine
<1>2. QED
  BY <1>1, IndInvAlways, PTL

\* The process takes one map of the server's at most.
THEOREM OneMapPerProcessAlways == Spec => []OneMapPerProcess
<1>1. IndInv => OneMapPerProcess
  BY DEF IndInv, MapInv, OneMapPerProcess
<1>2. QED
  BY <1>1, IndInvAlways, PTL

-----------------------------------------------------------------------------
(***************************************************************************)
(* Well-formed streams.                                                    *)
(***************************************************************************)

\* The next request keeps a stream well formed,
LEMMA WellFormedRequest ==
  ASSUME NEW s \in Seq(Pieces), NEW r, Len(r) \in Nat, WellFormed(s, r),
         NEW k \in Nat, Len(s) = k, k + 1 <= Len(r)
  PROVE  WellFormed(s \o <<Request(r[k + 1])>>, r)
<1> DEFINE x  == Request(r[k + 1])
           s2 == s \o <<x>>
           last == Len(r)
<1>1. DOMAIN s = 1 .. k /\ last \in Nat /\ k + 1 <= last
  OBVIOUS
<1>2. \A j \in 1 .. k : j <= last
  BY <1>1
<1>3. \A j \in 1 .. k : s[j] = Request(r[j])
  BY <1>1, <1>2 DEF WellFormed
<1> HIDE DEF x
<1>4. DOMAIN s2 = 1 .. k + 1 /\ s2[k + 1] = x /\ \A j \in 1 .. k : s2[j] = s[j]
  OBVIOUS
<1>5. ASSUME NEW j \in 1 .. k + 1 PROVE j <= last /\ s2[j] = Request(r[j])
  <2>1. j <= last
    BY <1>1
  <2>2. CASE j = k + 1
    BY <1>4, <2>1, <2>2 DEF x
  <2>3. CASE j # k + 1
    <3>1. j \in 1 .. k
      BY <2>3
    <3>2. QED
      BY <1>3, <1>4, <2>1, <3>1
  <2>4. QED
    BY <2>2, <2>3
<1>6. QED
  BY <1>4, <1>5 DEF WellFormed, x

\* and so do the next parts of a command,
LEMMA WellFormedParts ==
  ASSUME NEW s \in Seq(Pieces), NEW r, Len(r) \in Nat \ {0}, WellFormed(s, r), Len(s) >= Len(r),
         TypeOK, PartType, NEW t \in Threads, NEW n \in part[t] + 1 .. Size(call[t].what),
         IF part[t] = 0 THEN Len(s) = Len(r) \/ s[Len(s)].part = Size(s[Len(s)].what)
         ELSE Len(s) > Len(r) /\ s[Len(s)] = Part(t, part[t])
  PROVE  WellFormed(s \o [i \in 1 .. n - part[t] |-> Part(t, part[t] + i)], r)
<1> DEFINE p == part[t]
           m == n - p
           pieces == [i \in 1 .. m |-> Part(t, p + i)]
           s2 == s \o pieces
           a == Len(s)
           last == Len(r)
           size == Size(call[t].what)
           Rest(x, j) == LET before == x[j - 1]
                             first == j = last + 1 \/ before.part = Size(before.what)
                         IN /\ x[j].what \in Calls
                            /\ IF first THEN x[j].part = 1
                                        ELSE x[j] = [before EXCEPT !.part = @ + 1]
<1>1. p \in Nat /\ n \in Nat /\ m \in Nat \ {0} /\ pieces \in Seq(Pieces) /\ size \in Nat
      /\ p + m = n /\ n <= size
  BY PartsAreSeq, SizeType
<1>2. a \in Nat /\ last \in Nat \ {0} /\ a >= last
  OBVIOUS
<1>3. /\ DOMAIN s2 = 1 .. a + m /\ DOMAIN s = 1 .. a
      /\ \A j \in 1 .. a : s2[j] = s[j]
      /\ \A i \in 1 .. m : s2[a + i] = Part(t, p + i)
  <2>1. Len(pieces) = m /\ \A i \in 1 .. m : pieces[i] = Part(t, p + i)
    BY <1>1
  <2> HIDE DEF pieces, m
  <2>2. QED
    BY <1>1, <1>2, <2>1
<1>4. \A i : /\ Part(t, i).part = i /\ Part(t, i).what = call[t].what
             /\ Part(t, i + 1) = [Part(t, i) EXCEPT !.part = @ + 1]
  BY DEF Part
<1>5. call[t].what \in Calls
  BY DEF TypeOK, CallRecords
<1>6. WellFormed(s, r) <=>
        \A j \in DOMAIN s : IF j <= last THEN s[j] = Request(r[j]) ELSE Rest(s, j)
  BY DEF WellFormed
<1>7. WellFormed(s2, r) <=>
        \A j \in DOMAIN s2 : IF j <= last THEN s2[j] = Request(r[j]) ELSE Rest(s2, j)
  BY DEF WellFormed
<1>8. IF p = 0 THEN a = last \/ s[a].part = Size(s[a].what) ELSE a > last /\ s[a] = Part(t, p)
  OBVIOUS
<1> HIDE DEF p, m, pieces, s2, a, last, size
<1>9. ASSUME NEW j \in 1 .. a + m
      PROVE  IF j <= last THEN s2[j] = Request(r[j]) ELSE Rest(s2, j)
  <2>1. CASE j <= a
    <3>1. j \in 1 .. a /\ (j <= last \/ j - 1 \in 1 .. a)
      BY <1>2, <2>1
    <3>2. s2[j] = s[j] /\ (j <= last \/ s2[j - 1] = s[j - 1])
      BY <1>3, <3>1
    <3>3. QED
      BY <1>3, <1>6, <3>1, <3>2
  <2>2. CASE j = a + 1
    <3>1. s2[j] = Part(t, p + 1) /\ s2[j - 1] = s[a] /\ ~ (j <= last)
      BY <1>1, <1>2, <1>3, <2>2
    <3>2. CASE p = 0
      <4>1. a = last \/ s[a].part = Size(s[a].what)
        BY <1>8, <3>2
      <4>2. s2[j].what \in Calls /\ s2[j].part = 1
        BY <1>4, <1>5, <3>1, <3>2
      <4>3. j = last + 1 \/ s2[j - 1].part = Size(s2[j - 1].what)
        BY <2>2, <3>1, <4>1
      <4>4. QED
        BY <3>1, <4>2, <4>3
    <3>3. CASE p # 0
      <4>1. a > last /\ s2[j - 1] = Part(t, p)
        BY <1>8, <3>1, <3>3
      <4>2. j # last + 1 /\ p # size
        BY <1>1, <1>2, <2>2, <4>1
      <4>3. ~ (j = last + 1 \/ s2[j - 1].part = Size(s2[j - 1].what))
        BY <1>4, <4>1, <4>2 DEF size
      <4>4. s2[j].what \in Calls /\ s2[j] = [s2[j - 1] EXCEPT !.part = @ + 1]
        BY <1>4, <1>5, <3>1, <4>1
      <4>5. QED
        BY <3>1, <4>3, <4>4
    <3>4. QED
      BY <3>2, <3>3
  <2>3. CASE j > a + 1
    <3> DEFINE i == j - a - 1
    <3>1. i \in 1 .. m /\ i + 1 \in 1 .. m /\ j = a + (i + 1) /\ j - 1 = a + i
      BY <1>1, <1>2, <2>3
    <3>2. p + i # size /\ j # last + 1 /\ ~ (j <= last) /\ p + (i + 1) = (p + i) + 1
      BY <1>1, <1>2, <2>3, <3>1
    <3>3. s2[j] = Part(t, (p + i) + 1) /\ s2[j - 1] = Part(t, p + i)
      BY <1>3, <3>1, <3>2
    <3> HIDE DEF i
    <3>4. ~ (j = last + 1 \/ s2[j - 1].part = Size(s2[j - 1].what))
      BY <1>4, <3>2, <3>3 DEF size
    <3>5. s2[j].what \in Calls /\ s2[j] = [s2[j - 1] EXCEPT !.part = @ + 1]
      BY <1>4, <1>5, <3>3
    <3>6. QED
      BY <3>2, <3>4, <3>5
  <2>4. QED
    BY <1>1, <1>2, <2>1, <2>2, <2>3
<1>10. WellFormed(s2, r)
  BY <1>3, <1>7, <1>9
<1>11. QED
  BY <1>10 DEF s2, pieces, m, p

\* Once the main thread is in systemInterrupt it stays there.
LEMMA InterruptedStays ==
  ASSUME IndInv, [Next]_vars, at[Main] = "interrupted"
  PROVE  at'[Main] = "interrupted"
<1> USE ThreadsDiffer DEF args, bounds, user, negotiated, started, calm, idle, IndInv
<1>1. CASE Connect
  BY <1>1 DEF Connect, Fails, Fault, TypeOK
<1>2. CASE Ask
  BY <1>2 DEF Ask, Fails, Delivers, SendFails, SendKills, TypeOK
<1>3. CASE Hear
  BY <1>3 DEF Hear, Fails, Accepted, Fault, ReceiveFails, ReceiveEnds, TypeOK
<1>4. CASE ReadInterface
  BY <1>4 DEF ReadInterface, Fails, Fault, ReceiveFails, ReceiveEnds, TypeOK
<1>5. CASE CreateThread
  BY <1>5 DEF CreateThread, TypeOK
<1>6. CASE AwaitInitialization
  BY <1>6 DEF AwaitInitialization, Step, TypeOK
<1>7. CASE ReceiveError
  BY <1>7 DEF ReceiveError, ReceiveFails, Step, TypeOK
<1>8. CASE ReceiveEnd
  BY <1>8 DEF ReceiveEnd, ReceiveEnds, TypeOK
<1>9. CASE FrameIsProcessed
  BY <1>9 DEF FrameIsProcessed, Step, TypeOK
<1>10. CASE WakeUp
  BY <1>10 DEF WakeUp, Step, TypeOK
<1>11. CASE SetInitialized
  BY <1>11 DEF SetInitialized, Step, TypeOK
<1>12. CASE Signal
  BY <1>12 DEF Signal, TypeOK
<1>13. ASSUME NEW t \in Timers, StartTimer(t) PROVE at'[Main] = "interrupted"
  BY <1>13 DEF StartTimer, Step, TypeOK
<1>14. CASE ReceiveFrame
  BY <1>14 DEF ReceiveFrame, Step, TypeOK
<1>15. CASE ReceiveNonsense
  BY <1>15 DEF ReceiveNonsense, Step, Fault, TypeOK
<1>16. CASE RecoverSimulation
  BY <1>16 DEF RecoverSimulation, Step, TypeOK
<1>17. ASSUME NEW t \in Threads, NEW c \in CallRecords, Call(t, c) PROVE at'[Main] = "interrupted"
  BY <1>17 DEF Call, Step, Home, TypeOK
<1>18. ASSUME NEW t \in Threads, Lock(t) PROVE at'[Main] = "interrupted"
  BY <1>18 DEF Lock, Step, Home, TypeOK
<1>19. ASSUME NEW t \in Threads, Write(t) PROVE at'[Main] = "interrupted"
  BY <1>19 DEF Write, GivesUp, SendKills, Home, TypeOK
<1>20. ASSUME NEW t \in Threads, Assign(t) PROVE at'[Main] = "interrupted"
  BY <1>20 DEF Assign, Step, Home, TypeOK
<1>21. ASSUME NEW t \in Threads, Interrupt(t) PROVE at'[Main] = "interrupted"
  BY <1>21 DEF Interrupt, TypeOK
<1>22. ASSUME NEW t \in Threads, Destroy(t) PROVE at'[Main] = "interrupted"
  BY <1>22 DEF Destroy, TypeOK
<1>23. CASE ConnectionBreaks
  BY <1>23 DEF ConnectionBreaks, TypeOK
<1>24. CASE UNCHANGED vars
  BY <1>24 DEF vars, TypeOK
<1>25. QED
  BY <1>1, <1>2, <1>3, <1>4, <1>5, <1>6, <1>7, <1>8, <1>9, <1>10, <1>11, <1>12, <1>13, <1>14, <1>15, <1>16, <1>17, <1>18, <1>19, <1>20, <1>21, <1>22, <1>23, <1>24, CallsAre DEF Next, MainRuns

\* Outside of these the last connection's negotiation is that of the main thread.
LEMMA AgendaOfLast ==
  ASSUME IndInv, at[Main] \notin {"connect", "interrupted"}
  PROVE  /\ Agenda = Requests(Len(streams) > 1)
         /\ WellFormed(Current, Requests(Len(streams) > 1)) => WellFormed(Current, Agenda)
<1>1. CASE resuming = TRUE
  <2>1. Len(streams) >= 2 /\ Len(streams) \in Nat
    BY <1>1 DEF IndInv, ConnectionInv, TypeOK
  <2>2. (Len(streams) > 1) = TRUE
    BY <2>1
  <2>3. QED
    BY <1>1, <2>2 DEF Agenda
<1>2. CASE resuming = FALSE
  <2>1. Len(streams) = 1
    BY <1>2 DEF IndInv, ConnectionInv
  <2>2. (Len(streams) > 1) = FALSE
    BY <2>1
  <2>3. QED
    BY <1>2, <2>2 DEF Agenda
<1>3. QED
  BY <1>1, <1>2 DEF IndInv, TypeOK

\* While the connection takes anything, the stream's end is what the mutex's holder knows of.
LEMMA CommandStep ==
  ASSUME IndInv, CommandInv, [Next]_vars
  PROVE  CommandInv'
<1> USE ThreadsDiffer DEF args, bounds, user, negotiated, started, calm, idle, IndInv
<1>1. CASE Connect
  BY <1>1 DEF Connect, Fails, Fault, CommandInv, Complete, Current, Agenda, Simulating, Part, PlacesInv, MutexInv, TypeOK, PartType
<1>2. CASE Ask
  BY <1>2 DEF Ask, Fails, Delivers, SendFails, SendKills, CommandInv, Complete, Current, Agenda, Simulating, Part, PlacesInv, MutexInv, TypeOK, PartType
<1>3. CASE Hear
  <2>1. /\ at[Main] = "hear" /\ UNCHANGED <<resuming, streams>>
        /\ Len(Current) = stage
    BY <1>3 DEF Hear, ConnectionInv
  <2>2. at'[Main] \in Simulating => stage = Len(Agenda)
    BY <1>3, <2>1 DEF Hear, Accepted, Fails, ReceiveEnds, Simulating, Agenda, TypeOK
  <2>3. \A t \in Threads : at[t] # "send"
    BY <2>1, NegotiationIsAlone DEF Simulating
  <2>4. \A t \in Threads : at'[t] # "send"
    BY <1>3, <2>3 DEF Hear, Accepted, Fails, ReceiveEnds, TypeOK
  <2>5. UNCHANGED <<Current, Agenda>>
    BY <2>1 DEF Current, Agenda
  <2>6. at'[Main] \in Simulating => Complete'
    BY <2>1, <2>2, <2>5 DEF Complete
  <2>7. QED
    BY <2>4, <2>6 DEF CommandInv
<1>4. CASE ReadInterface
  BY <1>4, SMTT(60) DEF ReadInterface, Fails, Fault, ReceiveFails, ReceiveEnds, CommandInv, Complete, Current, Agenda, Simulating, Part, PlacesInv, MutexInv, TypeOK, PartType
<1>5. CASE CreateThread
  <2>1. /\ at[Main] = "create" /\ UNCHANGED <<resuming, streams, line, mutex, part, call, calls>>
        /\ \A t \in Threads : at'[t] = "send" => at[t] = "send"
    BY <1>5, ThreadsAssumption DEF CreateThread, TypeOK
  <2>2. UNCHANGED <<Complete, Current, Agenda>> /\ \A t \in Threads : UNCHANGED Part(t, part[t])
    BY <2>1 DEF Complete, Current, Agenda, Part
  <2>3. QED
    BY <2>1, <2>2 DEF CommandInv, Simulating
<1>6. CASE AwaitInitialization
  BY <1>6 DEF AwaitInitialization, Step, CommandInv, Complete, Current, Agenda, Simulating, Part, PlacesInv, MutexInv, TypeOK, PartType
<1>7. CASE ReceiveError
  BY <1>7 DEF ReceiveError, ReceiveFails, Step, CommandInv, Complete, Current, Agenda, Simulating, Part, PlacesInv, MutexInv, TypeOK, PartType
<1>8. CASE ReceiveEnd
  BY <1>8 DEF ReceiveEnd, ReceiveEnds, CommandInv, Complete, Current, Agenda, Simulating, Part, PlacesInv, MutexInv, TypeOK, PartType
<1>9. CASE FrameIsProcessed
  BY <1>9 DEF FrameIsProcessed, Step, CommandInv, Complete, Current, Agenda, Simulating, Part, PlacesInv, MutexInv, TypeOK, PartType
<1>10. CASE WakeUp
  BY <1>10 DEF WakeUp, Step, CommandInv, Complete, Current, Agenda, Simulating, Part, PlacesInv, MutexInv, TypeOK, PartType
<1>11. CASE SetInitialized
  BY <1>11 DEF SetInitialized, Step, CommandInv, Complete, Current, Agenda, Simulating, Part, PlacesInv, MutexInv, TypeOK, PartType
<1>12. CASE Signal
  BY <1>12 DEF Signal, CommandInv, Complete, Current, Agenda, Simulating, Part, PlacesInv, MutexInv, TypeOK, PartType
<1>13. ASSUME NEW t \in Timers, StartTimer(t) PROVE CommandInv'
  BY <1>13 DEF StartTimer, Step, CommandInv, Complete, Current, Agenda, Simulating, Part, PlacesInv, MutexInv, TypeOK, PartType
<1>14. CASE ReceiveFrame
  BY <1>14 DEF ReceiveFrame, Step, CommandInv, Complete, Current, Agenda, Simulating, Part, PlacesInv, MutexInv, TypeOK, PartType
<1>15. CASE ReceiveNonsense
  BY <1>15 DEF ReceiveNonsense, Step, Fault, CommandInv, Complete, Current, Agenda, Simulating, Part, PlacesInv, MutexInv, TypeOK, PartType
<1>16. CASE RecoverSimulation
  BY <1>16 DEF RecoverSimulation, Step, CommandInv, Complete, Current, Agenda, Simulating, Part, PlacesInv, MutexInv, TypeOK, PartType
<1>17. ASSUME NEW t \in Threads, NEW c \in CallRecords, Call(t, c) PROVE CommandInv'
  BY <1>17 DEF Call, Step, Home, CommandInv, Complete, Current, Agenda, Simulating, Part, PlacesInv, MutexInv, TypeOK, PartType
<1>18. ASSUME NEW t \in Threads, Lock(t) PROVE CommandInv'
  BY <1>18 DEF Lock, Step, Home, CommandInv, Complete, Current, Agenda, Simulating, Part, PlacesInv, MutexInv, TypeOK, PartType
<1>19. ASSUME NEW t \in Threads, Write(t) PROVE CommandInv'
  <2>1. /\ at[t] = "send" /\ mutex = t /\ UNCHANGED <<resuming, call, calls>>
        /\ \A u \in Threads : u # t => at[u] # "send" /\ at'[u] # "send"
    BY <1>19 DEF Write, GivesUp, SendKills, MutexInv, TypeOK
  <2>2. at'[Main] \in Simulating => at[Main] \in Simulating
    BY <1>19, <2>1, WriteCases DEF GivesUp, SendKills, Home, Simulating, TypeOK
  <2>3. CASE GivesUp(t)
    BY <2>3 DEF GivesUp, SendFails, CommandInv
  <2>4. CASE UNCHANGED <<at, mutex, line, streams, part>>
    <3>1. UNCHANGED <<Complete, Current, Agenda>> /\ \A u \in Threads : UNCHANGED Part(u, part[u])
      BY <2>1, <2>4 DEF Complete, Current, Agenda, Part
    <3>2. QED
      BY <2>4, <3>1 DEF CommandInv
  <2>5. ASSUME NEW n \in part[t] + 1 .. Size(call[t].what),
               Delivers([i \in 1 .. n - part[t] |-> Part(t, part[t] + i)]),
               part' = [part EXCEPT ![t] = n],
               at' = IF n < Size(call[t].what) THEN at
                     ELSE [at EXCEPT ![t] = IF call[t].what \in Changes THEN "assign" ELSE Home(t)],
               mutex' = IF n < Size(call[t].what) THEN mutex ELSE Nobody,
               at'[Main] \in Simulating, line' \in {"up", "closed"}
        PROVE  /\ mutex' = Nobody => Complete'
               /\ \A u \in Threads : at'[u] = "send" =>
                    IF part'[u] = 0 THEN Complete'
                    ELSE Len(Current') > Len(Agenda') /\ Current'[Len(Current')] = Part(u, part[u])'
    <3> DEFINE pieces == [i \in 1 .. n - part[t] |-> Part(t, part[t] + i)]
    <3>1. /\ pieces \in Seq(Pieces) /\ part[t] \in Nat /\ n \in Nat /\ n - part[t] \in Nat \ {0}
      BY PartsAreSeq
    <3>2. Len(pieces) = n - part[t] /\ pieces[n - part[t]] = Part(t, n)
      <4>1. n - part[t] \in 1 .. n - part[t] /\ part[t] + (n - part[t]) = n
        BY <3>1
      <4>2. QED
        BY <3>1, <4>1
    <3>3. /\ Current \in Seq(Pieces) /\ Current' = Current \o pieces
          /\ Len(Current') = Len(Current) + Len(pieces)
      BY <2>5, <3>1, CurrentGrows
    <3> HIDE DEF pieces
    <3>4. Current'[Len(Current')] = Part(t, n) /\ Len(Current') > Len(Current)
      <4> DEFINE m == n - part[t]
                 old == Len(Current)
      <4>1. m \in Nat \ {0} /\ old \in Nat /\ Len(pieces) = m /\ pieces[m] = Part(t, n)
        BY <3>1, <3>2, <3>3
      <4>2. Len(Current') = old + m
        BY <3>3, <4>1
      <4> HIDE DEF m
      <4>3. (Current \o pieces)[old + m] = pieces[m]
        BY <3>1, <3>3, <4>1
      <4>4. old + m > old
        BY <4>1
      <4>5. QED
        BY <3>3, <4>1, <4>2, <4>3, <4>4
    <3>5. Len(Current) >= Len(Agenda) /\ UNCHANGED Agenda
      BY <2>1, <2>2, <2>5 DEF ConnectionInv, Agenda
    <3>6. Len(Current') > Len(Agenda')
      <4> DEFINE old == Len(Current)
                 new == Len(Current')
                 last == Len(Agenda)
      <4>1. old \in Nat /\ new \in Nat /\ last \in Nat /\ new > old /\ old >= last
        BY <3>1, <3>3, <3>4, <3>5, StageIs
      <4> HIDE DEF old, new, last
      <4>2. new > last
        BY <4>1
      <4>3. QED
        BY <3>5, <4>2 DEF new, last
    <3>7. CASE n < Size(call[t].what)
      <4>1. mutex' # Nobody /\ part'[t] = n /\ n # 0
        BY <2>1, <2>5, <3>1, <3>7 DEF PartType
      <4>2. Part(t, part[t])' = Part(t, n)
        BY <2>1, <4>1 DEF Part
      <4>3. QED
        BY <2>1, <3>4, <3>6, <4>1, <4>2
    <3>8. CASE ~ (n < Size(call[t].what))
      <4>1. n = Size(call[t].what)
        BY <3>1, <3>8, SizeType
      <4>2. Part(t, n).part = Size(Part(t, n).what)
        BY <4>1 DEF Part
      <4>3. Complete'
        BY <3>4, <4>2 DEF Complete
      <4>4. at'[t] # "send"
        BY <2>5, <3>8 DEF Home, TypeOK
      <4>5. QED
        BY <2>1, <4>3, <4>4
    <3>9. QED
      BY <3>7, <3>8
  <2>6. QED
    BY <1>19, <2>3, <2>4, <2>5, WriteCases DEF CommandInv
<1>20. ASSUME NEW t \in Threads, Assign(t) PROVE CommandInv'
  BY <1>20 DEF Assign, Step, Home, CommandInv, Complete, Current, Agenda, Simulating, Part, PlacesInv, MutexInv, TypeOK, PartType
<1>21. ASSUME NEW t \in Threads, Interrupt(t) PROVE CommandInv'
  BY <1>21 DEF Interrupt, CommandInv, Complete, Current, Agenda, Simulating, Part, PlacesInv, MutexInv, TypeOK, PartType
<1>22. ASSUME NEW t \in Threads, Destroy(t) PROVE CommandInv'
  BY <1>22 DEF Destroy, CommandInv, Complete, Current, Agenda, Simulating, Part, PlacesInv, MutexInv, TypeOK, PartType
<1>23. CASE ConnectionBreaks
  BY <1>23 DEF ConnectionBreaks, CommandInv, Complete, Current, Agenda, Simulating, Part, PlacesInv, MutexInv, TypeOK, PartType
<1>24. CASE UNCHANGED vars
  BY <1>24 DEF vars, CommandInv, Complete, Current, Agenda, Simulating, Part, PlacesInv, MutexInv, TypeOK, PartType
<1>25. QED
  BY <1>1, <1>2, <1>3, <1>4, <1>5, <1>6, <1>7, <1>8, <1>9, <1>10, <1>11, <1>12, <1>13, <1>14, <1>15, <1>16, <1>17, <1>18, <1>19, <1>20, <1>21, <1>22, <1>23, <1>24, CallsAre DEF Next, MainRuns

\* The streams change when a connection is made, a request is made, or a call writes.
LEMMA StreamsChange ==
  ASSUME IndInv, [Next]_vars
  PROVE  \/ UNCHANGED streams
         \/ Connect \/ Ask
         \/ \E t \in Threads : Write(t)
<1> USE DEF calm, idle, negotiated, started, user, bounds, args
<1>1. ASSUME NEW t \in Threads, NEW c \in CallRecords, Call(t, c) PROVE UNCHANGED streams
  BY <1>1 DEF Call
<1>2. CASE MainRuns
  BY <1>2 DEF MainRuns, Hear, ReadInterface, CreateThread, AwaitInitialization, ReceiveError,
              ReceiveEnd, FrameIsProcessed
<1>3. CASE \/ WakeUp \/ SetInitialized \/ Signal \/ \E t \in Timers : StartTimer(t)
           \/ ReceiveFrame \/ ReceiveNonsense \/ RecoverSimulation \/ ConnectionBreaks
  BY <1>3 DEF WakeUp, SetInitialized, Signal, StartTimer, ReceiveFrame, ReceiveNonsense,
              RecoverSimulation, ConnectionBreaks
<1>4. ASSUME NEW t \in Threads, Lock(t) \/ Assign(t) \/ Interrupt(t) \/ Destroy(t)
      PROVE  UNCHANGED streams
  BY <1>4 DEF Lock, Assign, Interrupt, Destroy
<1>5. CASE UNCHANGED vars
  BY <1>5 DEF vars
<1>6. QED
  BY <1>1, <1>2, <1>3, <1>4, <1>5, CallsAre DEF Next

\* What is appended to the last stream keeps all well formed if it does so with that.
LEMMA LastStreamGrows ==
  ASSUME IndInv, StreamsAreWellFormed, [Next]_vars,
         NEW pieces \in Seq(Pieces), Delivers(pieces),
         at[Main] \notin {"connect", "interrupted"} =>
           (WellFormed(Current, Agenda) => WellFormed(Current \o pieces, Agenda)),
         at[Main] # "connect"
  PROVE  StreamsAreWellFormed'
<1>1. /\ streams \in Seq(Seq(Pieces)) /\ streams' \in Seq(Seq(Pieces))
      /\ Len(streams') = Len(streams) /\ Len(streams) \in Nat \ {0}
      /\ \A k \in 1 .. Len(streams) :
           streams'[k] = IF k = Len(streams) THEN Current \o pieces ELSE streams[k]
      /\ DOMAIN streams = 1 .. Len(streams) /\ DOMAIN streams' = 1 .. Len(streams)
  BY DeliversType DEF IndInv, TypeOK, Current
<1>2. CASE at[Main] = "interrupted"
  <2>1. at'[Main] = "interrupted"
    BY <1>2, InterruptedStays
  <2>2. \A k \in DOMAIN streams' : k # Len(streams) =>
          WellFormed(streams'[k], Requests(k > 1))
    <3>1. \A k \in DOMAIN streams : k # Len(streams) => WellFormed(streams[k], Requests(k > 1))
      BY DEF StreamsAreWellFormed
    <3>2. QED
      BY <1>1, <3>1
  <2>3. QED
    BY <1>1, <2>1, <2>2 DEF StreamsAreWellFormed
<1>3. CASE at[Main] # "interrupted"
  <2>1. Agenda = Requests(Len(streams) > 1)
    BY <1>3, AgendaOfLast
  <2>2. \A k \in DOMAIN streams : WellFormed(streams[k], Requests(k > 1))
    BY <1>3 DEF StreamsAreWellFormed
  <2>3. WellFormed(Current \o pieces, Requests(Len(streams) > 1))
    <3>1. WellFormed(Current, Requests(Len(streams) > 1))
      <4>1. \A m \in Nat \ {0} : m \in 1 .. m
        OBVIOUS
      <4>2. Len(streams) \in DOMAIN streams
        BY <1>1, <4>1, Zenon
      <4>3. QED
        BY <2>2, <4>2, Zenon DEF Current
    <3>2. QED
      BY <1>3, <2>1, <3>1
  <2>4. \A k \in DOMAIN streams' : WellFormed(streams'[k], Requests(k > 1))
    <3>1. ASSUME NEW k \in DOMAIN streams' PROVE WellFormed(streams'[k], Requests(k > 1))
      <4>1. CASE k = Len(streams)
        BY <1>1, <2>3, <4>1, Zenon
      <4>2. CASE k # Len(streams)
        BY <1>1, <2>2, <4>2
      <4>3. QED
        BY <4>1, <4>2
    <3>2. QED
      BY <3>1
  <2>5. QED
    BY <2>4 DEF StreamsAreWellFormed
<1>4. QED
  BY <1>2, <1>3

\* All streams stay well formed.
LEMMA StreamsStep ==
  ASSUME IndInv, CommandInv, StreamsAreWellFormed, [Next]_vars
  PROVE  StreamsAreWellFormed'
<1> USE DEF negotiated
<1>1. CASE UNCHANGED streams
  BY <1>1, InterruptedStays DEF StreamsAreWellFormed
<1>2. CASE Connect /\ ~ UNCHANGED streams
  <2>1. streams' = Append(streams, <<>>) /\ at[Main] = "connect"
    BY <1>2 DEF Connect
  <2>2. /\ streams \in Seq(Seq(Pieces)) /\ Len(streams) \in Nat
        /\ DOMAIN streams' = 1 .. Len(streams) + 1 /\ DOMAIN streams = 1 .. Len(streams)
        /\ streams'[Len(streams) + 1] = <<>>
        /\ \A k \in 1 .. Len(streams) : streams'[k] = streams[k]
    BY <2>1 DEF IndInv, TypeOK
  <2>3. \A r : WellFormed(<<>>, r)
    BY DEF WellFormed
  <2>4. \A k \in DOMAIN streams' : WellFormed(streams'[k], Requests(k > 1))
    BY <2>1, <2>2, <2>3 DEF StreamsAreWellFormed
  <2>5. QED
    BY <2>4 DEF StreamsAreWellFormed
<1>3. CASE Ask /\ ~ UNCHANGED streams
  <2>1. at[Main] = "ask" /\ Len(Current) = stage - 1 /\ Delivers(<<Request(Agenda[stage])>>)
    BY <1>3 DEF Ask, IndInv, ConnectionInv, Agenda
  <2>2. /\ stage \in 1 .. Len(Agenda) /\ Len(Agenda) \in Nat
        /\ <<Request(Agenda[stage])>> \in Seq(Pieces)
    <3>1. stage \in 1 .. Len(Agenda) /\ Len(Agenda) \in Nat
      BY StageIs DEF IndInv
    <3>2. Request(Agenda[stage]) \in Pieces
      BY <3>1, RequestType DEF Agenda, IndInv, TypeOK
    <3>3. QED
      BY <3>1, <3>2
  <2>3. Current \in Seq(Pieces)
    BY <2>1, <2>2, CurrentGrows DEF IndInv
  <2>4. WellFormed(Current, Agenda) => WellFormed(Current \o <<Request(Agenda[stage])>>, Agenda)
    <3> DEFINE k == stage - 1
               last == Len(Agenda)
    <3>1. k \in Nat /\ k + 1 = stage /\ k + 1 <= last
      BY <2>2
    <3>2. Len(Current) = k
      BY <2>1
    <3> HIDE DEF k
    <3>3. WellFormed(Current, Agenda) => WellFormed(Current \o <<Request(Agenda[k + 1])>>, Agenda)
      BY <2>2, <2>3, <3>1, <3>2, WellFormedRequest
    <3>4. QED
      BY <3>1, <3>3
  <2>5. QED
    BY <2>1, <2>2, <2>4, LastStreamGrows
<1>4. ASSUME NEW t \in Threads, Write(t), ~ UNCHANGED streams
      PROVE  StreamsAreWellFormed'
  <2>1. at[t] = "send"
    BY <1>4 DEF Write
  <2>2. PICK n \in part[t] + 1 .. Size(call[t].what) :
          Delivers([i \in 1 .. n - part[t] |-> Part(t, part[t] + i)])
    BY <1>4, WriteCases DEF IndInv
  <2> DEFINE pieces == [i \in 1 .. n - part[t] |-> Part(t, part[t] + i)]
  <2>3. pieces \in Seq(Pieces)
    BY PartsAreSeq DEF IndInv
  <2>4. at[Main] \in Simulating \cup {"interrupted"}
    BY <2>1, NegotiationIsAlone
  <2>5. ASSUME at[Main] \in Simulating, WellFormed(Current, Agenda)
        PROVE  WellFormed(Current \o pieces, Agenda)
    <3>1. /\ Current \in Seq(Pieces) /\ Len(Current) >= Len(Agenda) /\ Len(Agenda) \in Nat \ {0}
      BY <2>2, <2>3, <2>5, CurrentGrows, StageIs DEF IndInv, ConnectionInv
    <3>2. line \in {"up", "closed"}
      BY <2>2 DEF Delivers
    <3>3. IF part[t] = 0 THEN Complete
          ELSE Len(Current) > Len(Agenda) /\ Current[Len(Current)] = Part(t, part[t])
      BY <2>1, <2>5, <3>2 DEF CommandInv
    <3>4. QED
      BY <2>5, <3>1, <3>3, WellFormedParts DEF Complete, IndInv
  <2>6. QED
    BY <2>2, <2>3, <2>4, <2>5, LastStreamGrows DEF Simulating
<1>5. QED
  BY <1>1, <1>2, <1>3, <1>4, StreamsChange

\* Before the first connection there is nothing to be well formed.
LEMMA StreamsInit == Init => CommandInv /\ StreamsAreWellFormed
<1> SUFFICES ASSUME Init PROVE CommandInv /\ StreamsAreWellFormed
  OBVIOUS
<1>1. at[Main] = "connect" /\ streams = <<>>
  BY ThreadsDiffer DEF Init
<1>2. QED
  BY <1>1 DEF CommandInv, StreamsAreWellFormed, Simulating

\* On no connection do commands mix with each other or with a negotiation.
THEOREM StreamsAreWellFormedAlways == Spec => []StreamsAreWellFormed
<1>1. Init => CommandInv /\ StreamsAreWellFormed
  BY StreamsInit
<1>2. IndInv /\ CommandInv /\ StreamsAreWellFormed /\ [Next]_vars =>
        (CommandInv /\ StreamsAreWellFormed)'
  BY CommandStep, StreamsStep
<1>3. QED
  BY <1>1, <1>2, IndInvAlways, PTL DEF Spec

-----------------------------------------------------------------------------
(***************************************************************************)
(* What was announced, and what the program sees.                          *)
(***************************************************************************)

\* Nothing is assigned, who is about to assign may at most be stopped, and nobody
\* new gets there.
Quiet ==
  /\ UNCHANGED addresses
  /\ \A u \in Threads : at[u] \in {"assign", "interrupted"} =>
       at'[u] \in {"assign", "interrupted"} /\ call'[u] = call[u]
  /\ \A u \in Threads : at'[u] = "assign" => at[u] = "assign"

\* No step but a write or an assignment does otherwise.
LEMMA BusyStays ==
  ASSUME IndInv, [Next]_vars
  PROVE  Quiet \/ \E t \in Threads : Write(t) \/ Assign(t)
<1> USE ThreadsDiffer DEF args, bounds, user, negotiated, started, calm, idle, IndInv
<1>1. CASE Connect
  BY <1>1 DEF Connect, Fails, Fault, Quiet, TypeOK, Places
<1>2. CASE Ask
  BY <1>2 DEF Ask, Fails, Delivers, SendFails, SendKills, Quiet, TypeOK, Places
<1>3. CASE Hear
  BY <1>3 DEF Hear, Fails, Accepted, Fault, ReceiveFails, ReceiveEnds, Quiet, TypeOK, Places
<1>4. CASE ReadInterface
  BY <1>4 DEF ReadInterface, Fails, Fault, ReceiveFails, ReceiveEnds, Quiet, TypeOK, Places
<1>5. CASE CreateThread
  <2>1. at[Main] = "create" /\ at[Run] = "unborn" /\ UNCHANGED <<addresses, call>>
    BY <1>5 DEF CreateThread, StartInv
  <2>2. at'[Main] \in {"await", "interrupted"} /\ at'[Run] \in {"initialize", "unborn"}
    BY <1>5, <2>1, ThreadsAssumption DEF CreateThread, TypeOK
  <2>3. \A u \in Threads : u \notin {Main, Run} => at'[u] = at[u]
    BY <1>5 DEF CreateThread, TypeOK
  <2>4. QED
    BY <2>1, <2>2, <2>3 DEF Quiet
<1>6. CASE AwaitInitialization
  BY <1>6 DEF AwaitInitialization, Step, Quiet, TypeOK, Places
<1>7. CASE ReceiveError
  BY <1>7 DEF ReceiveError, ReceiveFails, Step, Quiet, TypeOK, Places
<1>8. CASE ReceiveEnd
  BY <1>8 DEF ReceiveEnd, ReceiveEnds, Quiet, TypeOK, Places
<1>9. CASE FrameIsProcessed
  BY <1>9 DEF FrameIsProcessed, Step, Quiet, TypeOK, Places
<1>10. CASE WakeUp
  BY <1>10 DEF WakeUp, Step, Quiet, TypeOK, Places
<1>11. CASE SetInitialized
  BY <1>11 DEF SetInitialized, Step, Quiet, TypeOK, Places
<1>12. CASE Signal
  BY <1>12 DEF Signal, Quiet, TypeOK, Places
<1>13. ASSUME NEW t \in Timers, StartTimer(t) PROVE Quiet
  BY <1>13 DEF StartTimer, Step, Quiet, TypeOK, Places
<1>14. CASE ReceiveFrame
  BY <1>14 DEF ReceiveFrame, Step, Quiet, TypeOK, Places
<1>15. CASE ReceiveNonsense
  BY <1>15 DEF ReceiveNonsense, Step, Fault, Quiet, TypeOK, Places
<1>16. CASE RecoverSimulation
  BY <1>16 DEF RecoverSimulation, Step, Quiet, TypeOK, Places
<1>17. ASSUME NEW t \in Threads, NEW c \in CallRecords, Call(t, c) PROVE Quiet
  BY <1>17 DEF Call, Step, Home, Quiet, TypeOK, Places
<1>18. ASSUME NEW t \in Threads, Lock(t) PROVE Quiet
  BY <1>18 DEF Lock, Step, Home, Quiet, TypeOK, Places
<1>19. ASSUME NEW t \in Threads, Interrupt(t) PROVE Quiet
  BY <1>19 DEF Interrupt, Quiet, TypeOK, Places
<1>20. ASSUME NEW t \in Threads, Destroy(t) PROVE Quiet
  BY <1>20 DEF Destroy, Quiet, TypeOK, Places
<1>21. CASE ConnectionBreaks
  BY <1>21 DEF ConnectionBreaks, Quiet, TypeOK, Places
<1>22. CASE UNCHANGED vars
  BY <1>22 DEF vars, Quiet, TypeOK, Places
<1>23. QED
  BY <1>1, <1>2, <1>3, <1>4, <1>5, <1>6, <1>7, <1>8, <1>9, <1>10, <1>11, <1>12, <1>13, <1>14, <1>15, <1>16, <1>17, <1>18, <1>19, <1>20, <1>21, <1>22, CallsAre DEF Next, MainRuns

\* The announcements and the pieces that make them stay what they are.
SameAnnounced(i, f) ==
  /\ Announced(i, f)' = Announced(i, f)
  /\ \A p \in Announced(i, f) : Piece(p)' = Piece(p)

\* AddressesAgree for one address.
AgreesOn(i, f) ==
  \/ \E t \in Threads :
       at[t] \in {"assign", "interrupted"} /\ call[t].what = f /\ call[t].iface = i
  \/ \E p, q \in Announced(i, f) : Piece(p).by # Piece(q).by
  \/ Announced(i, f) = {} /\ addresses[i][f] = Original
  \/ \E p \in Announced(i, f) :
       /\ \A q \in Announced(i, f) : ~ IsLater(q, p)
       /\ addresses[i][f] = Piece(p).address

\* AddressesAgree is that of all addresses, now and after a step.
LEMMA AgreesOnIs ==
  /\ AddressesAgree <=> \A i \in 1 .. Interfaces, f \in Changes : AgreesOn(i, f)
  /\ AddressesAgree' <=> \A i \in 1 .. Interfaces, f \in Changes : AgreesOn(i, f)'
  BY DEF AddressesAgree, AgreesOn

\* An announcement is a place in the streams.
LEMMA AnnouncedIs ==
  ASSUME NEW i, NEW f, NEW p
  PROVE  p \in Announced(i, f) <=>
           \E k \in DOMAIN streams : \E j \in DOMAIN streams[k] :
             /\ p = <<k, j>>
             /\ streams[k][j].what = f /\ streams[k][j].iface = i
             /\ streams[k][j].part = CommandSize
<1>1. p \in UNION {{k} \X DOMAIN streams[k] : k \in DOMAIN streams} <=>
        \E k \in DOMAIN streams : \E j \in DOMAIN streams[k] : p = <<k, j>>
  OBVIOUS
<1>2. \A k, j : Piece(<<k, j>>) = streams[k][j]
  BY DEF Piece
<1>3. QED
  BY <1>1, <1>2 DEF Announced

\* The same after a step.
LEMMA AnnouncedIsNext ==
  ASSUME NEW i, NEW f, NEW p
  PROVE  p \in Announced(i, f)' <=>
           \E k \in DOMAIN streams' : \E j \in DOMAIN streams'[k] :
             /\ p = <<k, j>>
             /\ streams'[k][j].what = f /\ streams'[k][j].iface = i
             /\ streams'[k][j].part = CommandSize
<1>1. p \in UNION {{k} \X DOMAIN streams'[k] : k \in DOMAIN streams'} <=>
        \E k \in DOMAIN streams' : \E j \in DOMAIN streams'[k] : p = <<k, j>>
  OBVIOUS
<1>2. \A k, j : Piece(<<k, j>>)' = streams'[k][j]
  BY DEF Piece
<1>3. QED
  BY <1>1, <1>2 DEF Announced

\* A new connection announces nothing,
LEMMA AppendAnnounces ==
  ASSUME TypeOK, streams' = Append(streams, <<>>), NEW i, NEW f
  PROVE  SameAnnounced(i, f)
<1>1. /\ DOMAIN streams' = 1 .. Len(streams) + 1 /\ DOMAIN streams = 1 .. Len(streams)
      /\ Len(streams) \in Nat
      /\ streams'[Len(streams) + 1] = <<>>
      /\ \A k \in 1 .. Len(streams) : streams'[k] = streams[k]
  BY DEF TypeOK
<1>2. \A k \in DOMAIN streams' : k \in DOMAIN streams \/ DOMAIN streams'[k] = {}
  BY <1>1
<1>3. \A k \in DOMAIN streams : k \in DOMAIN streams' /\ streams'[k] = streams[k]
  BY <1>1
<1>4. ASSUME NEW p PROVE p \in Announced(i, f)' <=> p \in Announced(i, f)
  BY <1>2, <1>3, AnnouncedIs, AnnouncedIsNext
<1>5. ASSUME NEW p \in Announced(i, f) PROVE Piece(p)' = Piece(p)
  <2>1. PICK k, j : k \in DOMAIN streams /\ p = <<k, j>>
    BY AnnouncedIs
  <2>2. QED
    BY <1>3, <2>1 DEF Piece
<1>6. QED
  BY <1>4, <1>5 DEF SameAnnounced

\* and what is appended to the last stream adds the announcements it contains.
LEMMA DeliversAnnounces ==
  ASSUME TypeOK, ConnectionInv, NEW pieces \in Seq(Pieces), Delivers(pieces), NEW i, NEW f
  PROVE  /\ Announced(i, f) \subseteq Announced(i, f)'
         /\ \A p \in Announced(i, f) : Piece(p)' = Piece(p)
         /\ \A p \in Announced(i, f)' : p \in Announced(i, f) \/
              \E j \in 1 .. Len(pieces) :
                /\ p = <<Len(streams), Len(Current) + j>> /\ Piece(p)' = pieces[j]
                /\ pieces[j].what = f /\ pieces[j].iface = i /\ pieces[j].part = CommandSize
<1> DEFINE last == Len(streams)
           old  == Len(Current)
<1>1. /\ last \in DOMAIN streams /\ DOMAIN streams' = DOMAIN streams
      /\ streams[last] = Current /\ streams'[last] = Current \o pieces
      /\ \A k \in DOMAIN streams : k # last => streams'[k] = streams[k]
      /\ Current \in Seq(Pieces)
  <2>1. streams \in Seq(Seq(Pieces)) /\ streams' \in Seq(Seq(Pieces)) /\ Len(streams) \in Nat \ {0}
    BY DeliversType DEF TypeOK
  <2>2. DOMAIN streams = 1 .. last /\ DOMAIN streams' = 1 .. last /\ last \in 1 .. last
    BY <2>1, DeliversType
  <2>3. Current \in Seq(Pieces) /\ streams[last] = Current
    BY <2>1, <2>2 DEF Current
  <2>4. QED
    BY <2>2, <2>3, DeliversType
<1>2. /\ DOMAIN Current = 1 .. old /\ old \in Nat /\ Len(pieces) \in Nat
      /\ DOMAIN (Current \o pieces) = 1 .. old + Len(pieces)
      /\ \A j \in 1 .. old : (Current \o pieces)[j] = Current[j]
      /\ \A j \in 1 .. Len(pieces) : (Current \o pieces)[old + j] = pieces[j]
  BY <1>1
<1>3. \A k \in DOMAIN streams : \A j \in DOMAIN streams[k] :
        j \in DOMAIN streams'[k] /\ streams'[k][j] = streams[k][j]
  <2> SUFFICES ASSUME NEW k \in DOMAIN streams, NEW j \in DOMAIN streams[k]
               PROVE  j \in DOMAIN streams'[k] /\ streams'[k][j] = streams[k][j]
    OBVIOUS
  <2>1. CASE k = last
    <3>1. j \in 1 .. old /\ j \in 1 .. old + Len(pieces)
      BY <1>1, <1>2, <2>1
    <3>2. QED
      BY <1>1, <1>2, <2>1, <3>1
  <2>2. CASE k # last
    BY <1>1, <2>2
  <2>3. QED
    BY <2>1, <2>2
<1>4. \A k \in DOMAIN streams' : \A j \in DOMAIN streams'[k] :
        \/ k \in DOMAIN streams /\ j \in DOMAIN streams[k]
        \/ k = last /\ \E m \in 1 .. Len(pieces) : j = old + m /\ streams'[k][j] = pieces[m]
  <2> SUFFICES ASSUME NEW k \in DOMAIN streams', NEW j \in DOMAIN streams'[k],
                      k = last, j \notin DOMAIN Current
               PROVE  \E m \in 1 .. Len(pieces) : j = old + m /\ streams'[k][j] = pieces[m]
    BY <1>1
  <2>1. j \in 1 .. old + Len(pieces) /\ j \notin 1 .. old
    BY <1>1, <1>2
  <2>2. j - old \in 1 .. Len(pieces) /\ j = old + (j - old)
    BY <1>2, <2>1
  <2>3. QED
    BY <1>1, <1>2, <2>2
<1> HIDE DEF last, old
<1>5. ASSUME NEW p \in Announced(i, f) PROVE p \in Announced(i, f)' /\ Piece(p)' = Piece(p)
  <2>1. PICK k \in DOMAIN streams : \E j \in DOMAIN streams[k] :
           /\ p = <<k, j>> /\ streams[k][j].what = f /\ streams[k][j].iface = i
           /\ streams[k][j].part = CommandSize
    BY AnnouncedIs
  <2>2. PICK j \in DOMAIN streams[k] :
           /\ p = <<k, j>> /\ streams[k][j].what = f /\ streams[k][j].iface = i
           /\ streams[k][j].part = CommandSize
    BY <2>1
  <2>3. k \in DOMAIN streams' /\ j \in DOMAIN streams'[k] /\ streams'[k][j] = streams[k][j]
    BY <1>1, <1>3
  <2>4. p \in Announced(i, f)'
    BY <2>2, <2>3, AnnouncedIsNext
  <2>5. QED
    BY <2>2, <2>3, <2>4 DEF Piece
<1>6. ASSUME NEW p \in Announced(i, f)'
      PROVE  p \in Announced(i, f) \/
              \E j \in 1 .. Len(pieces) :
                /\ p = <<last, old + j>> /\ Piece(p)' = pieces[j]
                /\ pieces[j].what = f /\ pieces[j].iface = i /\ pieces[j].part = CommandSize
  <2>1. PICK k \in DOMAIN streams' : \E j \in DOMAIN streams'[k] :
           /\ p = <<k, j>> /\ streams'[k][j].what = f /\ streams'[k][j].iface = i
           /\ streams'[k][j].part = CommandSize
    BY AnnouncedIsNext
  <2>2. PICK j \in DOMAIN streams'[k] :
           /\ p = <<k, j>> /\ streams'[k][j].what = f /\ streams'[k][j].iface = i
           /\ streams'[k][j].part = CommandSize
    BY <2>1
  <2>3. CASE k \in DOMAIN streams /\ j \in DOMAIN streams[k]
    <3>1. streams'[k][j] = streams[k][j]
      BY <1>3, <2>3
    <3>2. QED
      BY <2>2, <2>3, <3>1, AnnouncedIs
  <2>4. CASE ~ (k \in DOMAIN streams /\ j \in DOMAIN streams[k])
    <3>1. PICK m \in 1 .. Len(pieces) : k = last /\ j = old + m /\ streams'[k][j] = pieces[m]
      BY <1>4, <2>4
    <3>2. p = <<last, old + m>> /\ Piece(p)' = pieces[m]
      BY <2>2, <3>1 DEF Piece
    <3>3. QED
      BY <2>2, <3>1, <3>2
  <2>5. QED
    BY <2>3, <2>4
<1>7. QED
  BY <1>5, <1>6, Zenon DEF last, old

\* A quiet step that announces nothing changes nothing of this.
LEMMA QuietAgrees ==
  ASSUME Quiet, AddressesAgree, AnnouncedInv,
         \A i, f : f \in Changes => SameAnnounced(i, f)
  PROVE  AddressesAgree' /\ AnnouncedInv'
<1>1. ASSUME NEW i \in 1 .. Interfaces, NEW f \in Changes PROVE AgreesOn(i, f)'
  <2>1. SameAnnounced(i, f) /\ AgreesOn(i, f)
    BY AgreesOnIs
  <2>2. UNCHANGED addresses
    BY DEF Quiet
  <2>3. QED
    BY <2>1, <2>2 DEF AgreesOn, SameAnnounced, Quiet
<1>2. ASSUME NEW t \in Threads, at'[t] = "assign"
      PROVE  call'[t].what \in Changes /\ HasAnnounced(t, call[t].iface, call[t].what)'
  <2>1. at[t] = "assign" /\ call'[t] = call[t] /\ call[t].what \in Changes
    BY <1>2 DEF Quiet, AnnouncedInv
  <2> DEFINE i == call[t].iface
             f == call[t].what
  <2>2. SameAnnounced(i, f) /\ HasAnnounced(t, i, f) /\ UNCHANGED i /\ UNCHANGED f
    BY <2>1 DEF AnnouncedInv
  <2>3. QED
    BY <2>1, <2>2 DEF HasAnnounced, SameAnnounced
<1>3. QED
  BY <1>1, <1>2, AgreesOnIs DEF AnnouncedInv

\* Where nothing is written nothing is announced.
LEMMA UnchangedAnnounces ==
  ASSUME UNCHANGED streams, NEW i, NEW f
  PROVE  SameAnnounced(i, f)
  BY DEF SameAnnounced, Announced, Piece

\* A request announces nothing.
LEMMA AskAnnounces ==
  ASSUME IndInv, Ask, NEW i, NEW f \in Changes
  PROVE  SameAnnounced(i, f)
<1> DEFINE x == Request(Agenda[stage])
<1>1. x \in Pieces /\ x.what \notin Changes
  <2>1. Agenda[stage] \notin Calls /\ stage \in 1 .. Len(Agenda)
    BY StageIs DEF IndInv
  <2>2. x.what = Agenda[stage] /\ x \in Pieces
    BY <2>1, RequestType DEF Request, Agenda, IndInv, TypeOK
  <2>3. QED
    BY <2>1, <2>2 DEF Calls
<1>2. Delivers(<<x>>) \/ UNCHANGED streams
  BY DEF Ask, Agenda
<1> HIDE DEF x
<1>3. CASE Delivers(<<x>>)
  <2> DEFINE pieces == <<x>>
  <2>1. pieces \in Seq(Pieces) /\ \A j \in 1 .. Len(pieces) : pieces[j] = x
    BY <1>1
  <2>2. Delivers(pieces)
    BY <1>3
  <2> HIDE DEF pieces
  <2>3. QED
    <3>1. TypeOK /\ ConnectionInv
      BY DEF IndInv
    <3>2. \A p \in Announced(i, f)' : p \in Announced(i, f)
      <4>1. \A p \in Announced(i, f)' : p \in Announced(i, f) \/
               \E j \in 1 .. Len(pieces) : pieces[j].what = f
        BY <2>1, <2>2, <3>1, DeliversAnnounces
      <4>2. QED
        BY <1>1, <2>1, <4>1
    <3>3. /\ Announced(i, f) \subseteq Announced(i, f)'
          /\ \A p \in Announced(i, f) : Piece(p)' = Piece(p)
      BY <2>1, <2>2, <3>1, DeliversAnnounces
    <3>4. QED
      BY <3>2, <3>3 DEF SameAnnounced
<1>4. QED
  BY <1>2, <1>3, UnchangedAnnounces

\* An assignment of what was announced last makes the program see it.
LEMMA AssignAgrees ==
  ASSUME IndInv, AddressesAgree, AnnouncedInv, NEW t \in Threads, Assign(t)
  PROVE  AddressesAgree' /\ AnnouncedInv'
<1>1. /\ at[t] = "assign" /\ UNCHANGED <<streams, call>>
      /\ addresses' = [addresses EXCEPT ![call[t].iface][call[t].what] = call[t].address]
      /\ \A u \in Threads : u # t => at'[u] = at[u]
      /\ at'[t] = Home(t)
  BY DEF Assign, Step, IndInv, TypeOK
<1>2. addresses \in [1 .. Interfaces -> [Changes -> Addresses]]
  BY DEF IndInv, TypeOK
<1>3. \A i, f : SameAnnounced(i, f)
  BY <1>1, UnchangedAnnounces
<1>4. AnnouncedInv'
  <2> SUFFICES ASSUME NEW u \in Threads, at'[u] = "assign"
               PROVE  call'[u].what \in Changes /\ HasAnnounced(u, call[u].iface, call[u].what)'
    BY DEF AnnouncedInv
  <2>1. at[u] = "assign" /\ call'[u] = call[u] /\ call[u].what \in Changes
    BY <1>1 DEF AnnouncedInv, Home
  <2> DEFINE i == call[u].iface
             f == call[u].what
  <2>2. SameAnnounced(i, f) /\ HasAnnounced(u, i, f) /\ UNCHANGED i /\ UNCHANGED f
    BY <1>3, <2>1 DEF AnnouncedInv
  <2>3. QED
    BY <2>1, <2>2 DEF HasAnnounced, SameAnnounced
<1>5. ASSUME NEW i \in 1 .. Interfaces, NEW f \in Changes PROVE AgreesOn(i, f)'
  <2>1. SameAnnounced(i, f) /\ AgreesOn(i, f)
    BY <1>3, AgreesOnIs
  <2>2. CASE call[t].iface = i /\ call[t].what = f
    <3>1. PICK p \in Announced(i, f) :
            /\ Piece(p).by = t /\ Piece(p).address = call[t].address
            /\ \A q \in Announced(i, f) : IsLater(q, p) => Piece(q).by # t
      BY <1>1, <2>2 DEF AnnouncedInv, HasAnnounced
    <3>2. addresses'[i][f] = call[t].address
      BY <1>1, <1>2, <2>2
    <3>3. CASE \E q \in Announced(i, f) : Piece(q).by # t
      BY <2>1, <3>1, <3>3 DEF AgreesOn, SameAnnounced
    <3>4. CASE \A q \in Announced(i, f) : Piece(q).by = t
      <4>1. \A q \in Announced(i, f) : ~ IsLater(q, p)
        BY <3>1, <3>4
      <4>2. QED
        BY <2>1, <3>1, <3>2, <4>1 DEF AgreesOn, SameAnnounced
    <3>5. QED
      BY <3>3, <3>4
  <2>3. CASE ~ (call[t].iface = i /\ call[t].what = f)
    <3>1. addresses'[i][f] = addresses[i][f]
      BY <1>1, <1>2, <2>3
    <3>2. \A u \in Threads : at[u] \in {"assign", "interrupted"} /\ call[u].what = f /\ call[u].iface = i
                             => at'[u] = at[u] /\ call'[u] = call[u]
      BY <1>1, <2>3
    <3>3. QED
      BY <2>1, <3>1, <3>2 DEF AgreesOn, SameAnnounced
  <2>4. QED
    BY <2>2, <2>3
<1>6. QED
  BY <1>4, <1>5, AgreesOnIs

\* A change that is written in full is announced last, and its thread goes to assign it.
LEMMA WriteAgrees ==
  ASSUME IndInv, AddressesAgree, AnnouncedInv, NEW t \in Threads, Write(t)
  PROVE  AddressesAgree' /\ AnnouncedInv'
<1>1. /\ at[t] = "send" /\ UNCHANGED <<addresses, call>>
      /\ \A u \in Threads : u # t => at'[u] = at[u]
  BY WriteCases DEF Write, GivesUp, SendKills, user, IndInv, TypeOK
<1>2. CASE GivesUp(t) /\ UNCHANGED streams
  <2>1. at'[t] = Home(t)
    BY <1>2 DEF GivesUp, IndInv, TypeOK
  <2>2. Quiet
    BY <1>1, <2>1 DEF Quiet, Home
  <2>3. QED
    BY <1>2, <2>2, UnchangedAnnounces, QuietAgrees
<1>3. CASE UNCHANGED <<at, streams>>
  <2>1. Quiet
    BY <1>1, <1>3 DEF Quiet
  <2>2. QED
    BY <1>3, <2>1, UnchangedAnnounces, QuietAgrees
<1>4. ASSUME NEW n \in part[t] + 1 .. Size(call[t].what),
             Delivers([i \in 1 .. n - part[t] |-> Part(t, part[t] + i)]),
             at' = IF n < Size(call[t].what) THEN at
                   ELSE [at EXCEPT ![t] = IF call[t].what \in Changes THEN "assign" ELSE Home(t)]
      PROVE  AddressesAgree' /\ AnnouncedInv'
  <2> DEFINE m == n - part[t]
             pieces == [i \in 1 .. m |-> Part(t, part[t] + i)]
             last == Len(streams)
             old  == Len(Current)
             Mine(i, f) == call[t].what = f /\ call[t].iface = i /\ n = CommandSize
  <2>1. /\ pieces \in Seq(Pieces) /\ part[t] \in Nat /\ n \in Nat /\ m \in Nat \ {0}
        /\ part[t] + m = n /\ n <= Size(call[t].what) /\ Size(call[t].what) \in Nat
    BY PartsAreSeq, SizeType DEF IndInv
  <2>2. Len(pieces) = m /\ \A j \in 1 .. m : pieces[j] = Part(t, part[t] + j)
    BY <2>1
  <2>3. Delivers(pieces)
    BY <1>4
  <2> HIDE DEF pieces, m
  <2>4. ASSUME NEW i, NEW f \in Changes
        PROVE  /\ Announced(i, f) \subseteq Announced(i, f)'
               /\ \A p \in Announced(i, f) : Piece(p)' = Piece(p)
               /\ \A p \in Announced(i, f)' : p \in Announced(i, f) \/
                    /\ Mine(i, f) /\ p = <<last, old + m>> /\ Piece(p)'.by = t
    <3>1. ASSUME NEW j \in 1 .. m, pieces[j].what = f, pieces[j].iface = i,
                 pieces[j].part = CommandSize
          PROVE  Mine(i, f) /\ j = m /\ pieces[j].by = t
      <4>1. call[t].what = f /\ call[t].iface = i /\ part[t] + j = CommandSize /\ pieces[j].by = t
        BY <2>2, <3>1 DEF Part
      <4>2. Size(call[t].what) = CommandSize
        BY <4>1 DEF Size, Changes
      <4>3. QED
        BY <2>1, <4>1, <4>2, SizesAssumption
    <3>2. QED
      <4>1. TypeOK /\ ConnectionInv
        BY DEF IndInv
      <4>2. /\ Announced(i, f) \subseteq Announced(i, f)'
            /\ \A p \in Announced(i, f) : Piece(p)' = Piece(p)
            /\ \A p \in Announced(i, f)' : p \in Announced(i, f) \/
                 \E j \in 1 .. Len(pieces) :
                   /\ p = <<last, old + j>> /\ Piece(p)' = pieces[j]
                   /\ pieces[j].what = f /\ pieces[j].iface = i /\ pieces[j].part = CommandSize
        BY <2>1, <2>3, <4>1, DeliversAnnounces
      <4>3. QED
        BY <2>2, <3>1, <4>2
  <2>5. CASE ~ (n = Size(call[t].what) /\ call[t].what \in Changes)
    <3>1. \A i, f : f \in Changes => SameAnnounced(i, f)
      <4>1. \A i, f : f \in Changes => ~ Mine(i, f)
        BY <2>5 DEF Size, Changes
      <4>2. QED
        <5>1. ASSUME NEW i, NEW f \in Changes
              PROVE  /\ \A p \in Announced(i, f)' : p \in Announced(i, f)
                     /\ Announced(i, f) \subseteq Announced(i, f)'
                     /\ \A p \in Announced(i, f) : Piece(p)' = Piece(p)
          BY <2>4, <4>1
        <5>2. QED
          BY <5>1 DEF SameAnnounced
    <3>2. at' = at \/ at'[t] = Home(t)
      BY <1>4, <2>1, <2>5 DEF IndInv, TypeOK
    <3>3. Quiet
      BY <1>1, <3>2 DEF Quiet, Home
    <3>4. QED
      BY <3>1, <3>3, QuietAgrees
  <2>6. CASE n = Size(call[t].what) /\ call[t].what \in Changes
    <3>1. at'[t] = "assign" /\ n = CommandSize
      BY <1>4, <2>1, <2>6 DEF IndInv, TypeOK, Size, Changes
    <3>2. PICK p, i, f : p = <<last, old + m>> /\ i = call[t].iface /\ f = call[t].what
      OBVIOUS
    <3>3. /\ p \in Announced(i, f)' /\ Piece(p)' = Part(t, n)
          /\ \A q \in Announced(i, f)' : ~ IsLater(q, p)
      <4>1. TypeOK /\ ConnectionInv
        BY DEF IndInv
      <4>2. /\ streams' \in Seq(Seq(Pieces)) /\ Len(streams') = last /\ last \in Nat \ {0}
            /\ streams'[last] = streams[last] \o pieces /\ Current = streams[last]
            /\ Current \in Seq(Pieces) /\ old \in Nat
        <5>1. /\ streams' \in Seq(Seq(Pieces)) /\ Len(streams') = last /\ last \in Nat \ {0}
              /\ \A k \in 1 .. last : streams'[k] = IF k = last THEN streams[k] \o pieces ELSE streams[k]
          BY <2>1, <2>3, <4>1, DeliversType DEF TypeOK
        <5>2. last \in 1 .. last
          BY <5>1
        <5>3. Current \in Seq(Pieces) /\ old \in Nat
          BY <2>1, <2>3, <4>1, CurrentGrows
        <5>4. QED
          BY <5>1, <5>2, <5>3 DEF Current
      <4>3. /\ DOMAIN streams' = 1 .. last /\ last \in DOMAIN streams'
            /\ DOMAIN (Current \o pieces) = 1 .. old + m /\ old + m \in 1 .. old + m
            /\ (Current \o pieces)[old + m] = pieces[m]
        <5>1. DOMAIN streams' = 1 .. last /\ last \in 1 .. last
          BY <4>2
        <5>2. m \in 1 .. m /\ old + m \in 1 .. old + m
          BY <2>1, <4>2
        <5>3. QED
          BY <2>1, <2>2, <4>2, <5>1, <5>2
      <4>4. pieces[m] = Part(t, n)
        BY <2>1, <2>2
      <4>5. Piece(p)' = Part(t, n)
        BY <3>2, <4>2, <4>3, <4>4 DEF Piece
      <4>6. p \in Announced(i, f)'
        <5>1. Part(t, n).what = f /\ Part(t, n).iface = i /\ Part(t, n).part = CommandSize
          BY <3>1, <3>2 DEF Part
        <5>2. old + m \in DOMAIN streams'[last] /\ streams'[last][old + m] = Part(t, n)
          <6>1. streams'[last] = Current \o pieces
            BY <4>2
          <6>2. old + m \in DOMAIN (Current \o pieces) /\ (Current \o pieces)[old + m] = Part(t, n)
            BY <4>3, <4>4, Zenon
          <6>3. QED
            BY <6>1, <6>2, Zenon
        <5>3. QED
          BY <3>2, <4>3, <5>1, <5>2, AnnouncedIsNext, SMTT(60)
      <4>7. ASSUME NEW q \in Announced(i, f)' PROVE ~ IsLater(q, p)
        <5>1. PICK k \in DOMAIN streams' : \E j \in DOMAIN streams'[k] : q = <<k, j>>
          BY AnnouncedIsNext
        <5>2. PICK j \in DOMAIN streams'[k] : q = <<k, j>>
          BY <5>1
        <5>3. k \in 1 .. last /\ (k = last => j \in 1 .. old + m)
          BY <4>2, <4>3
        <5>4. ~ (k > last) /\ ~ (k = last /\ j > old + m)
          BY <2>1, <4>2, <5>3, SMTT(60)
        <5>5. QED
          BY <3>2, <5>2, <5>4 DEF IsLater
      <4>8. QED
        BY <4>5, <4>6, <4>7
    <3>4. ASSUME NEW u \in Threads, at'[u] = "assign"
          PROVE  call'[u].what \in Changes /\ HasAnnounced(u, call[u].iface, call[u].what)'
      <4>1. CASE u = t
        <5>1. Piece(p)'.by = t /\ Piece(p)'.address = call'[t].address
          BY <1>1, <3>3 DEF Part
        <5>2. QED
          <6>1. \E a \in Announced(i, f)' :
                  /\ Piece(a)'.by = t /\ Piece(a)'.address = call'[t].address
                  /\ \A q \in Announced(i, f)' : IsLater(q, a) => Piece(q)'.by # t
            BY <3>3, <5>1
          <6>2. HasAnnounced(t, i, f)'
            BY <6>1 DEF HasAnnounced
          <6>3. QED
            BY <1>1, <2>6, <3>2, <4>1, <6>2
      <4>2. CASE u # t
        <5> DEFINE j == call[u].iface
                   g == call[u].what
        <5>1. at[u] = "assign" /\ UNCHANGED j /\ UNCHANGED g /\ g \in Changes
          BY <1>1, <3>4, <4>2 DEF AnnouncedInv
        <5>2. PICK a \in Announced(j, g) :
                /\ Piece(a).by = u /\ Piece(a).address = call[u].address
                /\ \A q \in Announced(j, g) : IsLater(q, a) => Piece(q).by # u
          BY <5>1 DEF AnnouncedInv, HasAnnounced
        <5>3. /\ a \in Announced(j, g)' /\ Piece(a)'.by = u /\ Piece(a)'.address = call'[u].address
              /\ \A q \in Announced(j, g)' : IsLater(q, a) => Piece(q)'.by # u
          BY <1>1, <2>4, <4>2, <5>1, <5>2
        <5>4. QED
          BY <5>1, <5>3 DEF HasAnnounced
      <4>3. QED
        BY <4>1, <4>2
    <3>5. ASSUME NEW j \in 1 .. Interfaces, NEW g \in Changes PROVE AgreesOn(j, g)'
      <4>1. CASE j = i /\ g = f
        BY <1>1, <3>1, <3>2, <4>1 DEF AgreesOn
      <4>2. CASE ~ (j = i /\ g = f)
        <5>1. SameAnnounced(j, g) /\ AgreesOn(j, g)
          <6>1. /\ \A a \in Announced(j, g)' : a \in Announced(j, g)
                /\ Announced(j, g) \subseteq Announced(j, g)'
                /\ \A a \in Announced(j, g) : Piece(a)' = Piece(a)
            BY <2>4, <3>2, <4>2
          <6>2. QED
            BY <6>1, AgreesOnIs DEF SameAnnounced
        <5>2. \A u \in Threads : at[u] \in {"assign", "interrupted"} => at'[u] = at[u] /\ call'[u] = call[u]
          BY <1>1
        <5>3. QED
          BY <1>1, <5>1, <5>2 DEF AgreesOn, SameAnnounced
      <4>3. QED
        BY <4>1, <4>2
    <3>6. QED
      BY <3>4, <3>5, AgreesOnIs DEF AnnouncedInv
  <2>7. QED
    BY <2>5, <2>6
<1>5. QED
  BY <1>2, <1>3, <1>4, WriteCases DEF IndInv

\* Every step keeps what the program sees in agreement with what it announced.
LEMMA AddressStep ==
  ASSUME IndInv, AddressesAgree, AnnouncedInv, [Next]_vars
  PROVE  AddressesAgree' /\ AnnouncedInv'
<1>1. CASE Quiet /\ ~ \E t \in Threads : Write(t)
  <2>1. \A i, f : f \in Changes => SameAnnounced(i, f)
    <3>1. CASE UNCHANGED streams
      BY <3>1, UnchangedAnnounces
    <3>2. CASE Connect
      <4>1. UNCHANGED streams \/ streams' = Append(streams, <<>>)
        BY <3>2 DEF Connect
      <4>2. QED
        BY <4>1, UnchangedAnnounces, AppendAnnounces DEF IndInv
    <3>3. CASE Ask
      BY <3>3, AskAnnounces
    <3>4. QED
      BY <1>1, <3>1, <3>2, <3>3, StreamsChange
  <2>2. QED
    BY <1>1, <2>1, QuietAgrees
<1>2. QED
  BY <1>1, BusyStays, WriteAgrees, AssignAgrees

\* Nothing is announced at the start, and the addresses are the server's.
LEMMA AddressInit == Init => AddressesAgree /\ AnnouncedInv
<1> SUFFICES ASSUME Init PROVE AddressesAgree /\ AnnouncedInv
  OBVIOUS
<1>1. streams = <<>> /\ \A t \in Threads : at[t] # "assign"
  BY DEF Init
<1>2. \A i \in 1 .. Interfaces, f \in Changes : addresses[i][f] = Original
  BY DEF Init
<1>3. \A i, f : Announced(i, f) = {}
  <2>1. DOMAIN streams = {}
    BY <1>1
  <2>2. QED
    BY <2>1 DEF Announced
<1>4. QED
  BY <1>1, <1>2, <1>3, AgreesOnIs DEF AgreesOn, AnnouncedInv

\* The program sees the address it has told the server last.
THEOREM AddressesAgreeAlways == Spec => []AddressesAgree
<1>1. IndInv /\ AddressesAgree /\ AnnouncedInv /\ [Next]_vars => (AddressesAgree /\ AnnouncedInv)'
  BY AddressStep
<1>2. QED
  BY <1>1, AddressInit, IndInvAlways, PTL DEF Spec

=============================================================================
