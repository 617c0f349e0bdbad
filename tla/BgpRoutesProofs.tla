--------------------------- MODULE BgpRoutesProofs ---------------------------
(***************************************************************************)
(* Proofs about BgpRoutes, for every topology, every choice of roles and   *)
(* prefixes and every bound.                                               *)
(***************************************************************************)
EXTENDS BgpRoutes, FiniteSetTheorems, TLAPS

-----------------------------------------------------------------------------
(***************************************************************************)
(* Types.                                                                  *)
(***************************************************************************)

\* The interfaces of a machine are numbered from 1 and lead to machines.
LEMMA PortsAre ==
  ASSUME NEW r \in Machines
  PROVE  /\ Len(Interfaces[r]) \in Nat /\ 1 \in Ports(r)
         /\ \A i \in Ports(r) : i \in Nat /\ Interfaces[r][i] \in Machines
<1>1. Interfaces[r] \in Seq(Machines) /\ Interfaces[r] # <<>>
  BY TopologyAssumption
<1>2. QED
  BY <1>1 DEF Ports

\* Sending a message keeps the channels well typed.
LEMMA SentType ==
  ASSUME TypeOK, NEW r \in Machines, NEW i \in Ports(r), NEW m \in Messages
  PROVE  Sent(r, i, m) \in [Machines -> [Machines -> Seq(Messages)]]
<1>1. Interfaces[r][i] \in Machines
  BY PortsAre
<1>2. Append(net[Interfaces[r][i]][r], m) \in Seq(Messages)
  BY <1>1 DEF TypeOK
<1>3. QED
  BY <1>1, <1>2 DEF Sent, TypeOK

\* Taking a message from a channel gives a message and leaves channels.
LEMMA ReceivedType ==
  ASSUME TypeOK, NEW r \in Machines, NEW n \in Machines, net[r][n] # <<>>
  PROVE  /\ Head(net[r][n]) \in Messages
         /\ [net EXCEPT ![r][n] = Tail(@)] \in [Machines -> [Machines -> Seq(Messages)]]
<1>1. net[r][n] \in Seq(Messages)
  BY DEF TypeOK
<1>2. Head(net[r][n]) \in Messages /\ Tail(net[r][n]) \in Seq(Messages)
  BY <1>1
<1>3. QED
  BY <1>2 DEF TypeOK

\* What send_update packs is a message.
LEMMA MessageTypes ==
  /\ \A entries \in SUBSET Entries : Announcement(entries) \in Messages
  /\ \A p \in Subnets : Withdrawal(p) \in Messages
  BY DEF Announcement, Withdrawal, Messages

\* The routes chosen for an interface are entries with paths that exist.
LEMMA ExportType ==
  ASSUME TypeOK, NEW r \in Machines, NEW i \in Ports(r)
  PROVE  Export(r, i) \in SUBSET Entries
<1>1. \A p \in Subnets : [prefix |-> p, path |-> <<r>>] \in Entries
  BY DEF Entries
<1>2. \A p \in Subnets : \A x \in learned[r][p] : [prefix |-> p, path |-> x.path] \in Entries
  BY DEF Entries, Routes, TypeOK
<1>3. owned[r] \subseteq Subnets /\ known[r] \subseteq Subnets
  BY DEF TypeOK
<1>4. QED
  BY <1>1, <1>2, <1>3 DEF Export

\* A command goes on at an interface the machine has.
LEMMA NextInterfaceType ==
  ASSUME TypeOK, NEW r \in Machines, NEW ready \in SUBSET Messages
  PROVE  /\ NextInterface(r, ready) \in [op : Commands \cup {"none"}, next : Nat,
                                          ready : SUBSET Messages]
         /\ NextInterface(r, ready).next \in Ports(r)
<1>1. cmd[r].next \in Ports(r) /\ Len(Interfaces[r]) \in Nat /\ 1 \in Ports(r)
  BY PortsAre DEF TypeOK
<1>2. cmd[r] \in [op : Commands \cup {"none"}, next : Nat, ready : SUBSET Messages]
  BY DEF TypeOK
<1>3. CASE cmd[r].next < Len(Interfaces[r])
  <2>1. NextInterface(r, ready) = [cmd[r] EXCEPT !.next = @ + 1, !.ready = ready]
    BY <1>3 DEF NextInterface
  <2>2. cmd[r].next + 1 \in Ports(r) /\ cmd[r].next + 1 \in Nat
    BY <1>1, <1>3 DEF Ports
  <2>3. QED
    BY <1>2, <2>1, <2>2
<1>4. CASE ~(cmd[r].next < Len(Interfaces[r]))
  BY <1>1, <1>2, <1>4 DEF NextInterface, NoCommand
<1>5. QED
  BY <1>3, <1>4

\* The initial tables, channels and threads have their types.
LEMMA TypeInit == Init => TypeOK
<1> SUFFICES ASSUME Init PROVE TypeOK
  OBVIOUS
<1>1. \A r \in Machines : Ports(r) \subseteq Nat /\ 1 \in Ports(r)
  BY PortsAre
<1>2. owned \in [Machines -> SUBSET Subnets]
  BY InputAssumption DEF Init
<1>3. QED
  BY <1>1, <1>2 DEF Init, TypeOK, NoDropping, NoCommand

\* A command is typed: its counter stays a number, its thread was at rest.
LEMMA TypeType ==
  ASSUME TypeOK, NEW r \in Machines, NEW op \in Commands, Type(r, op)
  PROVE  typed' \in [Machines -> [Events -> Nat]]
<1>1. op \in Events
  BY DEF Events
<1>2. QED
  BY <1>1 DEF Type, TypeOK

\* No step of a router leaves the types.
LEMMA TypeStep == TypeOK /\ [Next]_vars => TypeOK'
<1> SUFFICES ASSUME TypeOK, [Next]_vars PROVE TypeOK'
  OBVIOUS
<1>1. ASSUME NEW r \in Machines, AdvertiseAll(r) PROVE TypeOK'
  <2>1. typed' \in [Machines -> [Events -> Nat]]
    BY <1>1, TypeType DEF AdvertiseAll, Commands
  <2>2. 1 \in Ports(r)
    BY PortsAre
  <2>3. cmd' \in [Machines -> [op : Commands \cup {"none"}, next : Nat, ready : SUBSET Messages]]
    BY <1>1 DEF AdvertiseAll, TypeOK, Commands
  <2>4. \A d \in Machines : cmd'[d].next \in Ports(d)
    BY <1>1, <2>2 DEF AdvertiseAll, TypeOK
  <2>5. QED
    BY <1>1, <2>1, <2>3, <2>4 DEF AdvertiseAll, tables, main, TypeOK
<1>2. ASSUME NEW r \in Machines, BuildUpdate(r) PROVE TypeOK'
  <2> DEFINE i == cmd[r].next
             c == IF i \in up[r] THEN [cmd[r] EXCEPT !.ready = {Announcement(Export(r, i))}]
                                 ELSE NextInterface(r, {})
  <2>1. Announcement(Export(r, i)) \in Messages
    BY ExportType, MessageTypes DEF TypeOK
  <2>2. c \in [op : Commands \cup {"none"}, next : Nat, ready : SUBSET Messages]
        /\ c.next \in Ports(r)
    <3>1. cmd[r] \in [op : Commands \cup {"none"}, next : Nat, ready : SUBSET Messages]
          /\ cmd[r].next \in Ports(r)
      BY DEF TypeOK
    <3>2. CASE i \in up[r]
      BY <2>1, <3>1, <3>2
    <3>3. CASE i \notin up[r]
      BY <3>3, NextInterfaceType
    <3>4. QED
      BY <3>2, <3>3
  <2>3. cmd' = [cmd EXCEPT ![r] = c]
    BY <1>2 DEF BuildUpdate
  <2>4. cmd' \in [Machines -> [op : Commands \cup {"none"}, next : Nat, ready : SUBSET Messages]]
    BY <2>2, <2>3 DEF TypeOK
  <2>5. \A d \in Machines : cmd'[d].next \in Ports(d)
    BY <2>2, <2>3 DEF TypeOK
  <2>6. QED
    BY <1>2, <2>4, <2>5 DEF BuildUpdate, tables, main, TypeOK
<1>3. ASSUME NEW r \in Machines, NEW p \in Subnets, HijackPrefix(r, p) PROVE TypeOK'
  <2>1. typed' \in [Machines -> [Events -> Nat]]
    BY <1>3, TypeType DEF HijackPrefix, Commands
  <2>2. 1 \in Ports(r)
    BY PortsAre
  <2>3. Announcement({[prefix |-> p, path |-> <<r>>]}) \in Messages
    <3>1. [prefix |-> p, path |-> <<r>>] \in Entries
      BY DEF Entries
    <3>2. {[prefix |-> p, path |-> <<r>>]} \in SUBSET Entries
      BY <3>1
    <3>3. QED
      BY <3>2, MessageTypes
  <2>4. cmd' \in [Machines -> [op : Commands \cup {"none"}, next : Nat, ready : SUBSET Messages]]
    BY <1>3, <2>3 DEF HijackPrefix, TypeOK, Commands
  <2>5. \A d \in Machines : cmd'[d].next \in Ports(d)
    BY <1>3, <2>2 DEF HijackPrefix, TypeOK
  <2>6. QED
    BY <1>3, <2>1, <2>4, <2>5 DEF HijackPrefix, tables, main, TypeOK
<1>4. ASSUME NEW r \in Machines, NEW p \in Subnets, Withdraw(r, p) PROVE TypeOK'
  <2>1. typed' \in [Machines -> [Events -> Nat]]
    BY <1>4, TypeType DEF Withdraw, Commands
  <2>2. 1 \in Ports(r)
    BY PortsAre
  <2>3. Withdrawal(p) \in Messages
    BY MessageTypes
  <2>4. cmd' \in [Machines -> [op : Commands \cup {"none"}, next : Nat, ready : SUBSET Messages]]
    BY <1>4, <2>3 DEF Withdraw, TypeOK, Commands
  <2>5. \A d \in Machines : cmd'[d].next \in Ports(d)
    BY <1>4, <2>2 DEF Withdraw, TypeOK
  <2>6. /\ owned' \in [Machines -> SUBSET Subnets] /\ known' \in [Machines -> SUBSET Subnets]
        /\ held' \in [Machines -> SUBSET Subnets]
    BY <1>4 DEF Withdraw, TypeOK
  <2>7. learned' \in [Machines -> [Subnets -> SUBSET Routes]]
    BY <1>4 DEF Withdraw, TypeOK
  <2>8. QED
    BY <1>4, <2>1, <2>4, <2>5, <2>6, <2>7 DEF Withdraw, main, TypeOK
<1>5. ASSUME NEW r \in Machines, SendUpdate(r) PROVE TypeOK'
  <2>1. PICK m \in cmd[r].ready :
          /\ net' = Sent(r, cmd[r].next, m)
          /\ cmd' = [cmd EXCEPT ![r] =
                NextInterface(r, IF @.op = "advertise" THEN {} ELSE @.ready)]
    BY <1>5 DEF SendUpdate
  <2>2. cmd[r].ready \in SUBSET Messages /\ cmd[r].next \in Ports(r)
    BY DEF TypeOK
  <2>3. net' \in [Machines -> [Machines -> Seq(Messages)]]
    BY <2>1, <2>2, SentType
  <2> DEFINE c == NextInterface(r, IF cmd[r].op = "advertise" THEN {} ELSE cmd[r].ready)
  <2>4. c \in [op : Commands \cup {"none"}, next : Nat, ready : SUBSET Messages]
        /\ c.next \in Ports(r)
    BY <2>2, NextInterfaceType
  <2>5. cmd' = [cmd EXCEPT ![r] = c]
    BY <2>1
  <2>6. cmd' \in [Machines -> [op : Commands \cup {"none"}, next : Nat, ready : SUBSET Messages]]
    BY <2>4, <2>5 DEF TypeOK
  <2>7. \A d \in Machines : cmd'[d].next \in Ports(d)
    BY <2>4, <2>5 DEF TypeOK
  <2>8. QED
    BY <1>5, <2>3, <2>6, <2>7 DEF SendUpdate, tables, main, TypeOK
<1>6. ASSUME NEW r \in Machines, NEW i \in Ports(r), NEW priority \in Priorities,
             UpdateInterfacePriority(r, i, priority)
      PROVE TypeOK'
  <2>1. typed' \in [Machines -> [Events -> Nat]]
    BY <1>6, TypeType DEF UpdateInterfacePriority, Commands
  <2>2. priority \in Int
    BY InputAssumption
  <2>3. \A x \in Routes : (IF x.iface = i THEN [x EXCEPT !.priority = priority] ELSE x) \in Routes
    BY <2>2 DEF Routes
  <2>4. [p \in Subnets |-> {IF x.iface = i THEN [x EXCEPT !.priority = priority] ELSE x :
                              x \in learned[r][p]}] \in [Subnets -> SUBSET Routes]
    BY <2>3 DEF TypeOK
  <2>5. learned' \in [Machines -> [Subnets -> SUBSET Routes]]
    BY <1>6, <2>4 DEF UpdateInterfacePriority, TypeOK
  <2>6. QED
    BY <1>6, <2>1, <2>5 DEF UpdateInterfacePriority, main, TypeOK
<1>7. ASSUME NEW r \in Machines, NEW i \in Ports(r), ReceiveAnnouncement(r, i) PROVE TypeOK'
  <2> DEFINE n == Interfaces[r][i]
             entries == Head(net[r][n]).announce
  <2>1. n \in Machines /\ net[r][n] # <<>>
    BY Zenon, <1>7, PortsAre DEF ReceiveAnnouncement
  <2>2. Head(net[r][n]) \in Messages
    BY <2>1, ReceivedType
  <2>3. net' \in [Machines -> [Machines -> Seq(Messages)]]
    BY Zenon, <1>7, <2>1, ReceivedType DEF ReceiveAnnouncement
  <2>4. entries \in SUBSET Entries
    BY Zenon, <2>2 DEF Messages
  <2>5. \/ /\ arrived' = [arrived EXCEPT ![r] = i]
           /\ storing' = [storing EXCEPT ![r] = entries]
           /\ UNCHANGED <<alive, alarms>>
        \/ /\ \E e \in entries : alarms' = [alarms EXCEPT ![r] = @ \cup {e.prefix}]
           /\ UNCHANGED <<arrived, storing, alive>>
        \/ /\ alive' = alive \ {r}
           /\ UNCHANGED <<arrived, storing, alarms>>
    BY Zenon, <1>7 DEF ReceiveAnnouncement
  <2>6. /\ arrived' \in [Machines -> Nat] /\ storing' \in [Machines -> SUBSET Entries]
        /\ \A d \in Machines : arrived'[d] \in Ports(d)
        /\ alive' \in SUBSET Machines /\ alarms' \in [Machines -> SUBSET Subnets]
    <3>1. i \in Nat /\ \A e \in entries : e.prefix \in Subnets
      BY <2>4, PortsAre DEF Entries
    <3>2. CASE /\ arrived' = [arrived EXCEPT ![r] = i]
               /\ storing' = [storing EXCEPT ![r] = entries]
               /\ UNCHANGED <<alive, alarms>>
      BY <2>4, <3>1, <3>2 DEF TypeOK
    <3>3. CASE /\ \E e \in entries : alarms' = [alarms EXCEPT ![r] = @ \cup {e.prefix}]
               /\ UNCHANGED <<arrived, storing, alive>>
      BY SMTT(60), <3>1, <3>3 DEF TypeOK
    <3>4. CASE alive' = alive \ {r} /\ UNCHANGED <<arrived, storing, alarms>>
      BY <3>4 DEF TypeOK
    <3>5. QED
      BY <2>5, <3>2, <3>3, <3>4
  <2>7. UNCHANGED <<owned, tables, up, dropping, cmd, typed>>
    BY Zenon, <1>7 DEF ReceiveAnnouncement
  <2>8. QED
    BY Zenon, <2>3, <2>6, <2>7 DEF tables, TypeOK
<1>8. ASSUME NEW r \in Machines, Store(r) PROVE TypeOK'
  <2>1. PICK e \in storing[r] :
          /\ storing' = [storing EXCEPT ![r] = @ \ {e}]
          /\ IF r \in ToSet(e.path)
             THEN UNCHANGED tables
             ELSE LET path == <<r>> \o e.path IN
               /\ known' = [known EXCEPT ![r] = @ \cup {e.prefix}]
               /\ held' = [held EXCEPT ![r] = @ \cup {e.prefix}]
               /\ learned' = [learned EXCEPT ![r][e.prefix] =
                     IF \E x \in @ : x.path = path THEN @
                     ELSE @ \cup {[path |-> path, iface |-> arrived[r],
                                   priority |-> LearnedPriority(ModeOf(r, arrived[r]))]}]
    BY <1>8 DEF Store
  <2> DEFINE path == <<r>> \o e.path
             x == [path |-> path, iface |-> arrived[r],
                   priority |-> LearnedPriority(ModeOf(r, arrived[r]))]
  <2>2. e.prefix \in Subnets /\ e.path \in Seq(Machines)
    BY DEF TypeOK, Entries
  <2>3. x \in Routes
    <3>0. arrived[r] \in Ports(r)
      BY DEF TypeOK
    <3>1. Mode[r][Interfaces[r][arrived[r]]] \in Modes
      <4>1. Interfaces[r][arrived[r]] \in Machines
        BY <3>0, PortsAre
      <4>2. QED
        BY <4>1, TopologyAssumption
    <3>2. LearnedPriority(ModeOf(r, arrived[r])) \in Nat
      BY <3>1 DEF LearnedPriority, ModeOf, Modes
    <3>3. path \in Seq(Machines)
      BY <2>2
    <3>4. arrived[r] \in Nat
      BY DEF TypeOK
    <3>5. QED
      BY <3>2, <3>3, <3>4 DEF Routes
  <2>4. storing' \in [Machines -> SUBSET Entries]
    BY <2>1 DEF TypeOK
  <2>5. /\ known' \in [Machines -> SUBSET Subnets] /\ held' \in [Machines -> SUBSET Subnets]
        /\ learned' \in [Machines -> [Subnets -> SUBSET Routes]]
    <3>1. CASE r \in ToSet(e.path)
      BY <2>1, <3>1 DEF tables, TypeOK
    <3>2. CASE r \notin ToSet(e.path)
      <4>1. /\ known' = [known EXCEPT ![r] = @ \cup {e.prefix}]
            /\ held' = [held EXCEPT ![r] = @ \cup {e.prefix}]
            /\ learned' = [learned EXCEPT ![r][e.prefix] =
                  IF \E y \in @ : y.path = path THEN @ ELSE @ \cup {x}]
        BY <2>1, <3>2
      <4> DEFINE new == IF \E y \in learned[r][e.prefix] : y.path = path
                        THEN learned[r][e.prefix] ELSE learned[r][e.prefix] \cup {x}
      <4>2. new \in SUBSET Routes
        <5>1. learned[r][e.prefix] \in SUBSET Routes
          BY <2>2 DEF TypeOK
        <5> HIDE DEF x
        <5>2. QED
          BY <2>3, <5>1
      <4>3. learned' = [learned EXCEPT ![r][e.prefix] = new]
        BY <4>1
      <4>4. learned' \in [Machines -> [Subnets -> SUBSET Routes]]
        BY <2>2, <4>2, <4>3 DEF TypeOK
      <4>5. known' \in [Machines -> SUBSET Subnets] /\ held' \in [Machines -> SUBSET Subnets]
        <5>1. /\ known' = [known EXCEPT ![r] = @ \cup {e.prefix}]
              /\ held' = [held EXCEPT ![r] = @ \cup {e.prefix}]
          BY <4>1
        <5>2. QED
          BY <2>2, <5>1 DEF TypeOK
      <4>6. QED
        BY <4>4, <4>5
    <3>3. QED
      BY <3>1, <3>2
  <2>6. UNCHANGED <<owned, up, net, arrived, dropping, cmd, alive, alarms, typed>>
    BY <1>8 DEF Store
  <2>7. QED
    BY <2>4, <2>5, <2>6 DEF TypeOK
<1>9. ASSUME NEW r \in Machines, NEW i \in Ports(r), ReceiveWithdrawal(r, i) PROVE TypeOK'
  <2> DEFINE n == Interfaces[r][i]
  <2>1. n \in Machines /\ net[r][n] # <<>> /\ i \in Nat
    BY <1>9, PortsAre DEF ReceiveWithdrawal
  <2>2. Head(net[r][n]) \in Messages
    BY <2>1, ReceivedType
  <2>3. net' \in [Machines -> [Machines -> Seq(Messages)]]
    BY <1>9, <2>1, ReceivedType DEF ReceiveWithdrawal
  <2>4. PICK p \in Head(net[r][n]).withdraw :
          dropping' = [dropping EXCEPT ![r] =
             [prefixes |-> {p}, next |-> 0,
              kept |-> {x \in learned[r][p] : x.iface # i}]]
    BY <1>9 DEF ReceiveWithdrawal
  <2>5. p \in Subnets
    BY <2>2 DEF Messages
  <2>6. dropping' \in [Machines ->
          [prefixes : SUBSET Subnets, kept : SUBSET Routes, next : Nat]]
    <3> DEFINE kept == {x \in learned[r][p] : x.iface # i}
               c == [prefixes |-> {p}, next |-> 0, kept |-> kept]
    <3>1. kept \in SUBSET Routes
      BY <2>5 DEF TypeOK
    <3>2. c \in [prefixes : SUBSET Subnets, kept : SUBSET Routes, next : Nat]
      BY <2>5, <3>1
    <3>3. dropping' = [dropping EXCEPT ![r] = c]
      BY <2>4
    <3> HIDE DEF kept, c
    <3>4. QED
      BY <3>2, <3>3 DEF TypeOK
  <2>7. arrived' \in [Machines -> Nat] /\ \A d \in Machines : arrived'[d] \in Ports(d)
    BY <1>9, <2>1 DEF ReceiveWithdrawal, TypeOK
  <2>8. QED
    BY <1>9, <2>3, <2>6, <2>7 DEF ReceiveWithdrawal, tables, TypeOK
<1>10. ASSUME NEW r \in Machines, WriteBack(r) PROVE TypeOK'
  <2>1. PICK p \in dropping[r].prefixes :
          /\ known' = [known EXCEPT ![r] = @ \cup {p}]
          /\ learned' = [learned EXCEPT ![r][p] = dropping[r].kept]
          /\ held' = [held EXCEPT ![r] = IF dropping[r].kept = {} THEN @ ELSE @ \cup {p}]
    BY <1>10 DEF WriteBack
  <2>2. p \in Subnets /\ dropping[r].kept \in SUBSET Routes
    BY DEF TypeOK
  <2>3. /\ known' \in [Machines -> SUBSET Subnets] /\ held' \in [Machines -> SUBSET Subnets]
        /\ learned' \in [Machines -> [Subnets -> SUBSET Routes]]
    BY <2>1, <2>2 DEF TypeOK
  <2>4. dropping' \in [Machines ->
          [prefixes : SUBSET Subnets, kept : SUBSET Routes, next : Nat]]
    <3> DEFINE c == [dropping[r] EXCEPT !.next = 1, !.kept = {}]
    <3>1. c \in [prefixes : SUBSET Subnets, kept : SUBSET Routes, next : Nat]
      <4>1. dropping[r] \in [prefixes : SUBSET Subnets, kept : SUBSET Routes, next : Nat]
        BY DEF TypeOK
      <4>2. {} \in SUBSET Routes /\ 1 \in Nat
        OBVIOUS
      <4>3. QED
        BY <4>1, <4>2
    <3>2. dropping' = [dropping EXCEPT ![r] = c]
      BY <1>10 DEF WriteBack
    <3>3. QED
      BY <3>1, <3>2 DEF TypeOK
  <2>5. QED
    BY <1>10, <2>3, <2>4 DEF WriteBack, TypeOK
<1>11. ASSUME NEW r \in Machines, PassOn(r) PROVE TypeOK'
  <2> DEFINE i == dropping[r].next
  <2>1. PICK p \in dropping[r].prefixes :
          net' = IF i = arrived[r] THEN net ELSE Sent(r, i, Withdrawal(p))
    BY <1>11 DEF PassOn
  <2>2. p \in Subnets /\ i \in Ports(r)
    BY <1>11 DEF PassOn, TypeOK
  <2>3. net' \in [Machines -> [Machines -> Seq(Messages)]]
    BY <2>1, <2>2, SentType, MessageTypes DEF TypeOK
  <2>4. dropping' = [dropping EXCEPT ![r] =
           IF i < Len(Interfaces[r]) THEN [@ EXCEPT !.next = i + 1] ELSE NoDropping]
    BY <1>11 DEF PassOn
  <2>5. dropping' \in [Machines ->
          [prefixes : SUBSET Subnets, kept : SUBSET Routes, next : Nat]]
    <3> DEFINE c == IF i < Len(Interfaces[r]) THEN [dropping[r] EXCEPT !.next = i + 1]
                    ELSE NoDropping
    <3>1. i \in Nat /\ dropping[r] \in [prefixes : SUBSET Subnets, kept : SUBSET Routes,
                                        next : Nat]
      BY DEF TypeOK
    <3>2. c \in [prefixes : SUBSET Subnets, kept : SUBSET Routes, next : Nat]
      <4>1. [dropping[r] EXCEPT !.next = i + 1]
              \in [prefixes : SUBSET Subnets, kept : SUBSET Routes, next : Nat]
        BY <3>1
      <4>2. NoDropping \in [prefixes : SUBSET Subnets, kept : SUBSET Routes, next : Nat]
        BY DEF NoDropping
      <4>3. QED
        BY <4>1, <4>2
    <3>3. dropping' = [dropping EXCEPT ![r] = c]
      BY <2>4
    <3>4. QED
      BY <3>2, <3>3 DEF TypeOK
  <2>6. QED
    BY <1>11, <2>3, <2>5 DEF PassOn, tables, TypeOK
<1>12. ASSUME NEW r \in Machines, TablesRace(r) PROVE TypeOK'
  BY <1>12 DEF TablesRace, tables, main, TypeOK
<1>13. ASSUME NEW r \in Machines, NEW i \in Ports(r), Flap(r, i) PROVE TypeOK'
  <2>1. up' \in [Machines -> SUBSET Nat] /\ \A d \in Machines : up'[d] \subseteq Ports(d)
    BY <1>13, PortsAre DEF Flap, TypeOK
  <2>2. typed' \in [Machines -> [Events -> Nat]]
    <3>1. "flap" \in Events
      BY DEF Events
    <3>2. QED
      BY <1>13, <3>1 DEF Flap, TypeOK
  <2>3. QED
    BY <1>13, <2>1, <2>2 DEF Flap, tables, main, TypeOK
<1>14. CASE UNCHANGED vars
  BY <1>14 DEF vars, tables, main, TypeOK
<1>15. QED
  BY <1>1, <1>2, <1>3, <1>4, <1>5, <1>6, <1>7, <1>8, <1>9, <1>10, <1>11, <1>12, <1>13, <1>14,
     InputAssumption
     DEF Next, MainThread, Working, User

\* Whatever commands, frames and session changes meet, the variables keep their
\* types and every index into the arrays of interfaces stays in range.
THEOREM TypeCorrect == Spec => []TypeOK
<1>1. Init => TypeOK
  BY TypeInit
<1>2. TypeOK /\ [Next]_vars => TypeOK'
  BY TypeStep
<1>3. QED
  BY <1>1, <1>2, PTL DEF Spec

-----------------------------------------------------------------------------
(***************************************************************************)
(* The paths.  What the tables hold is what the frames carry with the      *)
(* machine's own number in front, and what a frame carries is what the     *)
(* tables of its sender held; so the invariant speaks of both, and of the  *)
(* UPDATEs and routes the threads have in hand.                            *)
(***************************************************************************)

Hijackers == {o \in Machines : typed[o]["hijack"] > 0}

NoTransit(path) ==
  \A k \in 2 .. Len(path) - 1 :
    \/ Mode[path[k]][path[k - 1]] = "CUSTOMER"
    \/ Mode[path[k]][path[k - 1]] # Mode[path[k]][path[k + 1]]

\* A path to prefix p that may travel, where the machines of h are hijackers.
Sound(p, path, h) ==
  /\ path # <<>>
  /\ \A k \in 1 .. Len(path) - 1 : path[k + 1] \in ToSet(Interfaces[path[k]])
  /\ IsInjective(path)
  /\ NoTransit(path)
  /\ p \in InitialOwned[path[Len(path)]] \/ path[Len(path)] \in h

\* n may tell r about a path of its own.
Granted(n, r, path) ==
  Len(path) > 1 =>
    \/ Mode[n][r] = "CUSTOMER"
    \/ Mode[n][path[2]] # Mode[n][r]
    \/ path[2] = r

\* An entry of an UPDATE from n to r.
EntryOk(n, r, e, h) ==
  Sound(e.prefix, e.path, h) /\ e.path[1] = n /\ Granted(n, r, e.path)

\* A route to p in a table of r.
RouteOk(r, p, x, h) ==
  /\ Sound(p, x.path, h)
  /\ Len(x.path) > 1
  /\ x.iface \in Ports(r)
  /\ x.path[1] = r /\ x.path[2] = Interfaces[r][x.iface]

TableOk(r, p, S, h) ==
  /\ \A x \in S : RouteOk(r, p, x, h)
  /\ \A x, y \in S : x.path = y.path => x = y

MessageOk(n, r, m, h) == \A e \in m.announce : EntryOk(n, r, e, h)

LearnedOk == \A r \in Machines, p \in Subnets : TableOk(r, p, learned[r][p], Hijackers)
DroppingOk == \A r \in Machines : \A p \in dropping[r].prefixes :
                TableOk(r, p, dropping[r].kept, Hijackers)
StoringOk == \A r \in Machines : \A e \in storing[r] :
                EntryOk(Interfaces[r][arrived[r]], r, e, Hijackers)
NetOk == \A r, n \in Machines : \A k \in 1 .. Len(net[r][n]) :
                MessageOk(n, r, net[r][n][k], Hijackers)
CmdOk == \A r \in Machines : \A m \in cmd[r].ready :
           /\ MessageOk(r, Interfaces[r][cmd[r].next], m, Hijackers)
           /\ cmd[r].op # "advertise" => \A e \in m.announce : e.path = <<r>>

OwnedOk == \A r \in Machines : owned[r] \subseteq InitialOwned[r]

RoutesInv == TypeOK /\ OwnedOk /\ LearnedOk /\ DroppingOk /\ StoringOk /\ NetOk /\ CmdOk

\* More hijackers spoil nothing.
LEMMA Grows ==
  ASSUME NEW h, NEW g, h \subseteq g
  PROVE  /\ \A n, r, e : EntryOk(n, r, e, h) => EntryOk(n, r, e, g)
         /\ \A n, r, m : MessageOk(n, r, m, h) => MessageOk(n, r, m, g)
         /\ \A r, p, S : TableOk(r, p, S, h) => TableOk(r, p, S, g)
<1>1. \A p, path : Sound(p, path, h) => Sound(p, path, g)
  BY DEF Sound
<1>2. \A n, r, e : EntryOk(n, r, e, h) => EntryOk(n, r, e, g)
  BY <1>1 DEF EntryOk
<1>3. \A n, r, m : MessageOk(n, r, m, h) => MessageOk(n, r, m, g)
  BY <1>2 DEF MessageOk
<1>4. \A r, p, x : RouteOk(r, p, x, h) => RouteOk(r, p, x, g)
  BY <1>1 DEF RouteOk
<1>5. \A r, p, S : TableOk(r, p, S, h) => TableOk(r, p, S, g)
  BY <1>4 DEF TableOk
<1>6. QED
  BY <1>2, <1>3, <1>5

\* Only a command moves the counters, and only withdraw the owned prefixes.
LEMMA TypedStep ==
  ASSUME TypeOK, [Next]_vars
  PROVE  /\ \A o \in Machines, op \in Events : typed'[o][op] >= typed[o][op]
         /\ \A o \in Machines : owned'[o] \subseteq owned[o]
<1> DEFINE Goal == /\ \A o \in Machines, op \in Events : typed'[o][op] >= typed[o][op]
                   /\ \A o \in Machines : owned'[o] \subseteq owned[o]
<1>a. ASSUME NEW r \in Machines, NEW op \in Events, Type(r, op)
      PROVE  \A o \in Machines, c \in Events : typed'[o][c] >= typed[o][c]
  BY SMTT(30), <1>a DEF Type, TypeOK
<1>c. "flap" \in Events
  BY DEF Events
<1>b. typed' = typed => \A o \in Machines, op \in Events : typed'[o][op] >= typed[o][op]
  BY DEF TypeOK
<1>1. ASSUME NEW r \in Machines, AdvertiseAll(r) PROVE Goal
  BY <1>1, <1>a DEF AdvertiseAll, Commands, Events
<1>2. ASSUME NEW r \in Machines, BuildUpdate(r) PROVE Goal
  BY <1>2, <1>b DEF BuildUpdate
<1>3. ASSUME NEW r \in Machines, NEW p \in Subnets, HijackPrefix(r, p) PROVE Goal
  BY <1>3, <1>a DEF HijackPrefix, Commands, Events
<1>4. ASSUME NEW r \in Machines, NEW p \in Subnets, Withdraw(r, p) PROVE Goal
  BY Zenon, <1>4, <1>a DEF Withdraw, Commands, Events, TypeOK
<1>5. ASSUME NEW r \in Machines, SendUpdate(r) PROVE Goal
  BY <1>5, <1>b DEF SendUpdate
<1>6. ASSUME NEW r \in Machines, NEW i \in Ports(r), NEW priority \in Priorities,
             UpdateInterfacePriority(r, i, priority) PROVE Goal
  BY <1>6, <1>a DEF UpdateInterfacePriority, Commands, Events
<1>7. ASSUME NEW r \in Machines, NEW i \in Ports(r), ReceiveAnnouncement(r, i) PROVE Goal
  BY Zenon, <1>7, <1>b DEF ReceiveAnnouncement
<1>8. ASSUME NEW r \in Machines, Store(r) PROVE Goal
  BY <1>8, <1>b DEF Store
<1>9. ASSUME NEW r \in Machines, NEW i \in Ports(r), ReceiveWithdrawal(r, i) PROVE Goal
  BY <1>9, <1>b DEF ReceiveWithdrawal
<1>10. ASSUME NEW r \in Machines, WriteBack(r) PROVE Goal
  BY <1>10, <1>b DEF WriteBack
<1>11. ASSUME NEW r \in Machines, PassOn(r) PROVE Goal
  BY <1>11, <1>b DEF PassOn
<1>12. ASSUME NEW r \in Machines, TablesRace(r) PROVE Goal
  BY <1>12, <1>b DEF TablesRace
<1>13. ASSUME NEW r \in Machines, NEW i \in Ports(r), Flap(r, i) PROVE Goal
  BY SMTT(30), <1>13, <1>c DEF Flap, TypeOK
<1>14. CASE UNCHANGED vars
  BY <1>14, <1>b DEF vars
<1>15. QED
  BY <1>1, <1>2, <1>3, <1>4, <1>5, <1>6, <1>7, <1>8, <1>9, <1>10, <1>11, <1>12, <1>13, <1>14,
     InputAssumption
     DEF Next, MainThread, Working, User

\* No hijack is ever untyped.
LEMMA HijackersGrow ==
  ASSUME TypeOK, [Next]_vars
  PROVE  Hijackers \subseteq Hijackers'
<1> SUFFICES ASSUME NEW o \in Machines, typed[o]["hijack"] > 0
             PROVE  typed'[o]["hijack"] > 0
  BY DEF Hijackers
<1>1. "hijack" \in Events
  BY DEF Events, Commands
<1>2. typed'[o]["hijack"] >= typed[o]["hijack"]
  BY <1>1, TypedStep
<1>3. typed[o]["hijack"] \in Nat
  BY <1>1 DEF TypeOK
<1>4. TypeOK'
  BY TypeStep
<1>5. typed'[o]["hijack"] \in Nat
  BY <1>1, <1>4 DEF TypeOK
<1>6. QED
  BY <1>2, <1>3, <1>5

\* What a step leaves alone stays as it should be.
LEMMA Same ==
  ASSUME RoutesInv, [Next]_vars
  PROVE  /\ learned' = learned => LearnedOk'
         /\ dropping' = dropping => DroppingOk'
         /\ storing' = storing /\ arrived' = arrived => StoringOk'
         /\ net' = net => NetOk'
         /\ cmd' = cmd => CmdOk'
         /\ OwnedOk'
<1>1. Hijackers \subseteq Hijackers'
  BY HijackersGrow DEF RoutesInv
<1>2. /\ \A n, r, e : EntryOk(n, r, e, Hijackers) => EntryOk(n, r, e, Hijackers')
      /\ \A n, r, m : MessageOk(n, r, m, Hijackers) => MessageOk(n, r, m, Hijackers')
      /\ \A r, p, S : TableOk(r, p, S, Hijackers) => TableOk(r, p, S, Hijackers')
  BY <1>1, Grows
<1>3. learned' = learned => LearnedOk'
  BY <1>2 DEF RoutesInv, LearnedOk
<1>4. dropping' = dropping => DroppingOk'
  BY <1>2 DEF RoutesInv, DroppingOk
<1>5. storing' = storing /\ arrived' = arrived => StoringOk'
  BY <1>2 DEF RoutesInv, StoringOk
<1>6. net' = net => NetOk'
  BY <1>2 DEF RoutesInv, NetOk
<1>7. cmd' = cmd => CmdOk'
  BY <1>2 DEF RoutesInv, CmdOk
<1>8. OwnedOk'
  <2>1. \A r \in Machines : owned'[r] \subseteq owned[r]
    BY TypedStep DEF RoutesInv
  <2>2. \A r \in Machines : owned[r] \subseteq InitialOwned[r]
    BY DEF RoutesInv, OwnedOk
  <2>3. QED
    BY <2>1, <2>2 DEF OwnedOk
<1>9. QED
  BY <1>3, <1>4, <1>5, <1>6, <1>7, <1>8

\* What r tells r's neighbour n about its own prefixes and routes is in order.
LEMMA ExportOk ==
  ASSUME RoutesInv, NEW r \in Machines, NEW i \in Ports(r), NEW e \in Export(r, i)
  PROVE  EntryOk(r, Interfaces[r][i], e, Hijackers)
<1> DEFINE n == Interfaces[r][i]
<1>1. CASE e.path = <<r>> /\ e.prefix \in owned[r]
  <2>1. e.prefix \in InitialOwned[r]
    BY <1>1 DEF RoutesInv, OwnedOk
  <2>2. Len(e.path) = 1 /\ e.path[1] = r /\ e.path # <<>>
    BY <1>1
  <2>3. IsInjective(e.path)
    BY <1>1 DEF IsInjective
  <2>4. NoTransit(e.path)
    BY <2>2 DEF NoTransit
  <2>5. QED
    BY <2>1, <2>2, <2>3, <2>4 DEF EntryOk, Sound, Granted
<1>2. ASSUME NEW p \in known[r], NEW x \in learned[r][p], Exportable(r, i, x),
             e = [prefix |-> p, path |-> x.path]
      PROVE  EntryOk(r, n, e, Hijackers)
  <2>1. RouteOk(r, p, x, Hijackers)
    BY DEF RoutesInv, TypeOK, LearnedOk, TableOk
  <2>2. Granted(r, n, x.path)
    BY <1>2, <2>1 DEF RouteOk, Granted, Exportable, ModeOf
  <2>3. QED
    BY <1>2, <2>1, <2>2 DEF RouteOk, EntryOk
<1>3. \/ e.path = <<r>> /\ e.prefix \in owned[r]
      \/ \E p \in known[r] : \E x \in learned[r][p] :
            Exportable(r, i, x) /\ e = [prefix |-> p, path |-> x.path]
  BY DEF Export
<1>4. QED
  BY <1>1, <1>2, <1>3

\* A machine's own number in front of a path.
LEMMA InFront ==
  ASSUME NEW r \in Machines, NEW q \in Seq(Machines)
  PROVE  LET s == <<r>> \o q IN
         /\ s \in Seq(Machines) /\ Len(s) = Len(q) + 1 /\ s[1] = r
         /\ \A k \in 1 .. Len(q) : s[k + 1] = q[k]
         /\ \A k \in 2 .. Len(q) + 1 : s[k] = q[k - 1]
  OBVIOUS

\* Storing an entry whose path does not hold r gives a route that is in order.
LEMMA StoreOk ==
  ASSUME NEW r \in Machines, NEW i \in Ports(r), NEW e \in Entries, NEW h, NEW x,
         EntryOk(Interfaces[r][i], r, e, h), r \notin ToSet(e.path),
         x.path = <<r>> \o e.path, x.iface = i
  PROVE  RouteOk(r, e.prefix, x, h)
<1> DEFINE n == Interfaces[r][i]
           q == e.path
           s == <<r>> \o q
<1>1. q \in Seq(Machines) /\ q # <<>> /\ q[1] = n /\ Len(q) \in Nat \ {0}
  BY DEF Entries, EntryOk, Sound
<1>2. /\ s \in Seq(Machines) /\ Len(s) = Len(q) + 1 /\ s[1] = r
      /\ \A k \in 1 .. Len(q) : s[k + 1] = q[k]
      /\ \A k \in 2 .. Len(q) + 1 : s[k] = q[k - 1]
  BY <1>1, InFront
<1>3. /\ \A k \in 1 .. Len(q) : q[k] # r
      /\ IsInjective(q) /\ NoTransit(q) /\ Granted(n, r, q)
      /\ \A k \in 1 .. Len(q) - 1 : q[k + 1] \in ToSet(Interfaces[q[k]])
      /\ e.prefix \in InitialOwned[q[Len(q)]] \/ q[Len(q)] \in h
  <2>1. \A k \in 1 .. Len(q) : q[k] # r
    BY <1>1 DEF ToSet
  <2>2. QED
    BY <2>1 DEF EntryOk, Sound
<1> HIDE DEF s
<1>4. \A k \in 1 .. Len(s) - 1 : s[k + 1] \in ToSet(Interfaces[s[k]])
  <2> SUFFICES ASSUME NEW k \in 1 .. Len(q) PROVE s[k + 1] \in ToSet(Interfaces[s[k]])
    BY <1>1, <1>2
  <2>1. CASE k = 1
    <3>1. n \in ToSet(Interfaces[r])
      BY TopologyAssumption DEF Ports, ToSet
    <3>2. QED
      BY <1>1, <1>2, <2>1, <3>1
  <2>2. CASE k > 1
    <3>1. s[k + 1] = q[(k - 1) + 1] /\ s[k] = q[k - 1] /\ k - 1 \in 1 .. Len(q) - 1
      BY <1>1, <1>2, <2>2
    <3>2. q[(k - 1) + 1] \in ToSet(Interfaces[q[k - 1]])
      BY <1>3, <3>1
    <3>3. QED
      BY <3>1, <3>2
  <2>3. QED
    BY <1>1, <2>1, <2>2
<1>5. IsInjective(s)
  <2>1. DOMAIN s = 1 .. Len(q) + 1 /\ DOMAIN q = 1 .. Len(q)
    BY <1>1, <1>2
  <2> SUFFICES ASSUME NEW j \in 1 .. Len(q) + 1, NEW k \in 1 .. Len(q) + 1, s[j] = s[k]
               PROVE  j = k
    BY <2>1 DEF IsInjective
  <2>2. \A m \in 1 .. Len(q) + 1 : m > 1 => s[m] = q[m - 1] /\ m - 1 \in 1 .. Len(q)
    BY <1>1, <1>2
  <2>3. CASE j = 1 /\ k > 1
    BY <1>2, <1>3, <2>2, <2>3
  <2>4. CASE k = 1 /\ j > 1
    BY <1>2, <1>3, <2>2, <2>4
  <2>5. CASE j > 1 /\ k > 1
    <3>1. q[j - 1] = q[k - 1] /\ j - 1 \in 1 .. Len(q) /\ k - 1 \in 1 .. Len(q)
      BY <2>2, <2>5
    <3>2. j - 1 = k - 1
      BY <1>3, <2>1, <3>1 DEF IsInjective
    <3>3. QED
      BY <1>1, <3>2
  <2>6. QED
    BY <1>1, <2>3, <2>4, <2>5
<1>6. NoTransit(s)
  <2> SUFFICES ASSUME NEW k \in 2 .. Len(q)
               PROVE  \/ Mode[s[k]][s[k - 1]] = "CUSTOMER"
                      \/ Mode[s[k]][s[k - 1]] # Mode[s[k]][s[k + 1]]
    BY <1>1, <1>2 DEF NoTransit
  <2>1. CASE k = 2
    <3>1. s[2] = n /\ s[1] = r /\ s[3] = q[2] /\ Len(q) > 1 /\ q[2] # r
      BY <1>1, <1>2, <1>3, <2>1
    <3>2. QED
      BY <1>3, <2>1, <3>1 DEF Granted
  <2>2. CASE k > 2
    <3>1. /\ s[k] = q[k - 1] /\ s[k - 1] = q[(k - 1) - 1] /\ s[k + 1] = q[(k - 1) + 1]
          /\ k - 1 \in 2 .. Len(q) - 1
      BY <1>1, <1>2, <2>2
    <3>2. QED
      BY <1>3, <3>1 DEF NoTransit
  <2>3. QED
    BY <1>1, <2>1, <2>2
<1>7. s[Len(s)] = q[Len(q)] /\ s # <<>> /\ s[2] = n /\ Len(s) > 1
  BY <1>1, <1>2
<1>8. Sound(e.prefix, s, h)
  BY <1>3, <1>4, <1>5, <1>6, <1>7 DEF Sound
<1>9. x.path = s
  BY DEF s
<1>10. QED
  BY <1>2, <1>7, <1>8, <1>9 DEF RouteOk

-----------------------------------------------------------------------------
(***************************************************************************)
(* One lemma per variable: a write that is in order keeps it in order.     *)
(***************************************************************************)

\* Every fact of the invariant, read after the step: what did not change is
\* still in order for the hijackers there are now.
LEMMA Now ==
  ASSUME RoutesInv, [Next]_vars
  PROVE  /\ \A r \in Machines, p \in Subnets : TableOk(r, p, learned[r][p], Hijackers')
         /\ \A r \in Machines : \A p \in dropping[r].prefixes :
              TableOk(r, p, dropping[r].kept, Hijackers')
         /\ \A r \in Machines : \A e \in storing[r] :
              EntryOk(Interfaces[r][arrived[r]], r, e, Hijackers')
         /\ \A r, n \in Machines : \A k \in 1 .. Len(net[r][n]) :
              MessageOk(n, r, net[r][n][k], Hijackers')
         /\ \A r \in Machines : \A m \in cmd[r].ready :
              /\ MessageOk(r, Interfaces[r][cmd[r].next], m, Hijackers')
              /\ cmd[r].op # "advertise" => \A e \in m.announce : e.path = <<r>>
<1>1. Hijackers \subseteq Hijackers'
  BY HijackersGrow DEF RoutesInv
<1>2. /\ \A n, r, e : EntryOk(n, r, e, Hijackers) => EntryOk(n, r, e, Hijackers')
      /\ \A n, r, m : MessageOk(n, r, m, Hijackers) => MessageOk(n, r, m, Hijackers')
      /\ \A r, p, S : TableOk(r, p, S, Hijackers) => TableOk(r, p, S, Hijackers')
  BY <1>1, Grows
<1>3. LearnedOk /\ DroppingOk /\ StoringOk /\ NetOk /\ CmdOk
  BY DEF RoutesInv
<1>4. \A r \in Machines, p \in Subnets : TableOk(r, p, learned[r][p], Hijackers')
  BY <1>2, <1>3 DEF LearnedOk
<1>5. \A r \in Machines : \A p \in dropping[r].prefixes :
        TableOk(r, p, dropping[r].kept, Hijackers')
  BY <1>2, <1>3 DEF DroppingOk
<1>6. \A r \in Machines : \A e \in storing[r] :
        EntryOk(Interfaces[r][arrived[r]], r, e, Hijackers')
  BY <1>2, <1>3 DEF StoringOk
<1>7. \A r, n \in Machines : \A k \in 1 .. Len(net[r][n]) :
        MessageOk(n, r, net[r][n][k], Hijackers')
  BY <1>2, <1>3 DEF NetOk
<1>8. \A r \in Machines : \A m \in cmd[r].ready :
        /\ MessageOk(r, Interfaces[r][cmd[r].next], m, Hijackers')
        /\ cmd[r].op # "advertise" => \A e \in m.announce : e.path = <<r>>
  BY <1>2, <1>3 DEF CmdOk
<1>9. QED
  BY <1>4, <1>5, <1>6, <1>7, <1>8

\* Writing one well-formed set of routes keeps every table well-formed.
LEMMA LearnedWrite ==
  ASSUME RoutesInv, [Next]_vars, NEW r \in Machines, NEW p \in Subnets, NEW S,
         TableOk(r, p, S, Hijackers'), learned' = [learned EXCEPT ![r][p] = S]
  PROVE  LearnedOk'
<1>1. \A d \in Machines, q \in Subnets :
        learned'[d][q] = IF d = r /\ q = p THEN S ELSE learned[d][q]
  BY DEF RoutesInv, TypeOK
<1>2. \A d \in Machines, q \in Subnets : TableOk(d, q, learned[d][q], Hijackers')
  BY Now
<1>3. QED
  BY <1>1, <1>2 DEF LearnedOk

\* Likewise for what a withdrawal is about to leave in a table,
LEMMA DroppingWrite ==
  ASSUME RoutesInv, [Next]_vars, NEW r \in Machines, NEW c,
         \A p \in c.prefixes : TableOk(r, p, c.kept, Hijackers'),
         dropping' = [dropping EXCEPT ![r] = c]
  PROVE  DroppingOk'
<1>1. \A d \in Machines : dropping'[d] = IF d = r THEN c ELSE dropping[d]
  BY DEF RoutesInv, TypeOK
<1>2. \A d \in Machines : \A p \in dropping[d].prefixes :
        TableOk(d, p, dropping[d].kept, Hijackers')
  BY Now
<1>3. QED
  BY <1>1, <1>2 DEF DroppingOk

\* for the messages a command has ready,
LEMMA CmdWrite ==
  ASSUME RoutesInv, [Next]_vars, NEW r \in Machines, NEW c,
         \A m \in c.ready :
           /\ MessageOk(r, Interfaces[r][c.next], m, Hijackers')
           /\ c.op # "advertise" => \A e \in m.announce : e.path = <<r>>,
         cmd' = [cmd EXCEPT ![r] = c]
  PROVE  CmdOk'
<1>1. \A d \in Machines : cmd'[d] = IF d = r THEN c ELSE cmd[d]
  BY DEF RoutesInv, TypeOK
<1>2. \A d \in Machines : \A m \in cmd[d].ready :
        /\ MessageOk(d, Interfaces[d][cmd[d].next], m, Hijackers')
        /\ cmd[d].op # "advertise" => \A e \in m.announce : e.path = <<d>>
  BY Now
<1>3. QED
  BY <1>1, <1>2 DEF CmdOk

\* for the message that is put in a channel,
LEMMA NetSend ==
  ASSUME RoutesInv, [Next]_vars, NEW r \in Machines, NEW i \in Ports(r),
         NEW m \in Messages, MessageOk(r, Interfaces[r][i], m, Hijackers'),
         net' = Sent(r, i, m)
  PROVE  NetOk'
<1> DEFINE to == Interfaces[r][i]
<1>1. to \in Machines
  BY PortsAre
<1>2. \A d, n \in Machines :
        net'[d][n] = IF d = to /\ n = r THEN Append(net[d][n], m) ELSE net[d][n]
  BY <1>1 DEF Sent, RoutesInv, TypeOK
<1>3. \A d, n \in Machines : net[d][n] \in Seq(Messages)
  BY DEF RoutesInv, TypeOK
<1>4. \A d, n \in Machines : \A k \in 1 .. Len(net[d][n]) :
        MessageOk(n, d, net[d][n][k], Hijackers')
  BY Now
<1> SUFFICES ASSUME NEW d \in Machines, NEW n \in Machines, NEW k \in 1 .. Len(net'[d][n])
             PROVE  MessageOk(n, d, net'[d][n][k], Hijackers')
  BY DEF NetOk
<1>5. CASE d = to /\ n = r
  <2> DEFINE q == net[to][r]
  <2>1. net'[d][n] = Append(q, m) /\ q \in Seq(Messages)
    BY <1>1, <1>2, <1>3, <1>5
  <2> HIDE DEF q
  <2>2. /\ Len(q) \in Nat /\ k \in 1 .. Len(q) + 1
        /\ k \in 1 .. Len(q) => net'[d][n][k] = q[k]
        /\ k = Len(q) + 1 => net'[d][n][k] = m
    BY <2>1
  <2>3. k \in 1 .. Len(q) => MessageOk(r, to, q[k], Hijackers')
    BY <1>1, <1>4 DEF q
  <2>4. QED
    BY <1>5, <2>2, <2>3
<1>6. CASE ~(d = to /\ n = r)
  BY <1>2, <1>4, <1>6
<1>7. QED
  BY <1>5, <1>6

\* and the message taken from one is well-formed.
LEMMA NetReceive ==
  ASSUME RoutesInv, [Next]_vars, NEW r \in Machines, NEW from \in Machines,
         net[r][from] # <<>>, net' = [net EXCEPT ![r][from] = Tail(@)]
  PROVE  NetOk' /\ MessageOk(from, r, Head(net[r][from]), Hijackers')
<1> DEFINE q == net[r][from]
<1>1. \A d, n \in Machines :
        net'[d][n] = IF d = r /\ n = from THEN Tail(q) ELSE net[d][n]
  BY DEF RoutesInv, TypeOK
<1>2. q \in Seq(Messages) /\ q # <<>>
  BY DEF RoutesInv, TypeOK
<1>3. \A d, n \in Machines : \A k \in 1 .. Len(net[d][n]) :
        MessageOk(n, d, net[d][n][k], Hijackers')
  BY Now
<1>4. \A k \in 1 .. Len(q) : MessageOk(from, r, q[k], Hijackers')
  BY <1>3
<1> HIDE DEF q
<1>5. 1 \in 1 .. Len(q) /\ Head(q) = q[1]
  BY <1>2
<1>6. \A k \in 1 .. Len(Tail(q)) : Tail(q)[k] = q[k + 1] /\ k + 1 \in 1 .. Len(q)
  BY <1>2
<1>7. NetOk'
  <2> SUFFICES ASSUME NEW d \in Machines, NEW n \in Machines, NEW k \in 1 .. Len(net'[d][n])
               PROVE  MessageOk(n, d, net'[d][n][k], Hijackers')
    BY DEF NetOk
  <2>1. CASE d = r /\ n = from
    <3>1. net'[d][n] = Tail(q)
      BY <1>1, <2>1
    <3>2. net'[d][n][k] = q[k + 1] /\ k + 1 \in 1 .. Len(q)
      BY <1>6, <3>1
    <3>3. QED
      BY <1>4, <2>1, <3>2
  <2>2. CASE ~(d = r /\ n = from)
    BY <1>1, <1>3, <2>2
  <2>3. QED
    BY <2>1, <2>2
<1>8. QED
  BY <1>4, <1>5, <1>7 DEF q

-----------------------------------------------------------------------------
(***************************************************************************)
(* The invariant is inductive.                                             *)
(***************************************************************************)

\* Empty tables and channels satisfy the inductive invariant.
LEMMA RoutesInit == Init => RoutesInv
<1> SUFFICES ASSUME Init PROVE RoutesInv
  OBVIOUS
<1>1. TypeOK
  BY TypeInit
<1>2. OwnedOk
  BY DEF Init, OwnedOk
<1>3. LearnedOk
  BY DEF Init, LearnedOk, TableOk
<1>4. DroppingOk
  BY DEF Init, DroppingOk, NoDropping
<1>5. StoringOk
  BY DEF Init, StoringOk
<1>6. NetOk
  <2>1. \A r, n \in Machines : net[r][n] = <<>>
    BY DEF Init
  <2>2. QED
    BY <2>1 DEF NetOk
<1>7. CmdOk
  BY DEF Init, CmdOk, NoCommand
<1>8. QED
  BY <1>1, <1>2, <1>3, <1>4, <1>5, <1>6, <1>7 DEF RoutesInv

\* A path of one machine may be sent to any neighbour.
LEMMA OwnPathTravels ==
  ASSUME NEW r, NEW n, NEW d, NEW m, NEW h, MessageOk(r, n, m, h),
         \A e \in m.announce : e.path = <<r>>
  PROVE  MessageOk(r, d, m, h)
<1> SUFFICES ASSUME NEW e \in m.announce PROVE EntryOk(r, d, e, h)
  BY DEF MessageOk
<1>1. EntryOk(r, n, e, h) /\ e.path = <<r>>
  BY DEF MessageOk
<1>2. Len(e.path) = 1
  BY <1>1
<1>3. Granted(r, d, e.path)
  BY <1>2 DEF Granted
<1>4. QED
  BY <1>1, <1>3 DEF EntryOk

\* Every step of the routers preserves it.
LEMMA RoutesStep == RoutesInv /\ [Next]_vars => RoutesInv'
<1> SUFFICES ASSUME RoutesInv, [Next]_vars PROVE RoutesInv'
  OBVIOUS
<1> DEFINE Rest == LearnedOk' /\ DroppingOk' /\ StoringOk' /\ NetOk' /\ CmdOk'
<1>a. TypeOK /\ TypeOK' /\ OwnedOk'
  BY TypeStep, Same DEF RoutesInv
<1>1. ASSUME NEW r \in Machines, AdvertiseAll(r) PROVE Rest
  <2>1. CmdOk'
    BY <1>1, CmdWrite DEF AdvertiseAll
  <2>2. QED
    BY <1>1, <2>1, Same DEF AdvertiseAll, tables, main
<1>2. ASSUME NEW r \in Machines, BuildUpdate(r) PROVE Rest
  <2> DEFINE i == cmd[r].next
             c == IF i \in up[r] THEN [cmd[r] EXCEPT !.ready = {Announcement(Export(r, i))}]
                                 ELSE NextInterface(r, {})
  <2>1. cmd' = [cmd EXCEPT ![r] = c]
    BY <1>2 DEF BuildUpdate
  <2>2. CASE i \in up[r]
    <3>1. i \in Ports(r) /\ cmd[r].op = "advertise"
      BY <1>2 DEF BuildUpdate, RoutesInv, TypeOK
    <3>2. \A e \in Export(r, i) : EntryOk(r, Interfaces[r][i], e, Hijackers')
      <4>1. \A e \in Export(r, i) : EntryOk(r, Interfaces[r][i], e, Hijackers)
        BY <3>1, ExportOk
      <4>2. Hijackers \subseteq Hijackers'
        BY <1>a, HijackersGrow
      <4>3. QED
        BY <4>1, <4>2, Grows
    <3>3. MessageOk(r, Interfaces[r][i], Announcement(Export(r, i)), Hijackers')
      BY <3>2 DEF MessageOk, Announcement
    <3>4. /\ c.ready = {Announcement(Export(r, i))} /\ c.next = i /\ c.op = "advertise"
      <4>1. cmd[r] \in [op : Commands \cup {"none"}, next : Nat, ready : SUBSET Messages]
        BY <1>a DEF TypeOK
      <4>2. c = [cmd[r] EXCEPT !.ready = {Announcement(Export(r, i))}]
        BY <2>2
      <4>3. QED
        BY <3>1, <4>1, <4>2
    <3> HIDE DEF c
    <3>5. CmdOk'
      BY <2>1, <3>3, <3>4, CmdWrite
    <3>6. QED
      BY <1>2, <3>5, Same DEF BuildUpdate, tables, main
  <2>3. CASE i \notin up[r]
    <3>1. c.ready = {}
      <4>1. cmd[r] \in [op : Commands \cup {"none"}, next : Nat, ready : SUBSET Messages]
        BY <1>a DEF TypeOK
      <4>2. c = NextInterface(r, {})
        BY <2>3
      <4>3. QED
        BY <4>1, <4>2 DEF NextInterface, NoCommand
    <3> HIDE DEF c
    <3>2. CmdOk'
      BY <2>1, <3>1, CmdWrite
    <3>3. QED
      BY <1>2, <3>2, Same DEF BuildUpdate, tables, main
  <2>4. QED
    BY <2>2, <2>3
<1>3. ASSUME NEW r \in Machines, NEW p \in Subnets, HijackPrefix(r, p) PROVE Rest
  <2> DEFINE e == [prefix |-> p, path |-> <<r>>]
             c == [op |-> "hijack", next |-> 1, ready |-> {Announcement({e})}]
  <2>1. r \in Hijackers'
    <3>1. "hijack" \in Events
      BY DEF Events, Commands
    <3>2. typed' = [typed EXCEPT ![r]["hijack"] = @ + 1]
      BY <1>3 DEF HijackPrefix, Type
    <3>3. typed[r]["hijack"] \in Nat /\ typed'[r]["hijack"] = typed[r]["hijack"] + 1
      BY <1>a, <3>1, <3>2 DEF TypeOK
    <3>4. QED
      BY <3>3 DEF Hijackers
  <2>2. EntryOk(r, Interfaces[r][1], e, Hijackers')
    <3> DEFINE s == <<r>>
    <3>1. Len(s) = 1 /\ s[1] = r /\ s # <<>>
      OBVIOUS
    <3>2. IsInjective(s)
      BY DEF IsInjective
    <3>3. NoTransit(s) /\ Granted(r, Interfaces[r][1], s)
      BY <3>1 DEF NoTransit, Granted
    <3>4. Sound(p, s, Hijackers')
      BY <2>1, <3>1, <3>2, <3>3 DEF Sound
    <3>5. QED
      BY <3>1, <3>3, <3>4 DEF EntryOk
  <2>3. cmd' = [cmd EXCEPT ![r] = c]
    BY <1>3 DEF HijackPrefix
  <2>4. \A m \in c.ready : /\ MessageOk(r, Interfaces[r][c.next], m, Hijackers')
                           /\ \A x \in m.announce : x.path = <<r>>
    BY <2>2 DEF MessageOk, Announcement
  <2> HIDE DEF c
  <2>5. CmdOk'
    BY <2>3, <2>4, CmdWrite
  <2>6. QED
    BY <1>3, <2>5, Same DEF HijackPrefix, tables, main
<1>4. ASSUME NEW r \in Machines, NEW p \in Subnets, Withdraw(r, p) PROVE Rest
  <2> DEFINE c == [op |-> "withdraw", next |-> 1, ready |-> {Withdrawal(p)}]
  <2>1. learned' = [learned EXCEPT ![r][p] = {}] /\ cmd' = [cmd EXCEPT ![r] = c]
    BY <1>4 DEF Withdraw
  <2>2. TableOk(r, p, {}, Hijackers')
    BY DEF TableOk
  <2>3. LearnedOk'
    BY <2>1, <2>2, LearnedWrite
  <2>4. \A m \in c.ready : /\ MessageOk(r, Interfaces[r][c.next], m, Hijackers')
                           /\ \A x \in m.announce : x.path = <<r>>
    BY DEF MessageOk, Withdrawal
  <2> HIDE DEF c
  <2>5. CmdOk'
    BY <2>1, <2>4, CmdWrite
  <2>6. QED
    BY <1>4, <2>3, <2>5, Same DEF Withdraw, main
<1>5. ASSUME NEW r \in Machines, SendUpdate(r) PROVE Rest
  <2> DEFINE i == cmd[r].next
             S == IF cmd[r].op = "advertise" THEN {} ELSE cmd[r].ready
             c == NextInterface(r, S)
  <2>1. PICK m \in cmd[r].ready :
          net' = Sent(r, i, m) /\ cmd' = [cmd EXCEPT ![r] = c]
    BY <1>5 DEF SendUpdate
  <2>2. /\ i \in Ports(r) /\ m \in Messages
        /\ cmd[r] \in [op : Commands \cup {"none"}, next : Nat, ready : SUBSET Messages]
    BY <1>a DEF TypeOK
  <2>3. \A x \in cmd[r].ready :
          /\ MessageOk(r, Interfaces[r][i], x, Hijackers')
          /\ cmd[r].op # "advertise" => \A e \in x.announce : e.path = <<r>>
    BY Now
  <2>4. NetOk'
    BY <2>1, <2>2, <2>3, NetSend
  <2>5. c.ready \subseteq S
    BY <2>2 DEF NextInterface, NoCommand
  <2>6. \A x \in S : /\ \A d : MessageOk(r, d, x, Hijackers')
                     /\ \A e \in x.announce : e.path = <<r>>
    BY <2>3, OwnPathTravels
  <2> HIDE DEF c, S
  <2>7. CmdOk'
    BY <2>1, <2>5, <2>6, CmdWrite
  <2>8. QED
    BY <1>5, <2>4, <2>7, Same DEF SendUpdate, tables, main
<1>6. ASSUME NEW r \in Machines, NEW i \in Ports(r), NEW priority \in Priorities,
             UpdateInterfacePriority(r, i, priority)
      PROVE Rest
  <2> DEFINE f(x) == IF x.iface = i THEN [x EXCEPT !.priority = priority] ELSE x
  <2>1. \A x \in Routes : f(x).path = x.path /\ f(x).iface = x.iface
    BY DEF Routes
  <2>2. \A d \in Machines, p \in Subnets :
          learned'[d][p] = IF d = r THEN {f(x) : x \in learned[d][p]} ELSE learned[d][p]
    BY <1>6, <1>a DEF UpdateInterfacePriority, TypeOK
  <2>3. \A d \in Machines, p \in Subnets : TableOk(d, p, learned[d][p], Hijackers')
    BY Now
  <2>4. \A d \in Machines, p \in Subnets : learned[d][p] \subseteq Routes
    BY <1>a DEF TypeOK
  <2> HIDE DEF f
  <2>5. \A p \in Subnets : TableOk(r, p, {f(x) : x \in learned[r][p]}, Hijackers')
    <3> SUFFICES ASSUME NEW p \in Subnets
                 PROVE  TableOk(r, p, {f(x) : x \in learned[r][p]}, Hijackers')
      OBVIOUS
    <3>1. \A x \in learned[r][p] : RouteOk(r, p, f(x), Hijackers')
      BY <2>1, <2>3, <2>4 DEF TableOk, RouteOk
    <3>2. \A x, y \in learned[r][p] : f(x).path = f(y).path => f(x) = f(y)
      BY <2>1, <2>3, <2>4 DEF TableOk
    <3>3. QED
      BY <3>1, <3>2 DEF TableOk
  <2>6. LearnedOk'
    <3> SUFFICES ASSUME NEW d \in Machines, NEW p \in Subnets
                 PROVE  TableOk(d, p, learned'[d][p], Hijackers')
      BY Zenon DEF LearnedOk
    <3>1. CASE d = r
      <4>1. learned'[d][p] = {f(x) : x \in learned[d][p]}
        BY <2>2, <3>1, Zenon
      <4>2. QED
        BY <2>5, <3>1, <4>1, Zenon
    <3>2. CASE d # r
      <4>1. learned'[d][p] = learned[d][p]
        BY <2>2, <3>2, Zenon
      <4>2. QED
        BY <2>3, <4>1, Zenon
    <3>3. QED
      BY <3>1, <3>2, Zenon
  <2>7. QED
    BY <1>6, <2>6, Same DEF UpdateInterfacePriority, main
<1>7. ASSUME NEW r \in Machines, NEW i \in Ports(r), ReceiveAnnouncement(r, i) PROVE Rest
  <2> DEFINE n == Interfaces[r][i]
             entries == Head(net[r][n]).announce
  <2>1. n \in Machines /\ net[r][n] # <<>> /\ net' = [net EXCEPT ![r][n] = Tail(@)]
    BY Zenon, <1>7, PortsAre DEF ReceiveAnnouncement
  <2>2. NetOk' /\ \A e \in entries : EntryOk(n, r, e, Hijackers')
    BY Zenon, <2>1, NetReceive DEF MessageOk
  <2>3. \/ arrived' = arrived /\ storing' = storing
        \/ arrived' = [arrived EXCEPT ![r] = i] /\ storing' = [storing EXCEPT ![r] = entries]
    BY Zenon, <1>7 DEF ReceiveAnnouncement
  <2>4. StoringOk'
    <3>1. CASE arrived' = arrived /\ storing' = storing
      BY <3>1, Same
    <3>2. CASE /\ arrived' = [arrived EXCEPT ![r] = i]
               /\ storing' = [storing EXCEPT ![r] = entries]
      <4>1. \A d \in Machines : /\ arrived'[d] = IF d = r THEN i ELSE arrived[d]
                                /\ storing'[d] = IF d = r THEN entries ELSE storing[d]
        BY <1>a, <3>2 DEF TypeOK
      <4>2. \A d \in Machines : \A e \in storing[d] :
              EntryOk(Interfaces[d][arrived[d]], d, e, Hijackers')
        BY Now
      <4>3. ASSUME NEW d \in Machines, NEW e \in storing'[d]
            PROVE  EntryOk(Interfaces[d][arrived'[d]], d, e, Hijackers')
        <5>1. CASE d = r
          <6>1. arrived'[d] = i /\ storing'[d] = entries
            BY <4>1, <5>1, Zenon
          <6>2. QED
            BY <2>2, <4>3, <5>1, <6>1, Zenon
        <5>2. CASE d # r
          BY <4>1, <4>2, <4>3, <5>2, Zenon
        <5>3. QED
          BY <5>1, <5>2, Zenon
      <4>4. QED
        BY <4>3, Zenon DEF StoringOk
    <3>3. QED
      BY <2>3, <3>1, <3>2
  <2>5. QED
    BY Zenon, <1>7, <2>2, <2>4, Same DEF ReceiveAnnouncement, tables
<1>8. ASSUME NEW r \in Machines, Store(r) PROVE Rest
  <2>1. PICK e \in storing[r] :
          /\ storing' = [storing EXCEPT ![r] = @ \ {e}]
          /\ IF r \in ToSet(e.path)
             THEN UNCHANGED tables
             ELSE LET path == <<r>> \o e.path IN
               /\ known' = [known EXCEPT ![r] = @ \cup {e.prefix}]
               /\ held' = [held EXCEPT ![r] = @ \cup {e.prefix}]
               /\ learned' = [learned EXCEPT ![r][e.prefix] =
                     IF \E x \in @ : x.path = path THEN @
                     ELSE @ \cup {[path |-> path, iface |-> arrived[r],
                                   priority |-> LearnedPriority(ModeOf(r, arrived[r]))]}]
    BY <1>8 DEF Store
  <2> DEFINE path == <<r>> \o e.path
             x == [path |-> path, iface |-> arrived[r],
                   priority |-> LearnedPriority(ModeOf(r, arrived[r]))]
             S == learned[r][e.prefix]
  <2>2. e \in Entries /\ e.prefix \in Subnets /\ arrived[r] \in Ports(r)
    BY <1>a DEF TypeOK, Entries
  <2>3. StoringOk'
    <3>1. \A d \in Machines : storing'[d] \subseteq storing[d]
      BY <1>a, <2>1 DEF TypeOK
    <3>2. arrived' = arrived
      BY <1>8 DEF Store
    <3>3. \A d \in Machines : \A y \in storing[d] :
            EntryOk(Interfaces[d][arrived[d]], d, y, Hijackers')
      BY Now
    <3>4. QED
      BY <3>1, <3>2, <3>3 DEF StoringOk
  <2>4. LearnedOk'
    <3>1. CASE r \in ToSet(e.path)
      <4>1. learned' = learned
        BY <2>1, <3>1 DEF tables
      <4>2. QED
        BY <4>1, Same
    <3>2. CASE r \notin ToSet(e.path)
      <4> DEFINE T == IF \E y \in S : y.path = path THEN S ELSE S \cup {x}
      <4>1. learned' = [learned EXCEPT ![r][e.prefix] = T]
        BY <2>1, <3>2
      <4>2. TableOk(r, e.prefix, S, Hijackers')
        BY <2>2, Now
      <4>3. RouteOk(r, e.prefix, x, Hijackers')
        <5>1. EntryOk(Interfaces[r][arrived[r]], r, e, Hijackers')
          BY Now
        <5>2. x.path = <<r>> \o e.path /\ x.iface = arrived[r]
          OBVIOUS
        <5> HIDE DEF x
        <5>3. QED
          BY <2>2, <3>2, <5>1, <5>2, StoreOk
      <4>4. x.path = path
        OBVIOUS
      <4> HIDE DEF x, path, S
      <4>5. TableOk(r, e.prefix, T, Hijackers')
        BY <4>2, <4>3, <4>4 DEF TableOk
      <4> HIDE DEF T
      <4>6. QED
        BY <2>2, <4>1, <4>5, LearnedWrite
    <3>3. QED
      BY <3>1, <3>2
  <2>5. QED
    BY <1>8, <2>3, <2>4, Same DEF Store
<1>9. ASSUME NEW r \in Machines, NEW i \in Ports(r), ReceiveWithdrawal(r, i) PROVE Rest
  <2> DEFINE n == Interfaces[r][i]
  <2>1. n \in Machines /\ net[r][n] # <<>> /\ net' = [net EXCEPT ![r][n] = Tail(@)]
    BY <1>9, PortsAre DEF ReceiveWithdrawal
  <2>2. NetOk'
    BY <2>1, NetReceive
  <2>3. PICK p \in Head(net[r][n]).withdraw :
          dropping' = [dropping EXCEPT ![r] =
             [prefixes |-> {p}, next |-> 0,
              kept |-> {x \in learned[r][p] : x.iface # i}]]
    BY <1>9 DEF ReceiveWithdrawal
  <2> DEFINE kept == {x \in learned[r][p] : x.iface # i}
             c == [prefixes |-> {p}, next |-> 0, kept |-> kept]
  <2>4. p \in Subnets
    BY <1>a, <2>1, ReceivedType DEF Messages
  <2>5. TableOk(r, p, learned[r][p], Hijackers')
    BY <2>4, Now
  <2>6. TableOk(r, p, kept, Hijackers')
    BY <2>5 DEF TableOk
  <2>7. dropping' = [dropping EXCEPT ![r] = c]
    BY <2>3
  <2>8. \A q \in c.prefixes : TableOk(r, q, c.kept, Hijackers')
    BY <2>6
  <2> HIDE DEF c
  <2>9. DroppingOk'
    BY <2>7, <2>8, DroppingWrite
  <2>10. StoringOk'
    <3>1. storing[r] = {} /\ storing' = storing /\ arrived' = [arrived EXCEPT ![r] = i]
      BY <1>9 DEF ReceiveWithdrawal, AtRest
    <3>2. \A d \in Machines : d # r => arrived'[d] = arrived[d]
      BY <1>a, <3>1 DEF TypeOK
    <3>3. \A d \in Machines : \A y \in storing[d] :
            EntryOk(Interfaces[d][arrived[d]], d, y, Hijackers')
      BY Now
    <3>4. QED
      BY <3>1, <3>2, <3>3 DEF StoringOk
  <2>11. QED
    BY <1>9, <2>2, <2>9, <2>10, Same DEF ReceiveWithdrawal, tables
<1>10. ASSUME NEW r \in Machines, WriteBack(r) PROVE Rest
  <2>1. PICK p \in dropping[r].prefixes : learned' = [learned EXCEPT ![r][p] = dropping[r].kept]
    BY <1>10 DEF WriteBack
  <2>2. p \in Subnets
    BY <1>a DEF TypeOK
  <2>3. TableOk(r, p, dropping[r].kept, Hijackers')
    BY Now
  <2>4. LearnedOk'
    BY <2>1, <2>2, <2>3, LearnedWrite
  <2> DEFINE c == [dropping[r] EXCEPT !.next = 1, !.kept = {}]
  <2>5. dropping' = [dropping EXCEPT ![r] = c]
    BY <1>10 DEF WriteBack
  <2>6. c.kept = {}
    BY <1>a DEF TypeOK
  <2> HIDE DEF c
  <2>7. \A q \in c.prefixes : TableOk(r, q, c.kept, Hijackers')
    BY <2>6 DEF TableOk
  <2>8. DroppingOk'
    BY <2>5, <2>7, DroppingWrite
  <2>9. QED
    BY <1>10, <2>4, <2>8, Same DEF WriteBack
<1>11. ASSUME NEW r \in Machines, PassOn(r) PROVE Rest
  <2> DEFINE i == dropping[r].next
             c == IF i < Len(Interfaces[r]) THEN [dropping[r] EXCEPT !.next = i + 1]
                                            ELSE NoDropping
  <2>1. PICK p \in dropping[r].prefixes :
          net' = IF i = arrived[r] THEN net ELSE Sent(r, i, Withdrawal(p))
    BY <1>11 DEF PassOn
  <2>2. i \in Ports(r) /\ dropping' = [dropping EXCEPT ![r] = c]
    BY <1>11 DEF PassOn
  <2>3. NetOk'
    <3>1. CASE i = arrived[r]
      BY <2>1, <3>1, Same
    <3>2. CASE i # arrived[r]
      <4>1. Withdrawal(p) \in Messages
        BY <1>a, MessageTypes DEF TypeOK
      <4>2. MessageOk(r, Interfaces[r][i], Withdrawal(p), Hijackers')
        BY DEF MessageOk, Withdrawal
      <4>3. QED
        BY <2>1, <2>2, <3>2, <4>1, <4>2, NetSend
    <3>3. QED
      BY <3>1, <3>2
  <2>4. \/ c.prefixes = {}
        \/ c.prefixes = dropping[r].prefixes /\ c.kept = dropping[r].kept
    <3>1. dropping[r] \in [prefixes : SUBSET Subnets, kept : SUBSET Routes, next : Nat]
      BY <1>a DEF TypeOK
    <3>2. QED
      BY <3>1 DEF NoDropping
  <2>5. \A q \in dropping[r].prefixes : TableOk(r, q, dropping[r].kept, Hijackers')
    BY Now
  <2> HIDE DEF c
  <2>6. DroppingOk'
    BY <2>2, <2>4, <2>5, DroppingWrite
  <2>7. QED
    BY <1>11, <2>3, <2>6, Same DEF PassOn, tables
<1>12. ASSUME NEW r \in Machines, TablesRace(r) PROVE Rest
  BY <1>12, Same DEF TablesRace, tables, main
<1>13. ASSUME NEW r \in Machines, NEW i \in Ports(r), Flap(r, i) PROVE Rest
  BY <1>13, Same DEF Flap, tables, main
<1>14. ASSUME UNCHANGED vars PROVE Rest
  BY <1>14, Same DEF vars, tables, main
<1>15. Rest
  BY <1>1, <1>2, <1>3, <1>4, <1>5, <1>6, <1>7, <1>8, <1>9, <1>10, <1>11, <1>12, <1>13, <1>14,
     InputAssumption
     DEF Next, MainThread, Working, User
<1>16. QED
  BY <1>a, <1>15 DEF RoutesInv

\* So it holds in every reachable state.
LEMMA RoutesAlways == Spec => []RoutesInv
<1>1. Init => RoutesInv
  BY RoutesInit
<1>2. RoutesInv /\ [Next]_vars => RoutesInv'
  BY RoutesStep
<1>3. QED
  BY <1>1, <1>2, PTL DEF Spec

-----------------------------------------------------------------------------
\* Stored paths are simple walks, in every network and whatever is typed.
THEOREM SimpleWalks == Spec => []RoutesAreSimpleWalks
<1>1. RoutesInv => RoutesAreSimpleWalks
  BY DEF RoutesInv, LearnedOk, TableOk, RouteOk, Sound, RoutesAreSimpleWalks
<1>2. QED
  BY <1>1, RoutesAlways, PTL

\* The export rules compose to the rule they are meant to implement, however
\* long the path.
THEOREM NoTransitForFree == Spec => []NoFreeTransit
<1>1. RoutesInv => NoFreeTransit
  BY DEF RoutesInv, LearnedOk, TableOk, RouteOk, Sound, NoTransit, NoFreeTransit
<1>2. QED
  BY <1>1, RoutesAlways, PTL

\* Every route ends at a machine that owned the prefix or hijacks.
THEOREM GenuineOrigins == Spec => []OriginsAreGenuine
<1>1. ASSUME RoutesInv, NEW r \in Machines, NEW p \in Subnets, NEW x \in learned[r][p]
      PROVE  p \in InitialOwned[Last(x.path)] \/ typed[Last(x.path)]["hijack"] > 0
  <2>1. Sound(p, x.path, Hijackers)
    BY <1>1 DEF RoutesInv, LearnedOk, TableOk, RouteOk
  <2>2. QED
    BY <2>1 DEF Sound, Hijackers, Last
<1>2. RoutesInv => OriginsAreGenuine
  BY <1>1 DEF OriginsAreGenuine
<1>3. QED
  BY <1>2, RoutesAlways, PTL
-----------------------------------------------------------------------------
(***************************************************************************)
(* The order in which routes are printed.  The weights of the score are    *)
(* powers of 1000, so they keep the criteria apart where AS numbers, and   *)
(* with them the lengths of simple walks and the numbers of interfaces,    *)
(* stay below 1000.                                                        *)
(***************************************************************************)

\* No AS number has more than three digits.
ThreeDigits == \A r \in Machines : r < 1000

\* As many machines in a row, none of them twice, as there are numbers.
LEMMA ShortSequences ==
  ASSUME NEW N \in Nat, \A r \in Machines : r < N,
         NEW q \in Seq(Machines), IsInjective(q)
  PROVE  Len(q) <= N
<1>1. Len(q) \in Nat /\ q \in [1 .. Len(q) -> Machines]
  OBVIOUS
<1>2. Machines \subseteq 0 .. N - 1
  BY TopologyAssumption, SMT
<1>3. q \in [1 .. Len(q) -> 0 .. N - 1]
  BY <1>1, <1>2, Zenon
<1>4. q \in Injection(1 .. Len(q), 0 .. N - 1)
  BY <1>1, <1>3 DEF Injection, IsInjective
<1>5. IsFiniteSet(0 .. N - 1) /\ Cardinality(0 .. N - 1) = N
  <2>1. 0 \in Int /\ N - 1 \in Int
    BY SMT
  <2>2. /\ IsFiniteSet(0 .. N - 1)
        /\ Cardinality(0 .. N - 1) = IF 0 > N - 1 THEN 0 ELSE (N - 1) - 0 + 1
    BY <2>1, FS_Interval, Zenon
  <2>3. QED
    BY <2>2, SMT
<1>6. IsFiniteSet(1 .. Len(q)) /\ Cardinality(1 .. Len(q)) = Len(q)
  <2>1. 1 \in Int /\ Len(q) \in Int
    BY <1>1, SMT
  <2>2. /\ IsFiniteSet(1 .. Len(q))
        /\ Cardinality(1 .. Len(q)) = IF 1 > Len(q) THEN 0 ELSE Len(q) - 1 + 1
    BY <2>1, FS_Interval, Zenon
  <2>3. QED
    BY <1>1, <2>2, SMT
<1>7. Cardinality(1 .. Len(q)) <= Cardinality(0 .. N - 1)
  BY <1>4, <1>5, <1>6, FS_Injection, Zenon
<1>8. QED
  BY <1>5, <1>6, <1>7, Zenon

\* Two digits compare like the number they write.
LEMMA DigitsCompare ==
  ASSUME NEW M \in Nat, NEW p \in Int, NEW q \in Int, NEW k \in Nat, NEW l \in Nat,
         k < M, l < M,
         p > q \/ (p = q /\ k > l)
  PROVE  Above(<<p + k \div M, k % M>>, <<q + l \div M, l % M>>)
<1>1. k \div M = 0 /\ k % M = k /\ l \div M = 0 /\ l % M = l
  BY SMT
<1>2. QED
  BY <1>1, SMT DEF Above

\* What a route of length m on interface i to the AS s adds to the weight of its
\* priority, with the weights W * W, W and 1.
Rest(W, m, i, s) == (W * W) * (W - m) + W * (W - (i - 1)) + (W - s)

\* It stays below one unit of the priority.
LEMMA RestIsLess ==
  ASSUME NEW W \in Nat, W = 1000,
         NEW m \in Nat, NEW i \in Nat, NEW s \in Nat,
         1 < m, m <= W, 0 < i, i <= W, s < W
  PROVE  Rest(W, m, i, s) \in Nat /\ Rest(W, m, i, s) < W * W * W
  BY SMT DEF Rest

\* The score, with M = W * W * W.
Digits(M, W, p, m, i, s) ==
  <<p + Rest(W, m, i, s) \div M, Rest(W, m, i, s) % M>>

\* The route of the first of each two measures comes first.
Preferred(M, W, p, q, m, n, i, j, s, t) ==
  /\ W = 1000 /\ M = W * W * W
  /\ 1 < m /\ m <= W /\ 1 < n /\ n <= W
  /\ 0 < i /\ i <= W /\ 0 < j /\ j <= W /\ s < W /\ t < W
  /\ \/ p > q
     \/ p = q /\ m < n
     \/ p = q /\ m = n /\ i < j

\* One criterion after the other.
LEMMA Criteria ==
  ASSUME NEW M \in Nat, NEW W \in Nat,
         NEW p \in Int, NEW q \in Int, NEW m \in Nat, NEW n \in Nat,
         NEW i \in Nat, NEW j \in Nat, NEW s \in Nat, NEW t \in Nat
  PROVE  Preferred(M, W, p, q, m, n, i, j, s, t)
           => Above(Digits(M, W, p, m, i, s), Digits(M, W, q, n, j, t))
<1>1. ASSUME Preferred(M, W, p, q, m, n, i, j, s, t)
      PROVE  Above(Digits(M, W, p, m, i, s), Digits(M, W, q, n, j, t))
  <2> DEFINE k == Rest(W, m, i, s)
             l == Rest(W, n, j, t)
  <2>1. k \in Nat /\ k < M /\ l \in Nat /\ l < M
    BY <1>1, RestIsLess, SMT DEF Preferred
  <2>2. p > q \/ (p = q /\ k > l)
    BY <1>1, SMT DEF Preferred, Rest
  <2>3. Above(<<p + k \div M, k % M>>, <<q + l \div M, l % M>>)
    <3> HIDE DEF k, l
    <3>1. QED
      BY <2>1, <2>2, DigitsCompare, Zenon
  <2>4. QED
    BY <2>3, Zenon DEF Digits
<1>2. QED
  BY <1>1, Zenon

\* Of the routes of one machine the preferred one scores higher.
LEMMA PreferredScoresHigher ==
  ASSUME ThreeDigits, RoutesInv, NEW r \in Machines, NEW p \in Subnets,
         NEW x \in learned[r][p], NEW y \in learned[r][p],
         \/ x.priority > y.priority
         \/ x.priority = y.priority /\ Len(x.path) < Len(y.path)
         \/ x.priority = y.priority /\ Len(x.path) = Len(y.path) /\ x.iface < y.iface
  PROVE  Above(Score(x), Score(y))
<1> DEFINE Bounded(z) ==
      /\ z.priority \in Int /\ Len(z.path) \in Nat /\ z.iface \in Nat /\ z.path[2] \in Nat
      /\ 1 < Len(z.path) /\ Len(z.path) <= 1000
      /\ 0 < z.iface /\ z.iface <= 1000
      /\ z.path[2] < 1000
<1>1. ASSUME NEW z \in learned[r][p] PROVE Bounded(z)
  <2>1. z \in Routes /\ RouteOk(r, p, z, Hijackers)
    <3>1. learned[r][p] \subseteq Routes
      <4>1. learned \in [Machines -> [Subnets -> SUBSET Routes]]
        BY Zenon DEF RoutesInv, TypeOK
      <4>2. QED
        BY <4>1, Zenon
    <3>2. QED
      BY <1>1, <3>1, Zenon DEF RoutesInv, LearnedOk, TableOk
  <2>2. z.path \in Seq(Machines) /\ z.iface \in Nat /\ z.priority \in Int
    BY <2>1, Zenon DEF Routes
  <2>3. IsInjective(z.path) /\ Len(z.path) > 1 /\ z.iface \in Ports(r)
    BY <2>1, Zenon DEF RouteOk, Sound
  <2>4. 1000 \in Nat /\ \A n \in Machines : n < 1000
    BY SMT DEF ThreeDigits
  <2>5. Len(z.path) \in Nat /\ Len(z.path) <= 1000
    BY <2>2, <2>3, <2>4, ShortSequences, SMT
  <2>6. Interfaces[r] \in Seq(Machines) /\ IsInjective(Interfaces[r])
    BY TopologyAssumption, Zenon
  <2>7. Len(Interfaces[r]) \in Nat /\ Len(Interfaces[r]) <= 1000
    BY <2>4, <2>6, ShortSequences, SMT
  <2>8. 0 < z.iface /\ z.iface <= 1000
    BY <2>2, <2>3, <2>7, SMT DEF Ports
  <2>9. z.path[2] \in Machines
    BY <2>2, <2>3, <2>5, SMT
  <2>10. z.path[2] \in Nat /\ z.path[2] < 1000
    <3>1. \A n \in Machines : n \in Nat
      BY TopologyAssumption, Zenon
    <3>2. QED
      BY <2>4, <2>9, <3>1, SMT
  <2>11. QED
    BY <2>2, <2>3, <2>5, <2>8, <2>10, SMT
<1> HIDE DEF Bounded
<1>2. Bounded(x) /\ Bounded(y)
  BY <1>1, Zenon
<1>3. PICK W \in Nat, M \in Nat : W = 1000 /\ M = W * W * W
  BY SMT
<1>4. /\ x.priority \in Int /\ y.priority \in Int
      /\ Len(x.path) \in Nat /\ Len(y.path) \in Nat
      /\ x.iface \in Nat /\ y.iface \in Nat
      /\ x.path[2] \in Nat /\ y.path[2] \in Nat
  BY <1>2, SMT DEF Bounded
<1>5. Preferred(M, W, x.priority, y.priority, Len(x.path), Len(y.path),
                x.iface, y.iface, x.path[2], y.path[2])
  BY <1>2, <1>3, SMT DEF Bounded, Preferred
<1>6. Above(Digits(M, W, x.priority, Len(x.path), x.iface, x.path[2]),
            Digits(M, W, y.priority, Len(y.path), y.iface, y.path[2]))
  BY <1>4, <1>5, Criteria, Zenon
<1>7. ASSUME NEW z
      PROVE  Score(z) = Digits(M, W, z.priority, Len(z.path), z.iface, z.path[2])
  BY <1>3, SMT DEF Score, Digits, Rest
<1>8. QED
  BY <1>6, <1>7, Zenon

\* So printRoutesToPrefix prints the routes in the order it is meant to, as far
\* as their priorities, negative ones included, are within the range in which the
\* double that holds the score is exact (Exact, part of PrintedByPreference), and
\* AS numbers have three digits.
THEOREM PrintedInOrder == ThreeDigits => (Spec => []PrintedByPreference)
<1> SUFFICES ASSUME ThreeDigits PROVE Spec => []PrintedByPreference
  OBVIOUS
<1>1. RoutesInv => PrintedByPreference
  BY PreferredScoresHigher, Zenon DEF PrintedByPreference
<1>2. QED
  BY <1>1, RoutesAlways, PTL
=============================================================================
