------------------------------ MODULE BgpRoutes ------------------------------
(***************************************************************************)
(* The routing half of PA3/user/sm.cpp: what a machine learns from UPDATE  *)
(* frames, what it advertises, and the two threads that work on            *)
(* learned_routes and owned_prefixes with no lock between them.            *)
(*                                                                         *)
(*   the main thread     handle_update_frame, a path at a time once the    *)
(*                       hijack check is passed                            *)
(*   the command thread  advertiseAll, an interface at a time,             *)
(*                       hijackPrefix, withdraw, updateInterfacePriority   *)
(*                                                                         *)
(* A machine is named by its AS number; interface i of machine r leads to  *)
(* machine Interfaces[r][i].  The code keeps the entries of an UPDATE and  *)
(* the routes to a prefix in vectors, whose order decides one thing, which *)
(* route is [0] in the hijack check; here they are sets, stored in any     *)
(* order, and any route may be the one compared.                           *)
(***************************************************************************)
EXTENDS Integers, Sequences, SequencesExt, Functions

CONSTANTS Machines,      \* the AS numbers
          Interfaces,    \* Interfaces[r]: r's neighbours in interface order
          Mode,          \* Mode[r][n]: what n is to r, by interface_infos
          Subnets,       \* the prefixes (prefix_info)
          InitialOwned,  \* InitialOwned[r]: the prefixes r starts with
          Priorities,    \* the priorities a user types, negative ones among them
          Named,         \* bound: Named[r]: the prefixes that are typed at r
          Workloads      \* bound: an event e of r happens w[r][e] times at most,
                         \* for some w of this set

Modes    == {"CUSTOMER", "PROVIDER", "PEER"}
Commands == {"advertise", "hijack", "withdraw", "priority"}

\* What happens from outside: commands, and sessions that come up or go down.
Events == Commands \cup {"flap"}

ASSUME TopologyAssumption ==
  /\ Machines \subseteq Nat
  /\ Interfaces \in [Machines -> Seq(Machines)]
  /\ \A r \in Machines : Interfaces[r] # <<>> /\ IsInjective(Interfaces[r])
  /\ Mode \in [Machines -> [Machines -> Modes]]
ASSUME InputAssumption ==
  /\ InitialOwned \in [Machines -> SUBSET Subnets]
  /\ Priorities \subseteq Int
  /\ Named \in [Machines -> SUBSET Subnets]
  /\ Workloads \subseteq [Machines -> [Events -> Nat]]

Ports(r) == 1 .. Len(Interfaces[r])

Entries == [prefix : Subnets, path : Seq(Machines)]
Routes  == [path : Seq(Machines), iface : Nat, priority : Int]

\* An UPDATE announces entries or withdraws one prefix.
Messages == [announce : SUBSET Entries, withdraw : SUBSET Subnets]
Announcement(entries) == [announce |-> entries, withdraw |-> {}]
Withdrawal(p) == [announce |-> {}, withdraw |-> {p}]

VARIABLES owned,     \* owned_prefixes
          known,     \* the keys of learned_routes
          learned,   \* learned[r][p]: learned_routes[p], {} when p is no key
          held,      \* the keys whose vector has storage, that is has ever held
                     \* a route
          up,        \* up[r]: the interfaces of r that are ESTABLISHED
          net,       \* net[r][n]: the UPDATE frames under way from n to r
          arrived,   \* the interface of the UPDATE the main thread works on
          storing,   \* the entries of it that are still to be stored
          dropping,  \* the withdrawal the main thread works on
          cmd,       \* the command the command thread works on
          alive,     \* the machines whose process has not crashed
          alarms,    \* the prefixes each machine has called hijacked
          typed      \* the events so far, for Workloads

main == <<arrived, storing, dropping>>
tables == <<known, learned, held>>
vars == <<owned, tables, up, net, main, cmd, alive, alarms, typed>>

\* dropping[r]: the prefix, the routes the main thread has decided to keep and
\* the next interface to pass the withdrawal to, 0 before the write.
NoDropping == [prefixes |-> {}, kept |-> {}, next |-> 0]

\* cmd[r]: the next interface and the UPDATE that is about to be sent to it,
\* none while advertiseAll has not built it.
NoCommand == [op |-> "none", next |-> 1, ready |-> {}]

TypeOK ==
  /\ owned \in [Machines -> SUBSET Subnets]
  /\ known \in [Machines -> SUBSET Subnets]
  /\ learned \in [Machines -> [Subnets -> SUBSET Routes]]
  /\ held \in [Machines -> SUBSET Subnets]
  /\ up \in [Machines -> SUBSET Nat]
  /\ net \in [Machines -> [Machines -> Seq(Messages)]]
  /\ arrived \in [Machines -> Nat]
  /\ storing \in [Machines -> SUBSET Entries]
  /\ dropping \in [Machines ->
        [prefixes : SUBSET Subnets, kept : SUBSET Routes, next : Nat]]
  /\ cmd \in [Machines ->
        [op : Commands \cup {"none"}, next : Nat, ready : SUBSET Messages]]
  /\ alive \in SUBSET Machines
  /\ alarms \in [Machines -> SUBSET Subnets]
  /\ typed \in [Machines -> [Events -> Nat]]
  \* Every index into the arrays of interfaces is in range.
  /\ \A r \in Machines :
        up[r] \subseteq Ports(r) /\ arrived[r] \in Ports(r) /\ cmd[r].next \in Ports(r)

\* The routing starts once the sessions are up.
Init ==
  /\ owned = InitialOwned
  /\ known = [r \in Machines |-> {}]
  /\ learned = [r \in Machines |-> [p \in Subnets |-> {}]]
  /\ held = [r \in Machines |-> {}]
  /\ up = [r \in Machines |-> Ports(r)]
  /\ net = [r \in Machines |-> [n \in Machines |-> <<>>]]
  /\ arrived = [r \in Machines |-> 1]
  /\ storing = [r \in Machines |-> {}]
  /\ dropping = [r \in Machines |-> NoDropping]
  /\ cmd = [r \in Machines |-> NoCommand]
  /\ alive = Machines
  /\ alarms = [r \in Machines |-> {}]
  /\ typed = [r \in Machines |-> [e \in Events |-> 0]]

-----------------------------------------------------------------------------
\* The net after r has sent m on interface i.
Sent(r, i, m) == [net EXCEPT ![Interfaces[r][i]][r] = Append(@, m)]

ModeOf(r, i) == Mode[r][Interfaces[r][i]]

-----------------------------------------------------------------------------
(* The command thread.                                                     *)

\* A workload has room for the event e of r.
MayHappen(r, e) == \E w \in Workloads :
  /\ typed[r][e] < w[r][e]
  /\ \A n \in Machines, o \in Events : typed[n][o] <= w[n][o]

Type(r, op) ==
  /\ r \in alive
  /\ cmd[r].op = "none"
  /\ MayHappen(r, op)
  /\ typed' = [typed EXCEPT ![r][op] = @ + 1]

\* Mutant: the loop goes one interface too far.
NextInterfaceBeyond(r, ready) ==
  IF cmd[r].next <= Len(Interfaces[r])
  THEN [cmd[r] EXCEPT !.next = @ + 1, !.ready = ready]
  ELSE NoCommand

\* The loop over the interfaces moves on to the next one, or ends.
NextInterface(r, ready) ==
  IF cmd[r].next < Len(Interfaces[r])
  THEN [cmd[r] EXCEPT !.next = @ + 1, !.ready = ready]
  ELSE NoCommand

\* Mutant: every route goes to everybody.
ExportableAnywhere(r, i, route) == TRUE

\* advertiseAll passes a route on to customers, to a neighbour of another kind
\* than the one it was learned from, and to the one it was learned from.
Exportable(r, i, route) ==
  \/ ModeOf(r, i) = "CUSTOMER"
  \/ ModeOf(r, route.iface) # ModeOf(r, i)
  \/ route.iface = i

\* Mutant: the path of a learned route is not copied.
ExportAsOwner(r, i) ==
  {[prefix |-> p, path |-> <<r>>] : p \in owned[r] \cup known[r]}

Export(r, i) ==
  {[prefix |-> p, path |-> <<r>>] : p \in owned[r]} \cup
  UNION {{[prefix |-> p, path |-> route.path] :
             route \in {x \in learned[r][p] : Exportable(r, i, x)}} : p \in known[r]}

AdvertiseAll(r) ==
  /\ Type(r, "advertise")
  /\ cmd' = [cmd EXCEPT ![r] = [op |-> "advertise", next |-> 1, ready |-> {}]]
  /\ UNCHANGED <<owned, tables, up, net, main, alive, alarms>>

\* One round of its loop: the UPDATE for an interface that is ESTABLISHED is
\* built from the tables, and sent in a later step (SendUpdate).
BuildUpdate(r) ==
  /\ r \in alive
  /\ cmd[r].op = "advertise" /\ cmd[r].ready = {}
  /\ LET i == cmd[r].next IN
     cmd' = [cmd EXCEPT ![r] =
        IF i \in up[r] THEN [@ EXCEPT !.ready = {Announcement(Export(r, i))}]
                       ELSE NextInterface(r, {})]
  /\ UNCHANGED <<owned, tables, up, net, main, alive, alarms, typed>>

\* The same UPDATE goes to every interface, whatever its state.
HijackPrefix(r, p) ==
  /\ Type(r, "hijack")
  /\ cmd' = [cmd EXCEPT ![r] =
        [op |-> "hijack", next |-> 1,
         ready |-> {Announcement({[prefix |-> p, path |-> <<r>>]})}]]
  /\ UNCHANGED <<owned, tables, up, net, main, alive, alarms>>

Withdraw(r, p) ==
  /\ Type(r, "withdraw")
  /\ owned' = [owned EXCEPT ![r] = @ \ {p}]
  /\ known' = [known EXCEPT ![r] = @ \ {p}]
  /\ learned' = [learned EXCEPT ![r][p] = {}]
  /\ held' = [held EXCEPT ![r] = @ \ {p}]
  /\ cmd' = [cmd EXCEPT ![r] =
        [op |-> "withdraw", next |-> 1, ready |-> {Withdrawal(p)}]]
  /\ UNCHANGED <<up, net, main, alive, alarms>>

SendUpdate(r) ==
  /\ r \in alive
  /\ \E m \in cmd[r].ready :
       /\ net' = Sent(r, cmd[r].next, m)
       /\ cmd' = [cmd EXCEPT ![r] =
             NextInterface(r, IF @.op = "advertise" THEN {} ELSE @.ready)]
  /\ UNCHANGED <<owned, tables, up, main, alive, alarms, typed>>

UpdateInterfacePriority(r, i, priority) ==
  /\ Type(r, "priority")
  /\ learned' = [learned EXCEPT ![r] = [p \in Subnets |->
        {IF x.iface = i THEN [x EXCEPT !.priority = priority] ELSE x : x \in @[p]}]]
  /\ UNCHANGED <<owned, known, held, up, net, main, cmd, alive, alarms>>

-----------------------------------------------------------------------------
(* The main thread: handle_update_frame, whatever the interface's state.   *)

AtRest(r) == storing[r] = {} /\ dropping[r] = NoDropping

\* The hijack check compares the origin of an entry with the origin of route
\* [0] to the same prefix.  A prefix that is a key with an empty vector has no
\* route [0].  The read then follows a null pointer, or, in a vector that has
\* held a route, finds what is left of a destroyed one, the old origin or not.
MayCrash(r, e) ==
  e.prefix \in known[r] \ held[r] /\ learned[r][e.prefix] = {}

Remains(r, e) ==
  e.prefix \in held[r] /\ learned[r][e.prefix] = {}

MayTrust(r, e) ==
  \/ e.prefix \notin known[r]
  \/ Remains(r, e)
  \/ \E x \in learned[r][e.prefix] : Last(x.path) = Last(e.path)

MaySuspect(r, e) ==
  \/ Remains(r, e)
  \/ \E x \in learned[r][e.prefix] : Last(x.path) # Last(e.path)

\* An announcement: all its entries are to be stored, or one of them is called
\* hijacked and all are dropped, or the process crashes.
ReceiveAnnouncement(r, i) ==
  /\ r \in alive /\ AtRest(r)
  /\ LET n == Interfaces[r][i] IN
     /\ net[r][n] # <<>>
     /\ Head(net[r][n]).withdraw = {}
     /\ net' = [net EXCEPT ![r][n] = Tail(@)]
     /\ LET entries == Head(net[r][n]).announce IN
        \/ /\ \A e \in entries : MayTrust(r, e)
           /\ arrived' = [arrived EXCEPT ![r] = i]
           /\ storing' = [storing EXCEPT ![r] = entries]
           /\ UNCHANGED <<alive, alarms>>
        \/ \E e \in entries :
           /\ MaySuspect(r, e)
           /\ alarms' = [alarms EXCEPT ![r] = @ \cup {e.prefix}]
           /\ UNCHANGED <<arrived, storing, alive>>
        \/ /\ \E e \in entries : MayCrash(r, e)
           /\ alive' = alive \ {r}
           /\ UNCHANGED <<arrived, storing, alarms>>
  /\ UNCHANGED <<owned, tables, up, dropping, cmd, typed>>

LearnedPriority(mode) ==
  CASE mode = "CUSTOMER" -> 100 [] mode = "PEER" -> 90 [] mode = "PROVIDER" -> 80

\* Mutant: the machine does not look for itself in the path.
StoreLoops(r) ==
  /\ r \in alive
  /\ \E e \in storing[r] :
       /\ storing' = [storing EXCEPT ![r] = @ \ {e}]
       /\ LET path == <<r>> \o e.path IN
          /\ known' = [known EXCEPT ![r] = @ \cup {e.prefix}]
          /\ held' = [held EXCEPT ![r] = @ \cup {e.prefix}]
          /\ learned' = [learned EXCEPT ![r][e.prefix] =
                IF \E x \in @ : x.path = path THEN @
                ELSE @ \cup {[path |-> path, iface |-> arrived[r],
                              priority |-> LearnedPriority(ModeOf(r, arrived[r]))]}]
  /\ UNCHANGED <<owned, up, net, arrived, dropping, cmd, alive, alarms, typed>>

\* An entry whose path holds the machine itself, or that is stored already, is
\* skipped.
Store(r) ==
  /\ r \in alive
  /\ \E e \in storing[r] :
       /\ storing' = [storing EXCEPT ![r] = @ \ {e}]
       /\ IF r \in ToSet(e.path)
          THEN UNCHANGED tables
          ELSE LET path == <<r>> \o e.path IN
               /\ known' = [known EXCEPT ![r] = @ \cup {e.prefix}]
               /\ held' = [held EXCEPT ![r] = @ \cup {e.prefix}]
               /\ learned' = [learned EXCEPT ![r][e.prefix] =
                     IF \E x \in @ : x.path = path THEN @
                     ELSE @ \cup {[path |-> path, iface |-> arrived[r],
                                   priority |-> LearnedPriority(ModeOf(r, arrived[r]))]}]
  /\ UNCHANGED <<owned, up, net, arrived, dropping, cmd, alive, alarms, typed>>

\* A withdrawal: the routes to keep are copied, then written back, and then the
\* frame is passed on to every other interface.
ReceiveWithdrawal(r, i) ==
  /\ r \in alive /\ AtRest(r)
  /\ LET n == Interfaces[r][i] IN
     /\ net[r][n] # <<>>
     /\ net' = [net EXCEPT ![r][n] = Tail(@)]
     /\ \E p \in Head(net[r][n]).withdraw :
          dropping' = [dropping EXCEPT ![r] =
             [prefixes |-> {p}, next |-> 0,
              kept |-> {x \in learned[r][p] : x.iface # i}]]
  /\ arrived' = [arrived EXCEPT ![r] = i]
  /\ UNCHANGED <<owned, tables, up, storing, cmd, alive, alarms, typed>>

\* Mutant: the filtered copy is not written back.
WriteBackForgotten(r) ==
  /\ r \in alive
  /\ dropping[r].next = 0
  /\ dropping[r].prefixes # {}
  /\ dropping' = [dropping EXCEPT ![r] = [@ EXCEPT !.next = 1, !.kept = {}]]
  /\ UNCHANGED <<owned, tables, up, net, arrived, storing, cmd, alive, alarms, typed>>

WriteBack(r) ==
  /\ r \in alive
  /\ dropping[r].next = 0
  /\ \E p \in dropping[r].prefixes :
       /\ known' = [known EXCEPT ![r] = @ \cup {p}]
       /\ learned' = [learned EXCEPT ![r][p] = dropping[r].kept]
       /\ held' = [held EXCEPT ![r] = IF dropping[r].kept = {} THEN @ ELSE @ \cup {p}]
  /\ dropping' = [dropping EXCEPT ![r] = [@ EXCEPT !.next = 1, !.kept = {}]]
  /\ UNCHANGED <<owned, up, net, arrived, storing, cmd, alive, alarms, typed>>

PassOn(r) ==
  /\ r \in alive
  /\ dropping[r].next \in Ports(r)
  /\ LET i == dropping[r].next IN
     /\ \E p \in dropping[r].prefixes :
          net' = IF i = arrived[r] THEN net ELSE Sent(r, i, Withdrawal(p))
     /\ dropping' = [dropping EXCEPT ![r] =
           IF i < Len(Interfaces[r]) THEN [@ EXCEPT !.next = i + 1] ELSE NoDropping]
  /\ UNCHANGED <<owned, tables, up, arrived, storing, cmd, alive, alarms, typed>>

-----------------------------------------------------------------------------
\* Both threads are inside the tables at once and one of them writes: the
\* reader follows a pointer the writer has freed and the process dies.  (A
\* process that lives on with a route lost, or one read twice, is not modelled.)
TablesRace(r) ==
  /\ r \in alive
  /\ storing[r] # {} \/ (dropping[r].prefixes # {} /\ dropping[r].next = 0)
  /\ \/ cmd[r].op = "advertise" /\ cmd[r].ready = {}
     \/ cmd[r].op = "none" /\ \E op \in {"withdraw", "priority"} : MayHappen(r, op)
  /\ alive' = alive \ {r}
  /\ UNCHANGED <<owned, tables, up, net, main, cmd, alarms, typed>>

\* The session on interface i comes up or goes down (BgpSession).  The routes
\* learned on it stay.
Flap(r, i) ==
  /\ r \in alive
  /\ MayHappen(r, "flap")
  /\ up' = [up EXCEPT ![r] = IF i \in @ THEN @ \ {i} ELSE @ \cup {i}]
  /\ typed' = [typed EXCEPT ![r]["flap"] = @ + 1]
  /\ UNCHANGED <<owned, tables, net, main, cmd, alive, alarms>>

-----------------------------------------------------------------------------
MainThread(r) ==
  \/ \E i \in Ports(r) : ReceiveAnnouncement(r, i) \/ ReceiveWithdrawal(r, i)
  \/ Store(r) \/ WriteBack(r) \/ PassOn(r)

\* The steps of a command that has been typed.
Working(r) == BuildUpdate(r) \/ SendUpdate(r)

User(r) ==
  \/ AdvertiseAll(r)
  \/ \E p \in Named[r] : HijackPrefix(r, p) \/ Withdraw(r, p)
  \/ \E i \in Ports(r), priority \in Priorities : UpdateInterfacePriority(r, i, priority)

Next == \E r \in Machines :
  \/ MainThread(r) \/ Working(r) \/ User(r) \/ TablesRace(r)
  \/ \E i \in Ports(r) : Flap(r, i)

Spec == Init /\ [][Next]_vars
-----------------------------------------------------------------------------
(***************************************************************************)
(* Properties                                                              *)
(***************************************************************************)

\* A stored path is a simple walk through the network: it starts at the machine
\* that stores it, leaves on the interface it is stored with and goes from
\* neighbour to neighbour without meeting a machine twice; and no path to a
\* prefix is stored twice.
RoutesAreSimpleWalks ==
  \A r \in Machines, p \in Subnets : \A x \in learned[r][p] :
    /\ Len(x.path) > 1
    /\ x.iface \in Ports(r)
    /\ x.path[1] = r /\ x.path[2] = Interfaces[r][x.iface]
    /\ \A k \in 1 .. Len(x.path) - 1 : x.path[k + 1] \in ToSet(Interfaces[x.path[k]])
    /\ IsInjective(x.path)
    /\ \A y \in learned[r][p] : x.path = y.path => x = y

\* The export rules of advertiseAll compose: however far a path has travelled,
\* no machine on it carries traffic from one of its peers to another or from
\* one of its providers to another.
NoFreeTransit ==
  \A r \in Machines, p \in Subnets : \A x \in learned[r][p] :
    \A k \in 2 .. Len(x.path) - 1 :
      LET carrier == x.path[k] IN
        \/ Mode[carrier][x.path[k - 1]] = "CUSTOMER"
        \/ Mode[carrier][x.path[k - 1]] # Mode[carrier][x.path[k + 1]]

\* A route leads to a machine that owned the prefix to begin with or has
\* hijacked it: the tables mix no prefix with the path of another, in whatever
\* order announcements, withdrawals and commands meet.
OriginsAreGenuine ==
  \A r \in Machines, p \in Subnets : \A x \in learned[r][p] :
    p \in InitialOwned[Last(x.path)] \/ typed[Last(x.path)]["hijack"] > 0

\* Mutant: short paths score low.
ScoreOfLong(x) ==
  LET rest == 1000000 * Len(x.path) + 1000 * (1000 - (x.iface - 1)) + (1000 - x.path[2])
  IN <<x.priority + rest \div 1000000000, rest % 1000000000>>

\* The score of printRoutesToPrefix is
\*   1e9 * priority + 1e6 * (1000 - length) + 1e3 * (1000 - interface)
\*                  + (1000 - second AS),
\* here in two digits of base 10^9; interfaces count from 0 in the code.
Score(x) ==
  LET rest == 1000000 * (1000 - Len(x.path)) + 1000 * (1000 - (x.iface - 1))
                + (1000 - x.path[2])
  IN <<x.priority + rest \div 1000000000, rest % 1000000000>>

Above(s, t) == s[1] > t[1] \/ (s[1] = t[1] /\ s[2] > t[2])

\* The code adds the score up in a double.  That is the Score above while the sum
\* stays below 2^53, which it does for these priorities; beyond them, and std::stoi
\* reads priorities up to 2^31 - 1, sums are rounded and the last two criteria may
\* be lost.
Exact(x) == x.priority \in -9000000 .. 9000000

\* The weights keep the criteria apart: the routes to a prefix are printed by
\* priority, then by length, then by interface (printRoutesToPrefix), as long as
\* the double that holds the score is exact.
PrintedByPreference ==
  \A r \in Machines, p \in Subnets : \A x, y \in learned[r][p] :
    ( /\ Exact(x) /\ Exact(y)
      /\ \/ x.priority > y.priority
         \/ x.priority = y.priority /\ Len(x.path) < Len(y.path)
         \/ x.priority = y.priority /\ Len(x.path) = Len(y.path) /\ x.iface < y.iface )
    => Above(Score(x), Score(y))

\* Nothing is under way: no frame, no handler and no command.
Quiet ==
  /\ alive = Machines
  /\ \A r, n \in Machines : net[r][n] = <<>>
  /\ \A r \in Machines : AtRest(r) /\ cmd[r] = NoCommand

\* handle_update_frame, says desgin_documnet_pa3.md, removes the routes that are
\* withdrawn and passes the withdrawal on to the other ASes.  So once a prefix
\* has no owner left and its withdrawal has gone round, nobody has a route to it
\* (unless somebody hijacks it).  This holds between two machines: the frames of
\* a machine leave in the order of its commands.  With a third it does not: the
\* UPDATE advertiseAll has built from the tables leaves after the withdrawal the
\* main thread has passed on meanwhile.
NoGhostRoutes ==
  (Quiet /\ \A r \in Machines : typed[r]["hijack"] = 0) =>
    \A p \in Subnets :
      (\A r \in Machines : p \notin owned[r]) => \A r \in Machines : learned[r][p] = {}

\* desgin_documnet_pa3.md: handle_update_frame announces a hijack it detects.  So
\* a machine should not store routes to two origins of one prefix without having
\* announced one.
HijacksAreAnnounced ==
  \A r \in Machines, p \in Subnets : \A x, y \in learned[r][p] :
    Last(x.path) # Last(y.path) => p \in alarms[r]
=============================================================================
