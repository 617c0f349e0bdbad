----------------------------- MODULE BgpPairProofs -----------------------------
(***************************************************************************)
(* Two machines, each the only neighbour of the other, leave no ghost of a *)
(* prefix behind: proof of NoGhostRoutes for networks of such pairs.  It   *)
(* uses the inductive invariant of BgpRoutesProofs.                        *)
(*                                                                         *)
(* From the moment n has no right to prefix p, one of four things holds of *)
(* it in r, and each leads to the next: the withdrawal of p is about to    *)
(* leave n; it is under way, behind whatever told r of p; r is handling    *)
(* it; or r has no route to p and is told of none.                         *)
(***************************************************************************)
EXTENDS BgpRoutesProofs

\* Each is the only neighbour of the other.
Pair(r, n) ==
  /\ r \in Machines /\ n \in Machines /\ r # n
  /\ Interfaces[r] = <<n>> /\ Interfaces[n] = <<r>>

\* r would store an entry of this announcement as a route to p.
Fresh(r, p, entries) == \E e \in entries : e.prefix = p /\ r \notin ToSet(e.path)

\* These UPDATEs tell r no route to p;
StaleAll(r, p, ms) == \A m \in ms : ~Fresh(r, p, m.announce)
\* nor do those of q from the k-th on.
StaleFrom(r, p, q, k) == \A j \in k .. Len(q) : ~Fresh(r, p, q[j].announce)

\* The four stages.  The command thread of n has the withdrawal ready.
AboutToLeave(p, ready) == ready = {Withdrawal(p)}

\* It is in the channel, and nothing behind it takes it back.
UnderWay(r, p, ready, q) ==
  /\ StaleAll(r, p, ready)
  /\ \E k \in 1 .. Len(q) : q[k] = Withdrawal(p) /\ StaleFrom(r, p, q, k + 1)

\* The main thread of r is between reading its table and writing it back.
BeingHandled(r, p, ready, q, entries, drop) ==
  /\ StaleAll(r, p, ready) /\ StaleFrom(r, p, q, 1)
  /\ entries = {}
  /\ drop.prefixes = {p} /\ drop.next = 0

\* r has no route, nor will it get one.
Forgotten(r, p, ready, q, entries, routes) ==
  /\ StaleAll(r, p, ready) /\ StaleFrom(r, p, q, 1)
  /\ ~Fresh(r, p, entries)
  /\ routes = {}

\* What n is about to send, the UPDATEs under way to r and what r's main thread
\* has in hand agree with n having no right to p.
Gone(r, p, ready, q, entries, drop, routes) ==
  \/ AboutToLeave(p, ready)
  \/ UnderWay(r, p, ready, q)
  \/ BeingHandled(r, p, ready, q, entries, drop)
  \/ Forgotten(r, p, ready, q, entries, routes)

\* n neither owns nor hijacks p.
Orphan(n, p) == typed[n]["hijack"] = 0 /\ p \notin owned[n]

\* The same of the present state.
GoneFrom(r, n, p) ==
  Gone(r, p, cmd[n].ready, net[r][n], storing[r], dropping[r], learned[r][p])

\* The inductive invariant of a pair: nothing is ever kept when a withdrawal is
\* handled, a thread at rest has nothing ready, and p is gone once it is orphaned.
PairOk(r, n) ==
  /\ dropping[r].kept = {}
  /\ cmd[n].op = "none" => cmd[n].ready = {}
  /\ \A p \in Subnets : Orphan(n, p) => GoneFrom(r, n, p)

\* Machines of a pair have one interface.
LEMMA PairPorts ==
  ASSUME NEW r, NEW n, Pair(r, n)
  PROVE  /\ Len(Interfaces[r]) = 1 /\ Interfaces[r][1] = n /\ \A i \in Ports(r) : i = 1
         /\ Len(Interfaces[n]) = 1 /\ Interfaces[n][1] = r /\ \A i \in Ports(n) : i = 1
<1>1. Len(<<n>>) = 1 /\ <<n>>[1] = n /\ Len(<<r>>) = 1 /\ <<r>>[1] = r
  OBVIOUS
<1>2. \A i \in 1 .. 1 : i = 1
  BY SMT
<1>3. QED
  BY <1>1, <1>2, Zenon DEF Pair, Ports

\* A withdrawal tells no route.
LEMMA WithdrawalIsStale ==
  \A r, p, w : ~Fresh(r, p, Withdrawal(w).announce) /\ Withdrawal(w).withdraw = {w}
BY DEF Fresh, Withdrawal

\* What is known of messages that are appended to a channel.
LEMMA AppendStale ==
  ASSUME NEW r, NEW p, NEW q \in Seq(Messages), NEW m \in Messages, NEW k \in Nat, k > 0,
         StaleFrom(r, p, q, k), ~Fresh(r, p, m.announce)
  PROVE  StaleFrom(r, p, Append(q, m), k)
<1> SUFFICES ASSUME NEW j \in k .. Len(Append(q, m))
             PROVE  ~Fresh(r, p, Append(q, m)[j].announce)
  BY Zenon DEF StaleFrom
<1>1. \/ j \in k .. Len(q) /\ (j > 0 => Append(q, m)[j] = q[j])
      \/ j = Len(q) + 1 /\ Append(q, m)[j] = m
  BY SMT
<1>2. QED
  BY <1>1 DEF StaleFrom

\* n sends what it had ready.
LEMMA SendGone ==
  ASSUME NEW r, NEW p, NEW ready \in SUBSET Messages, NEW q \in Seq(Messages),
         NEW m \in ready, NEW entries, NEW drop, NEW routes,
         Gone(r, p, ready, q, entries, drop, routes)
  PROVE  Gone(r, p, {}, Append(q, m), entries, drop, routes)
<1>1. StaleAll(r, p, {})
  BY Zenon DEF StaleAll
<1>2. m \in Messages /\ Len(q) \in Nat /\ 1 > 0 /\ 1 \in Nat
  BY SMT
<1>3. \A k \in 1 .. Len(q) : k \in Nat /\ k + 1 \in Nat /\ k + 1 > 0
  BY <1>2, SMT
<1>4. \A k \in 1 .. Len(q) : k \in 1 .. Len(Append(q, m)) /\ Append(q, m)[k] = q[k]
  BY <1>2, SMT
<1>5. CASE AboutToLeave(p, ready)
  <2>1. m = Withdrawal(p)
    BY <1>5, Zenon DEF AboutToLeave
  <2>2. /\ Len(q) + 1 \in 1 .. Len(Append(q, m))
        /\ Append(q, m)[Len(q) + 1] = m
        /\ Len(Append(q, m)) = Len(q) + 1
    BY <1>2, SMT
  <2>3. StaleFrom(r, p, Append(q, m), Len(q) + 1 + 1)
    BY <1>2, <2>2, SMT DEF StaleFrom
  <2>4. QED
    BY <1>1, <2>1, <2>2, <2>3, Zenon DEF Gone, UnderWay
<1>6. ASSUME StaleAll(r, p, ready), NEW k \in Nat, k > 0, StaleFrom(r, p, q, k)
      PROVE  StaleFrom(r, p, Append(q, m), k)
  <2>1. ~Fresh(r, p, m.announce)
    BY <1>6, Zenon DEF StaleAll
  <2>2. QED
    BY <1>2, <1>6, <2>1, AppendStale, Zenon
<1>7. CASE UnderWay(r, p, ready, q)
  <2>1. StaleAll(r, p, ready)
    BY <1>7, Zenon DEF UnderWay
  <2>2. PICK k \in 1 .. Len(q) : q[k] = Withdrawal(p) /\ StaleFrom(r, p, q, k + 1)
    BY <1>7, Zenon DEF UnderWay
  <2>3. StaleFrom(r, p, Append(q, m), k + 1)
    BY <1>3, <1>6, <2>1, <2>2, Zenon
  <2>4. QED
    BY <1>1, <1>4, <2>2, <2>3, Zenon DEF Gone, UnderWay
<1>8. CASE BeingHandled(r, p, ready, q, entries, drop)
  BY <1>1, <1>2, <1>6, <1>8, Zenon DEF Gone, BeingHandled
<1>9. CASE Forgotten(r, p, ready, q, entries, routes)
  BY <1>1, <1>2, <1>6, <1>9, Zenon DEF Gone, Forgotten
<1>10. QED
  BY <1>5, <1>7, <1>8, <1>9, Zenon DEF Gone

\* n makes something else ready that does not tell of p.
LEMMA ReadyGone ==
  ASSUME NEW r, NEW p, NEW ready, NEW q, NEW entries, NEW drop, NEW routes,
         Gone(r, p, {}, q, entries, drop, routes), StaleAll(r, p, ready)
  PROVE  Gone(r, p, ready, q, entries, drop, routes)
<1>1. ~AboutToLeave(p, {})
  BY Zenon DEF AboutToLeave
<1>2. QED
  BY <1>1, Zenon DEF Gone, UnderWay, BeingHandled, Forgotten

\* Taking the head of a channel.
LEMMA TailStale ==
  ASSUME NEW r, NEW p, NEW q \in Seq(Messages), q # <<>>, NEW k \in Nat, k > 0
  PROVE  /\ StaleFrom(r, p, q, k + 1) => StaleFrom(r, p, Tail(q), k)
         /\ StaleFrom(r, p, q, k) => StaleFrom(r, p, Tail(q), k)
<1>1. Len(q) \in Nat /\ Len(Tail(q)) = Len(q) - 1
  BY SMT
<1>2. ASSUME NEW j \in k .. Len(Tail(q))
      PROVE  j + 1 \in k .. Len(q) /\ j + 1 \in k + 1 .. Len(q) /\ Tail(q)[j] = q[j + 1]
  BY <1>1, SMT
<1>3. QED
  BY <1>2, Zenon DEF StaleFrom

\* r takes an announcement and keeps its entries or drops them.
LEMMA AnnouncementGone ==
  ASSUME NEW r, NEW p, NEW ready, NEW q \in Seq(Messages), q # <<>>,
         Head(q).withdraw = {}, NEW entries \in {{}, Head(q).announce}, NEW routes,
         Gone(r, p, ready, q, {}, NoDropping, routes)
  PROVE  Gone(r, p, ready, Tail(q), entries, NoDropping, routes)
<1>1. Head(q) = q[1] /\ 1 \in 1 .. Len(q) /\ 1 \in Nat /\ 1 > 0
  BY SMT
<1>2. ASSUME NEW k \in 1 .. Len(q), k # 1
      PROVE  /\ k - 1 \in 1 .. Len(Tail(q)) /\ Tail(q)[k - 1] = q[k] /\ (k - 1) + 1 = k
             /\ k \in Nat /\ k > 0
  <2>1. Len(q) \in Nat /\ Len(Tail(q)) = Len(q) - 1
    BY SMT
  <2>2. k - 1 \in 1 .. Len(Tail(q)) /\ (k - 1) + 1 = k /\ k \in Nat /\ k > 0
    BY <1>2, <2>1, SMT
  <2>3. Tail(q)[k - 1] = q[(k - 1) + 1]
    BY <2>1, <2>2, SMT
  <2>4. QED
    BY <2>2, <2>3, Zenon
<1>3. CASE UnderWay(r, p, ready, q)
  <2>1. PICK k \in 1 .. Len(q) : q[k] = Withdrawal(p) /\ StaleFrom(r, p, q, k + 1)
    BY <1>3, Zenon DEF UnderWay
  <2>2. k # 1
    <3>1. Withdrawal(p).withdraw = {p} /\ p \in {p}
      BY WithdrawalIsStale, Zenon
    <3>2. QED
      BY <1>1, <2>1, <3>1, Zenon
  <2>3. StaleFrom(r, p, Tail(q), (k - 1) + 1)
    BY <1>2, <2>1, <2>2, TailStale, Zenon
  <2>4. QED
    BY <1>2, <1>3, <2>1, <2>2, <2>3, Zenon DEF Gone, UnderWay
<1>4. ~BeingHandled(r, p, ready, q, {}, NoDropping)
  BY SMT DEF BeingHandled, NoDropping
<1>5. CASE Forgotten(r, p, ready, q, {}, routes)
  <2>1. StaleFrom(r, p, Tail(q), 1)
    BY <1>1, <1>5, TailStale, Zenon DEF Forgotten
  <2>2. ~Fresh(r, p, Head(q).announce) /\ ~Fresh(r, p, {})
    BY <1>1, <1>5, Zenon DEF Forgotten, StaleFrom, Fresh
  <2>3. ~Fresh(r, p, entries)
    BY <2>2, Zenon
  <2>4. QED
    BY <1>5, <2>1, <2>3, Zenon DEF Gone, Forgotten
<1>6. QED
  BY <1>3, <1>4, <1>5, Zenon DEF Gone

\* r takes a withdrawal: if it is the one of p, it handles it.
LEMMA WithdrawalGone ==
  ASSUME NEW r, NEW p, NEW ready, NEW q \in Seq(Messages), q # <<>>,
         NEW w, w \in Head(q).withdraw, NEW drop, NEW routes,
         drop.prefixes = {w}, drop.next = 0,
         Gone(r, p, ready, q, {}, NoDropping, routes)
  PROVE  Gone(r, p, ready, Tail(q), {}, drop, routes)
<1>1. Head(q) = q[1] /\ 1 \in 1 .. Len(q) /\ 1 \in Nat /\ 1 > 0
  BY SMT
<1>2. CASE UnderWay(r, p, ready, q)
  <2>1. PICK k \in 1 .. Len(q) : q[k] = Withdrawal(p) /\ StaleFrom(r, p, q, k + 1)
    BY <1>2, Zenon DEF UnderWay
  <2>2. CASE k = 1
    <3>1. w = p
      <4>1. Head(q).withdraw = {p}
        BY <1>1, <2>1, <2>2, WithdrawalIsStale, Zenon
      <4>2. QED
        BY <4>1, Zenon
    <3>2. StaleFrom(r, p, Tail(q), 1)
      BY <1>1, <2>1, <2>2, TailStale, Zenon
    <3>3. QED
      BY <1>2, <3>1, <3>2, Zenon DEF Gone, UnderWay, BeingHandled
  <2>3. CASE k # 1
    <3>1. Len(q) \in Nat /\ Len(Tail(q)) = Len(q) - 1
      BY SMT
    <3>2. k - 1 \in 1 .. Len(Tail(q)) /\ (k - 1) + 1 = k /\ k \in Nat /\ k > 0
      BY <2>3, <3>1, SMT
    <3>3. Tail(q)[k - 1] = q[(k - 1) + 1]
      BY <3>1, <3>2, SMT
    <3>4. StaleFrom(r, p, Tail(q), (k - 1) + 1)
      BY <2>1, <3>2, TailStale, Zenon
    <3>5. QED
      BY <1>2, <2>1, <3>2, <3>3, <3>4, Zenon DEF Gone, UnderWay
  <2>4. QED
    BY <2>2, <2>3, Zenon
<1>3. ~BeingHandled(r, p, ready, q, {}, NoDropping)
  BY SMT DEF BeingHandled, NoDropping
<1>4. CASE Forgotten(r, p, ready, q, {}, routes)
  <2>1. StaleFrom(r, p, Tail(q), 1)
    BY <1>1, <1>4, TailStale, Zenon DEF Forgotten
  <2>2. QED
    BY <1>4, <2>1, Zenon DEF Gone, Forgotten
<1>5. QED
  BY <1>2, <1>3, <1>4, Zenon DEF Gone

\* r stores an entry, or skips it.
LEMMA StoreGone ==
  ASSUME NEW r, NEW p, NEW ready, NEW q, NEW entries, NEW drop, NEW routes,
         NEW e \in entries, NEW after,
         after = routes \/ (e.prefix = p /\ r \notin ToSet(e.path)),
         Gone(r, p, ready, q, entries, drop, routes)
  PROVE  Gone(r, p, ready, q, entries \ {e}, drop, after)
<1>1. CASE Forgotten(r, p, ready, q, entries, routes)
  <2>1. ~Fresh(r, p, entries \ {e})
    BY <1>1, Zenon DEF Forgotten, Fresh
  <2>2. after = routes
    BY <1>1, Zenon DEF Forgotten, Fresh
  <2>3. QED
    BY <1>1, <2>1, <2>2, Zenon DEF Gone, Forgotten
<1>2. entries # {}
  BY Zenon
<1>3. QED
  BY <1>1, <1>2, Zenon DEF Gone, BeingHandled

\* r writes the routes it keeps back: none, of p.
LEMMA WriteBackGone ==
  ASSUME NEW r, NEW p, NEW ready, NEW q, NEW entries, NEW drop, NEW routes,
         NEW w \in drop.prefixes, NEW done, NEW after, after = IF w = p THEN {} ELSE routes,
         Gone(r, p, ready, q, entries, drop, routes)
  PROVE  Gone(r, p, ready, q, entries, done, after)
<1>1. CASE BeingHandled(r, p, ready, q, entries, drop)
  <2>1. w = p
    BY <1>1, Zenon DEF BeingHandled
  <2>2. ~Fresh(r, p, entries)
    BY <1>1, Zenon DEF BeingHandled, Fresh
  <2>3. QED
    BY <1>1, <2>1, <2>2, Zenon DEF Gone, BeingHandled, Forgotten
<1>2. CASE Forgotten(r, p, ready, q, entries, routes)
  BY <1>2, Zenon DEF Gone, Forgotten
<1>3. QED
  BY <1>1, <1>2, Zenon DEF Gone

\* r has nothing left to write, or changes routes without adding one.
LEMMA OthersGone ==
  ASSUME NEW r, NEW p, NEW ready, NEW q, NEW entries, NEW drop, NEW routes, NEW done, NEW after,
         drop = done \/ drop.next # 0, routes = {} => after = {},
         Gone(r, p, ready, q, entries, drop, routes)
  PROVE  Gone(r, p, ready, q, entries, done, after)
BY Zenon DEF Gone, BeingHandled, Forgotten

\* n, who is no owner of p, exports no route to p that r would store: the
\* routes n has all lead through r.
LEMMA ExportIsStale ==
  ASSUME RoutesInv, NEW r, NEW n, Pair(r, n), NEW p \in Subnets, p \notin owned[n]
  PROVE  ~Fresh(r, p, Export(n, 1))
<1> SUFFICES ASSUME NEW e \in Export(n, 1), e.prefix = p PROVE r \in ToSet(e.path)
  BY Zenon DEF Fresh
<1>1. PICK x \in learned[n][p] : e.path = x.path
  <2>1. CASE e \in {[prefix |-> w, path |-> <<n>>] : w \in owned[n]}
    <3>1. PICK w \in owned[n] : e = [prefix |-> w, path |-> <<n>>]
      BY <2>1, Zenon
    <3>2. e.prefix = w
      BY <3>1, SMT
    <3>3. QED
      BY <3>1, <3>2, Zenon
  <2>2. ASSUME NEW w \in known[n],
               e \in {[prefix |-> w, path |-> route.path] :
                        route \in {x \in learned[n][w] : Exportable(n, 1, x)}}
        PROVE  \E x \in learned[n][p] : e.path = x.path
    <3>1. PICK x \in learned[n][w] : e = [prefix |-> w, path |-> x.path]
      BY <2>2, Zenon
    <3>2. e.prefix = w /\ e.path = x.path
      BY <3>1, SMT
    <3>3. QED
      BY <3>1, <3>2, Zenon
  <2>3. QED
    BY <2>1, <2>2, Zenon DEF Export
<1>2. n \in Machines /\ learned[n][p] \in SUBSET Routes
  BY SMT DEF Pair, RoutesInv, TypeOK
<1>3. RouteOk(n, p, x, Hijackers) /\ x.path \in Seq(Machines)
  BY <1>1, <1>2, Zenon DEF RoutesInv, LearnedOk, TableOk, Routes
<1>4. x.path[2] = r /\ Len(x.path) > 1
  BY <1>3, PairPorts, Zenon DEF RouteOk
<1>5. 2 \in 1 .. Len(x.path)
  BY <1>3, <1>4, SMT
<1>6. QED
  BY <1>1, <1>3, <1>4, <1>5, SMT DEF ToSet

-----------------------------------------------------------------------------
(***************************************************************************)
(* What a step of a machine does to a pair.                                *)
(***************************************************************************)

\* The right to a prefix is not regained.
LEMMA OrphanBefore ==
  ASSUME TypeOK, [Next]_vars, NEW n \in Machines, NEW p, owned'[n] = owned[n], Orphan(n, p)'
  PROVE  Orphan(n, p)
<1>1. "hijack" \in Events
  BY DEF Events, Commands
<1>2. typed'[n]["hijack"] >= typed[n]["hijack"]
  BY <1>1, TypedStep, Zenon
<1>3. typed[n]["hijack"] \in Nat
  BY <1>1, SMT DEF TypeOK
<1>4. typed'[n]["hijack"] = 0 /\ p \notin owned'[n]
  BY Zenon DEF Orphan
<1>5. QED
  BY <1>2, <1>3, <1>4, SMT DEF Orphan

\* What remains to be shown of most steps.
LEMMA PairIntro ==
  ASSUME RoutesInv, [Next]_vars, NEW r, NEW n, Pair(r, n), PairOk(r, n),
         dropping'[r].kept = {}, cmd'[n].op = "none" => cmd'[n].ready = {},
         owned'[n] = owned[n],
         \A p \in Subnets : Orphan(n, p) /\ Orphan(n, p)' /\ GoneFrom(r, n, p) => GoneFrom(r, n, p)'
  PROVE  PairOk(r, n)'
<1> SUFFICES ASSUME NEW p \in Subnets, Orphan(n, p)' PROVE GoneFrom(r, n, p)'
  BY Zenon DEF PairOk
<1>1. Orphan(n, p)
  BY OrphanBefore, Zenon DEF RoutesInv, Pair
<1>2. QED
  BY <1>1, Zenon DEF PairOk

\* The main thread of r has done nothing that adds a route.
LEMMA PairMain ==
  ASSUME RoutesInv, [Next]_vars, NEW r, NEW n, Pair(r, n), PairOk(r, n),
         cmd'[n] = cmd[n], owned'[n] = owned[n],
         net'[r][n] = net[r][n], storing'[r] = storing[r], dropping'[r] = dropping[r],
         \A p \in Subnets : learned[r][p] = {} => learned'[r][p] = {}
  PROVE  PairOk(r, n)'
<1>1. ASSUME NEW p \in Subnets, GoneFrom(r, n, p) PROVE GoneFrom(r, n, p)'
  <2>1. learned[r][p] = {} => learned'[r][p] = {}
    BY Zenon
  <2>2. Gone(r, p, cmd[n].ready, net[r][n], storing[r], dropping[r], learned[r][p])
    BY <1>1, Zenon DEF GoneFrom
  <2>3. Gone(r, p, cmd[n].ready, net[r][n], storing[r], dropping[r], learned'[r][p])
    BY <2>1, <2>2, OthersGone, Zenon
  <2>4. QED
    BY <2>3, Zenon DEF GoneFrom
<1>2. /\ dropping'[r].kept = {}
      /\ cmd'[n].op = "none" => cmd'[n].ready = {}
  BY Zenon DEF PairOk
<1>3. QED
  BY <1>1, <1>2, PairIntro, Zenon

\* The command thread of n, with nothing ready, has made something ready that
\* does not tell of a prefix n has no right to, or nothing.
LEMMA PairReady ==
  ASSUME RoutesInv, [Next]_vars, NEW r, NEW n, Pair(r, n), PairOk(r, n),
         cmd[n].ready = {}, cmd'[n].op = "none" => cmd'[n].ready = {},
         owned'[n] = owned[n],
         \A p \in Subnets : Orphan(n, p) /\ Orphan(n, p)' => StaleAll(r, p, cmd'[n].ready),
         net'[r][n] = net[r][n], storing'[r] = storing[r], dropping'[r] = dropping[r],
         learned'[r] = learned[r]
  PROVE  PairOk(r, n)'
<1>1. ASSUME NEW p \in Subnets, Orphan(n, p), Orphan(n, p)', GoneFrom(r, n, p)
      PROVE  GoneFrom(r, n, p)'
  <2>1. StaleAll(r, p, cmd'[n].ready)
    BY <1>1, Zenon
  <2>2. Gone(r, p, {}, net[r][n], storing[r], dropping[r], learned[r][p])
    BY <1>1, Zenon DEF GoneFrom
  <2>3. Gone(r, p, cmd'[n].ready, net[r][n], storing[r], dropping[r], learned[r][p])
    BY <2>1, <2>2, ReadyGone, Zenon
  <2>4. QED
    BY <2>3, Zenon DEF GoneFrom
<1>2. dropping'[r].kept = {}
  BY Zenon DEF PairOk
<1>3. QED
  BY <1>1, <1>2, PairIntro, Zenon

\* A command of a machine goes round its interfaces, of which a machine of a pair
\* has one.
LEMMA OneRound ==
  ASSUME RoutesInv, NEW r, NEW n, Pair(r, n), NEW ready
  PROVE  cmd[n].next = 1 /\ NextInterface(n, ready) = NoCommand
<1>1. n \in Machines /\ Len(Interfaces[n]) = 1 /\ \A i \in Ports(n) : i = 1
  BY PairPorts, Zenon DEF Pair
<1>2. cmd[n].next = 1
  BY <1>1, Zenon DEF RoutesInv, TypeOK
<1>3. ~(cmd[n].next < Len(Interfaces[n]))
  BY <1>1, <1>2, SMT
<1>4. QED
  BY <1>2, <1>3, Zenon DEF NextInterface

\* advertiseAll is typed, and has not built anything yet.
LEMMA PairAdvertise ==
  ASSUME RoutesInv, [Next]_vars, NEW r, NEW n, Pair(r, n), PairOk(r, n),
         NEW a \in Machines, AdvertiseAll(a)
  PROVE  PairOk(r, n)'
<1>1. /\ owned' = owned /\ learned' = learned /\ net' = net
      /\ storing' = storing /\ dropping' = dropping
  BY Zenon DEF AdvertiseAll, tables, main
<1>2. n \in Machines /\ cmd[a].op = "none"
  BY Zenon DEF Pair, AdvertiseAll, Type
<1>3. CASE a = n
  <2>1. cmd'[n].op = "advertise" /\ cmd'[n].ready = {}
    BY <1>2, <1>3, SMT DEF AdvertiseAll, RoutesInv, TypeOK
  <2>2. cmd[n].ready = {}
    BY <1>2, <1>3, Zenon DEF PairOk
  <2>3. \A p : StaleAll(r, p, cmd'[n].ready)
    BY <2>1, Zenon DEF StaleAll
  <2>4. QED
    BY <1>1, <2>1, <2>2, <2>3, PairReady, Zenon
<1>4. CASE a # n
  <2>1. cmd'[n] = cmd[n]
    BY <1>2, <1>4, SMT DEF AdvertiseAll, RoutesInv, TypeOK
  <2>2. QED
    BY <1>1, <2>1, PairMain, Zenon
<1>5. QED
  BY <1>3, <1>4, Zenon

\* An UPDATE is built from the tables of a.
LEMMA PairBuild ==
  ASSUME RoutesInv, [Next]_vars, NEW r, NEW n, Pair(r, n), PairOk(r, n),
         NEW a \in Machines, BuildUpdate(a)
  PROVE  PairOk(r, n)'
<1>1. /\ owned' = owned /\ learned' = learned /\ net' = net
      /\ storing' = storing /\ dropping' = dropping
  BY Zenon DEF BuildUpdate, tables, main
<1>2. n \in Machines /\ cmd[a].op = "advertise" /\ cmd[a].ready = {}
  BY Zenon DEF Pair, BuildUpdate
<1>t. cmd \in [Machines -> [op : Commands \cup {"none"}, next : Nat, ready : SUBSET Messages]]
  BY Zenon DEF RoutesInv, TypeOK
<1>3. CASE a = n
  <2>1. cmd[n].next = 1 /\ NextInterface(n, {}) = NoCommand
    BY OneRound, Zenon
  <2>2. \/ cmd'[n] = [cmd[n] EXCEPT !.ready = {Announcement(Export(n, 1))}]
        \/ cmd'[n] = NoCommand
    BY <1>2, <1>3, <1>t, <2>1, SMT DEF BuildUpdate
  <2>3. \/ cmd'[n].op = "advertise" /\ cmd'[n].ready = {Announcement(Export(n, 1))}
        \/ cmd'[n].op = "none" /\ cmd'[n].ready = {}
    BY <1>2, <1>3, <1>t, <2>2, SMT DEF NoCommand
  <2>4. ASSUME NEW p \in Subnets, Orphan(n, p) PROVE StaleAll(r, p, cmd'[n].ready)
    <3>1. ~Fresh(r, p, Export(n, 1))
      BY <2>4, ExportIsStale, Zenon DEF Orphan
    <3>2. Announcement(Export(n, 1)).announce = Export(n, 1)
      BY SMT DEF Announcement
    <3>3. QED
      BY <2>3, <3>1, <3>2, Zenon DEF StaleAll
  <2>5. cmd'[n].op = "none" => cmd'[n].ready = {}
    BY <2>3, SMT
  <2>6. QED
    BY <1>1, <1>2, <1>3, <2>4, <2>5, PairReady, Zenon
<1>4. CASE a # n
  <2>1. cmd'[n] = cmd[n]
    BY <1>2, <1>4, <1>t, SMT DEF BuildUpdate
  <2>2. QED
    BY <1>1, <2>1, PairMain, Zenon
<1>5. QED
  BY <1>3, <1>4, Zenon

\* A hijack takes the right away that an orphan has not.
LEMMA PairHijack ==
  ASSUME RoutesInv, [Next]_vars, NEW r, NEW n, Pair(r, n), PairOk(r, n),
         NEW a \in Machines, NEW w \in Subnets, HijackPrefix(a, w)
  PROVE  PairOk(r, n)'
<1>1. /\ owned' = owned /\ learned' = learned /\ net' = net
      /\ storing' = storing /\ dropping' = dropping
  BY Zenon DEF HijackPrefix, tables, main
<1>2. n \in Machines /\ cmd[a].op = "none" /\ typed' = [typed EXCEPT ![a]["hijack"] = @ + 1]
  BY Zenon DEF Pair, HijackPrefix, Type
<1>t. cmd \in [Machines -> [op : Commands \cup {"none"}, next : Nat, ready : SUBSET Messages]]
  BY Zenon DEF RoutesInv, TypeOK
<1>3. CASE a = n
  <2>1. cmd'[n].op = "hijack"
    BY <1>2, <1>3, <1>t, SMT DEF HijackPrefix
  <2>2. cmd[n].ready = {}
    BY <1>2, <1>3, Zenon DEF PairOk
  <2>3. typed'[n]["hijack"] # 0
    <3>1. typed \in [Machines -> [Events -> Nat]] /\ "hijack" \in Events
      BY SMT DEF RoutesInv, TypeOK, Events, Commands
    <3>2. QED
      BY <1>2, <1>3, <3>1, SMT
  <2>4. \A p : ~Orphan(n, p)'
    BY <2>3, Zenon DEF Orphan
  <2>5. cmd'[n].op = "none" => cmd'[n].ready = {}
    BY <2>1, SMT
  <2>6. QED
    BY <1>1, <2>2, <2>4, <2>5, PairReady, Zenon
<1>4. CASE a # n
  <2>1. cmd'[n] = cmd[n]
    BY <1>2, <1>4, <1>t, SMT DEF HijackPrefix
  <2>2. QED
    BY <1>1, <2>1, PairMain, Zenon
<1>5. QED
  BY <1>3, <1>4, Zenon

\* A withdrawal at n makes the frame ready that r needs; one at r empties what it
\* has.
LEMMA PairWithdraw ==
  ASSUME RoutesInv, [Next]_vars, NEW r, NEW n, Pair(r, n), PairOk(r, n),
         NEW a \in Machines, NEW w \in Subnets, Withdraw(a, w)
  PROVE  PairOk(r, n)'
<1>1. /\ net' = net /\ storing' = storing /\ dropping' = dropping
  BY Zenon DEF Withdraw, main
<1>2. r \in Machines /\ n \in Machines /\ r # n /\ cmd[a].op = "none"
  BY Zenon DEF Pair, Withdraw, Type
<1>t. /\ cmd \in [Machines -> [op : Commands \cup {"none"}, next : Nat, ready : SUBSET Messages]]
      /\ owned \in [Machines -> SUBSET Subnets]
      /\ learned \in [Machines -> [Subnets -> SUBSET Routes]]
  BY Zenon DEF RoutesInv, TypeOK
<1>3. CASE a = n
  <2>1. cmd'[n].op = "withdraw" /\ cmd'[n].ready = {Withdrawal(w)}
    BY <1>2, <1>3, <1>t, SMT DEF Withdraw
  <2>2. owned'[n] = owned[n] \ {w} /\ learned'[r] = learned[r]
    BY <1>2, <1>3, <1>t, SMT DEF Withdraw
  <2>3. cmd[n].ready = {}
    BY <1>2, <1>3, Zenon DEF PairOk
  <2>4. ASSUME NEW p \in Subnets, Orphan(n, p)' PROVE GoneFrom(r, n, p)'
    <3>1. CASE p = w
      BY <2>1, <3>1, Zenon DEF GoneFrom, Gone, AboutToLeave
    <3>2. CASE p # w
      <4>1. "withdraw" # "hijack" /\ "withdraw" \in Events /\ "hijack" \in Events
        BY SMT DEF Events, Commands
      <4>2. typed'[n]["hijack"] = typed[n]["hijack"]
        BY <1>2, <1>3, <4>1, SMT DEF Withdraw, Type, RoutesInv, TypeOK
      <4>3. typed'[n]["hijack"] = 0 /\ p \notin owned'[n]
        BY <2>4, Zenon DEF Orphan
      <4>4. Orphan(n, p)
        BY <2>2, <3>2, <4>2, <4>3, Zenon DEF Orphan
      <4>5. Gone(r, p, {}, net[r][n], storing[r], dropping[r], learned[r][p])
        BY <2>3, <4>4, Zenon DEF PairOk, GoneFrom
      <4>6. StaleAll(r, p, {Withdrawal(w)})
        BY WithdrawalIsStale, Zenon DEF StaleAll
      <4>7. Gone(r, p, {Withdrawal(w)}, net[r][n], storing[r], dropping[r], learned[r][p])
        BY <4>5, <4>6, ReadyGone, Zenon
      <4>8. QED
        BY <1>1, <2>1, <2>2, <4>7, Zenon DEF GoneFrom
    <3>3. QED
      BY <3>1, <3>2, Zenon
  <2>5. cmd'[n].op = "none" => cmd'[n].ready = {}
    BY <2>1, SMT
  <2>6. QED
    BY <1>1, <2>4, <2>5, Zenon DEF PairOk
<1>4. CASE a # n
  <2>1. cmd'[n] = cmd[n] /\ owned'[n] = owned[n]
    BY <1>2, <1>4, <1>t, SMT DEF Withdraw
  <2>2. \A p \in Subnets : learned[r][p] = {} => learned'[r][p] = {}
    BY <1>2, <1>t, SMT DEF Withdraw
  <2>3. QED
    BY <1>1, <2>1, <2>2, PairMain, Zenon
<1>5. QED
  BY <1>3, <1>4, Zenon

\* What is ready leaves.
LEMMA PairSend ==
  ASSUME RoutesInv, [Next]_vars, NEW r, NEW n, Pair(r, n), PairOk(r, n),
         NEW a \in Machines, SendUpdate(a)
  PROVE  PairOk(r, n)'
<1>1. /\ owned' = owned /\ learned' = learned
      /\ storing' = storing /\ dropping' = dropping
  BY Zenon DEF SendUpdate, tables, main
<1>2. r \in Machines /\ n \in Machines /\ r # n
  BY Zenon DEF Pair
<1>t. /\ cmd \in [Machines -> [op : Commands \cup {"none"}, next : Nat, ready : SUBSET Messages]]
      /\ net \in [Machines -> [Machines -> Seq(Messages)]]
      /\ cmd[a].next \in Ports(a)
  BY Zenon DEF RoutesInv, TypeOK
<1>3. PICK m \in cmd[a].ready :
        /\ net' = Sent(a, cmd[a].next, m)
        /\ cmd' = [cmd EXCEPT ![a] =
             NextInterface(a, IF @.op = "advertise" THEN {} ELSE @.ready)]
  BY Zenon DEF SendUpdate
<1>4. Interfaces[a][cmd[a].next] \in Machines
  BY <1>t, PortsAre, Zenon
<1>5. CASE a = n
  <2>1. cmd[n].next = 1 /\ (\A ready : NextInterface(n, ready) = NoCommand) /\ Interfaces[n][1] = r
    BY OneRound, PairPorts, Zenon
  <2>2. cmd'[n] = NoCommand
    BY <1>2, <1>3, <1>5, <1>t, <2>1, SMT
  <2>3. net'[r][n] = Append(net[r][n], m)
    BY <1>2, <1>3, <1>5, <1>t, <2>1, SMT DEF Sent
  <2>4. m \in cmd[n].ready /\ cmd[n].ready \in SUBSET Messages /\ net[r][n] \in Seq(Messages)
    BY <1>2, <1>3, <1>5, <1>t, SMT
  <2>5. cmd'[n].ready = {}
    BY <2>2, SMT DEF NoCommand
  <2>6. ASSUME NEW p \in Subnets, GoneFrom(r, n, p) PROVE GoneFrom(r, n, p)'
    <3>1. Gone(r, p, cmd[n].ready, net[r][n], storing[r], dropping[r], learned[r][p])
      BY <2>6, Zenon DEF GoneFrom
    <3>2. Gone(r, p, {}, Append(net[r][n], m), storing[r], dropping[r], learned[r][p])
      BY <2>4, <3>1, SendGone, Zenon
    <3>3. QED
      BY <1>1, <2>3, <2>5, <3>2, Zenon DEF GoneFrom
  <2>7. dropping'[r].kept = {}
    BY <1>1, Zenon DEF PairOk
  <2>8. QED
    BY <1>1, <2>5, <2>6, <2>7, PairIntro, Zenon
<1>6. CASE a # n
  <2>1. cmd'[n] = cmd[n]
    BY <1>2, <1>3, <1>6, <1>t, SMT
  <2>2. net'[r][n] = net[r][n]
    BY <1>2, <1>3, <1>4, <1>6, <1>t, SMT DEF Sent
  <2>3. QED
    BY <1>1, <2>1, <2>2, PairMain, Zenon
<1>7. QED
  BY <1>5, <1>6, Zenon

\* Priorities change, routes stay.
LEMMA PairPriority ==
  ASSUME RoutesInv, [Next]_vars, NEW r, NEW n, Pair(r, n), PairOk(r, n),
         NEW a \in Machines, NEW i \in Ports(a), NEW priority,
         UpdateInterfacePriority(a, i, priority)
  PROVE  PairOk(r, n)'
<1>1. /\ owned' = owned /\ net' = net /\ cmd' = cmd
      /\ storing' = storing /\ dropping' = dropping
  BY Zenon DEF UpdateInterfacePriority, main
<1>2. \A p \in Subnets : learned[r][p] = {} => learned'[r][p] = {}
  <2>1. r \in Machines /\ learned \in [Machines -> [Subnets -> SUBSET Routes]]
    BY Zenon DEF Pair, RoutesInv, TypeOK
  <2>2. CASE a = r
    <3>1. learned'[r] = [p \in Subnets |->
             {IF x.iface = i THEN [x EXCEPT !.priority = priority] ELSE x : x \in learned[r][p]}]
      BY <2>1, <2>2, Zenon DEF UpdateInterfacePriority
    <3>2. QED
      BY <3>1, SMT
  <2>3. CASE a # r
    BY <2>1, <2>3, Zenon DEF UpdateInterfacePriority
  <2>4. QED
    BY <2>2, <2>3, Zenon
<1>3. QED
  BY <1>1, <1>2, PairMain, Zenon

\* An announcement is taken from the channel.
LEMMA PairAnnouncement ==
  ASSUME RoutesInv, [Next]_vars, NEW r, NEW n, Pair(r, n), PairOk(r, n),
         NEW a \in Machines, NEW i \in Ports(a), ReceiveAnnouncement(a, i)
  PROVE  PairOk(r, n)'
<1>1. owned' = owned /\ learned' = learned /\ dropping' = dropping /\ cmd' = cmd
  BY Zenon DEF ReceiveAnnouncement, tables
<1>2. r \in Machines /\ n \in Machines /\ r # n
  BY Zenon DEF Pair
<1>t. /\ net \in [Machines -> [Machines -> Seq(Messages)]]
      /\ storing \in [Machines -> SUBSET Entries]
  BY Zenon DEF RoutesInv, TypeOK
<1>3. /\ AtRest(a)
      /\ net[a][Interfaces[a][i]] # <<>>
      /\ Head(net[a][Interfaces[a][i]]).withdraw = {}
      /\ net' = [net EXCEPT ![a][Interfaces[a][i]] = Tail(@)]
      /\ \/ storing' = [storing EXCEPT ![a] = Head(net[a][Interfaces[a][i]]).announce]
         \/ storing' = storing
  BY Zenon DEF ReceiveAnnouncement
<1>4. CASE a = r
  <2>1. Interfaces[a][i] = n
    <3>1. i = 1
      BY <1>4, PairPorts, Zenon
    <3>2. QED
      BY <1>4, <3>1, PairPorts, Zenon
  <2>2. /\ storing[r] = {} /\ dropping[r] = NoDropping
        /\ net[r][n] # <<>> /\ Head(net[r][n]).withdraw = {} /\ net[r][n] \in Seq(Messages)
    BY <1>2, <1>3, <1>4, <1>t, <2>1, Zenon DEF AtRest
  <2>3. net'[r][n] = Tail(net[r][n])
    BY <1>2, <1>3, <1>4, <1>t, <2>1, SMT
  <2>4. storing'[r] \in {{}, Head(net[r][n]).announce}
    BY <1>2, <1>3, <1>4, <1>t, <2>1, <2>2, SMT
  <2>5. ASSUME NEW p \in Subnets, GoneFrom(r, n, p) PROVE GoneFrom(r, n, p)'
    <3>1. Gone(r, p, cmd[n].ready, net[r][n], {}, NoDropping, learned[r][p])
      BY <2>2, <2>5, Zenon DEF GoneFrom
    <3>2. Gone(r, p, cmd[n].ready, Tail(net[r][n]), storing'[r], NoDropping, learned[r][p])
      BY <2>2, <2>4, <3>1, AnnouncementGone, Zenon
    <3>3. QED
      BY <1>1, <2>2, <2>3, <3>2, Zenon DEF GoneFrom
  <2>6. /\ dropping'[r].kept = {}
        /\ cmd'[n].op = "none" => cmd'[n].ready = {}
    BY <1>1, Zenon DEF PairOk
  <2>7. QED
    BY <1>1, <2>5, <2>6, PairIntro, Zenon
<1>5. CASE a # r
  <2>1. net'[r] = net[r] /\ storing'[r] = storing[r]
    BY <1>2, <1>3, <1>5, <1>t, Zenon
  <2>2. QED
    BY <1>1, <2>1, PairMain, Zenon
<1>6. QED
  BY <1>4, <1>5, Zenon

\* A withdrawal is taken from the channel; no route is kept, as all are from the
\* interface it came in on.
LEMMA PairWithdrawal ==
  ASSUME RoutesInv, [Next]_vars, NEW r, NEW n, Pair(r, n), PairOk(r, n),
         NEW a \in Machines, NEW i \in Ports(a), ReceiveWithdrawal(a, i)
  PROVE  PairOk(r, n)'
<1>1. owned' = owned /\ learned' = learned /\ storing' = storing /\ cmd' = cmd
  BY Zenon DEF ReceiveWithdrawal, tables
<1>2. r \in Machines /\ n \in Machines /\ r # n
  BY Zenon DEF Pair
<1>t. /\ net \in [Machines -> [Machines -> Seq(Messages)]]
      /\ dropping \in [Machines -> [prefixes : SUBSET Subnets, kept : SUBSET Routes, next : Nat]]
  BY Zenon DEF RoutesInv, TypeOK
<1>3. PICK w \in Head(net[a][Interfaces[a][i]]).withdraw :
        /\ AtRest(a)
        /\ net[a][Interfaces[a][i]] # <<>>
        /\ net' = [net EXCEPT ![a][Interfaces[a][i]] = Tail(@)]
        /\ dropping' = [dropping EXCEPT ![a] =
             [prefixes |-> {w}, next |-> 0, kept |-> {x \in learned[a][w] : x.iface # i}]]
  BY Zenon DEF ReceiveWithdrawal
<1>4. CASE a = r
  <2>1. Interfaces[a][i] = n /\ i = 1
    <3>1. i = 1
      BY <1>4, PairPorts, Zenon
    <3>2. QED
      BY <1>4, <3>1, PairPorts, Zenon
  <2>2. /\ storing[r] = {} /\ dropping[r] = NoDropping
        /\ net[r][n] # <<>> /\ net[r][n] \in Seq(Messages)
        /\ w \in Head(net[r][n]).withdraw
    BY <1>2, <1>3, <1>4, <1>t, <2>1, Zenon DEF AtRest
  <2>3. net'[r][n] = Tail(net[r][n])
    BY <1>2, <1>3, <1>4, <1>t, <2>1, SMT
  <2>4. /\ dropping'[r].prefixes = {w} /\ dropping'[r].next = 0
        /\ dropping'[r].kept = {x \in learned[r][w] : x.iface # 1}
    BY <1>2, <1>3, <1>4, <1>t, <2>1, SMT
  <2>5. dropping'[r].kept = {}
    <3>1. w \in Subnets
      <4>1. Head(net[r][n]) \in Messages
        BY <1>2, <2>2, ReceivedType, Zenon DEF RoutesInv
      <4>2. QED
        BY <2>2, <4>1, SMT DEF Messages
    <3>2. \A x \in learned[r][w] : x.iface \in Ports(r)
      BY <1>2, <3>1, Zenon DEF RoutesInv, LearnedOk, TableOk, RouteOk
    <3>3. \A x \in learned[r][w] : x.iface = 1
      BY <3>2, PairPorts, Zenon
    <3>4. QED
      BY <2>4, <3>3, Zenon
  <2>6. ASSUME NEW p \in Subnets, GoneFrom(r, n, p) PROVE GoneFrom(r, n, p)'
    <3>1. Gone(r, p, cmd[n].ready, net[r][n], {}, NoDropping, learned[r][p])
      BY <2>2, <2>6, Zenon DEF GoneFrom
    <3>2. Gone(r, p, cmd[n].ready, Tail(net[r][n]), {}, dropping'[r], learned[r][p])
      BY <2>2, <2>4, <3>1, WithdrawalGone, Zenon
    <3>3. QED
      BY <1>1, <2>2, <2>3, <3>2, Zenon DEF GoneFrom
  <2>7. cmd'[n].op = "none" => cmd'[n].ready = {}
    BY <1>1, Zenon DEF PairOk
  <2>8. QED
    BY <1>1, <2>5, <2>6, <2>7, PairIntro, Zenon
<1>5. CASE a # r
  <2>1. net'[r] = net[r] /\ dropping'[r] = dropping[r]
    BY <1>2, <1>3, <1>5, <1>t, Zenon
  <2>2. QED
    BY <1>1, <2>1, PairMain, Zenon
<1>6. QED
  BY <1>4, <1>5, Zenon

\* An entry is stored or skipped.
LEMMA PairStore ==
  ASSUME RoutesInv, [Next]_vars, NEW r, NEW n, Pair(r, n), PairOk(r, n),
         NEW a \in Machines, Store(a)
  PROVE  PairOk(r, n)'
<1>1. owned' = owned /\ net' = net /\ dropping' = dropping /\ cmd' = cmd
  BY Zenon DEF Store
<1>2. r \in Machines /\ n \in Machines /\ r # n
  BY Zenon DEF Pair
<1>t. /\ storing \in [Machines -> SUBSET Entries]
      /\ learned \in [Machines -> [Subnets -> SUBSET Routes]]
  BY Zenon DEF RoutesInv, TypeOK
<1>3. PICK e \in storing[a] :
        /\ storing' = [storing EXCEPT ![a] = @ \ {e}]
        /\ \/ learned' = learned
           \/ /\ a \notin ToSet(e.path)
              /\ \E routes : learned' = [learned EXCEPT ![a][e.prefix] = routes]
  BY Zenon DEF Store, tables
<1>4. CASE a = r
  <2>1. storing'[r] = storing[r] \ {e}
    BY <1>2, <1>3, <1>4, <1>t, Zenon
  <2>2. ASSUME NEW p \in Subnets
        PROVE  learned'[r][p] = learned[r][p] \/ (e.prefix = p /\ r \notin ToSet(e.path))
    <3>1. CASE learned' = learned
      BY <3>1, Zenon
    <3>2. ASSUME a \notin ToSet(e.path), NEW routes,
                 learned' = [learned EXCEPT ![a][e.prefix] = routes]
          PROVE  learned'[r][p] = learned[r][p] \/ (e.prefix = p /\ r \notin ToSet(e.path))
      BY <1>2, <1>4, <1>t, <3>2, SMT
    <3>3. QED
      BY <1>3, <3>1, <3>2, Zenon
  <2>3. ASSUME NEW p \in Subnets, GoneFrom(r, n, p) PROVE GoneFrom(r, n, p)'
    <3>1. Gone(r, p, cmd[n].ready, net[r][n], storing[r], dropping[r], learned[r][p])
      BY <2>3, Zenon DEF GoneFrom
    <3>2. Gone(r, p, cmd[n].ready, net[r][n], storing[r] \ {e}, dropping[r], learned'[r][p])
      BY <1>3, <1>4, <2>2, <3>1, StoreGone, Zenon
    <3>3. QED
      BY <1>1, <2>1, <3>2, Zenon DEF GoneFrom
  <2>4. /\ dropping'[r].kept = {}
        /\ cmd'[n].op = "none" => cmd'[n].ready = {}
    BY <1>1, Zenon DEF PairOk
  <2>5. QED
    BY <1>1, <2>3, <2>4, PairIntro, Zenon
<1>5. CASE a # r
  <2>1. learned'[r] = learned[r] /\ storing'[r] = storing[r]
    BY <1>2, <1>3, <1>5, <1>t, Zenon
  <2>2. QED
    BY <1>1, <2>1, PairMain, Zenon
<1>6. QED
  BY <1>4, <1>5, Zenon

\* What is kept, nothing, is written back.
LEMMA PairWriteBack ==
  ASSUME RoutesInv, [Next]_vars, NEW r, NEW n, Pair(r, n), PairOk(r, n),
         NEW a \in Machines, WriteBack(a)
  PROVE  PairOk(r, n)'
<1>1. owned' = owned /\ net' = net /\ storing' = storing /\ cmd' = cmd
  BY Zenon DEF WriteBack
<1>2. r \in Machines /\ n \in Machines /\ r # n
  BY Zenon DEF Pair
<1>t. /\ learned \in [Machines -> [Subnets -> SUBSET Routes]]
      /\ dropping \in [Machines -> [prefixes : SUBSET Subnets, kept : SUBSET Routes, next : Nat]]
  BY Zenon DEF RoutesInv, TypeOK
<1>3. PICK w \in dropping[a].prefixes : learned' = [learned EXCEPT ![a][w] = dropping[a].kept]
  BY Zenon DEF WriteBack
<1>4. dropping' = [dropping EXCEPT ![a] = [@ EXCEPT !.next = 1, !.kept = {}]]
  BY Zenon DEF WriteBack
<1>5. CASE a = r
  <2>1. dropping[r].kept = {} /\ dropping[r].next = 0
    BY <1>5, Zenon DEF PairOk, WriteBack
  <2>2. dropping'[r].kept = {}
    BY <1>2, <1>4, <1>5, <1>t, SMT
  <2>3. \A p \in Subnets : learned'[r][p] = IF w = p THEN {} ELSE learned[r][p]
    BY <1>2, <1>3, <1>5, <1>t, <2>1, SMT
  <2>4. ASSUME NEW p \in Subnets, GoneFrom(r, n, p) PROVE GoneFrom(r, n, p)'
    <3>1. Gone(r, p, cmd[n].ready, net[r][n], storing[r], dropping[r], learned[r][p])
      BY <2>4, Zenon DEF GoneFrom
    <3>2. w \in dropping[r].prefixes /\ learned'[r][p] = IF w = p THEN {} ELSE learned[r][p]
      BY <1>3, <1>5, <2>3, Zenon
    <3>3. Gone(r, p, cmd[n].ready, net[r][n], storing[r], dropping'[r], learned'[r][p])
      BY <3>1, <3>2, WriteBackGone, Zenon
    <3>4. QED
      BY <1>1, <3>3, Zenon DEF GoneFrom
  <2>5. cmd'[n].op = "none" => cmd'[n].ready = {}
    BY <1>1, Zenon DEF PairOk
  <2>6. QED
    BY <1>1, <2>2, <2>4, <2>5, PairIntro, Zenon
<1>6. CASE a # r
  <2>1. learned'[r] = learned[r] /\ dropping'[r] = dropping[r]
    BY <1>2, <1>3, <1>4, <1>6, <1>t, Zenon
  <2>2. QED
    BY <1>1, <2>1, PairMain, Zenon
<1>7. QED
  BY <1>5, <1>6, Zenon

\* There is nobody to pass a withdrawal on to.
LEMMA PairPassOn ==
  ASSUME RoutesInv, [Next]_vars, NEW r, NEW n, Pair(r, n), PairOk(r, n),
         NEW a \in Machines, PassOn(a)
  PROVE  PairOk(r, n)'
<1>1. owned' = owned /\ learned' = learned /\ storing' = storing /\ cmd' = cmd
  BY Zenon DEF PassOn, tables
<1>2. r \in Machines /\ n \in Machines /\ r # n
  BY Zenon DEF Pair
<1>t. /\ net \in [Machines -> [Machines -> Seq(Messages)]]
      /\ dropping \in [Machines -> [prefixes : SUBSET Subnets, kept : SUBSET Routes, next : Nat]]
      /\ arrived[a] \in Ports(a)
  BY Zenon DEF RoutesInv, TypeOK
<1>3. /\ dropping[a].next \in Ports(a)
      /\ \E w : net' = IF dropping[a].next = arrived[a] THEN net
                       ELSE Sent(a, dropping[a].next, Withdrawal(w))
      /\ dropping' = [dropping EXCEPT ![a] =
            IF dropping[a].next < Len(Interfaces[a])
            THEN [@ EXCEPT !.next = dropping[a].next + 1] ELSE NoDropping]
  BY Zenon DEF PassOn
<1>4. net'[r][n] = net[r][n]
  <2>1. CASE a = n
    <3>1. dropping[a].next = 1 /\ arrived[a] = 1
      BY <1>3, <1>t, <2>1, PairPorts, Zenon
    <3>2. QED
      BY <1>3, <3>1, Zenon
  <2>2. CASE a # n
    <3>1. Interfaces[a][dropping[a].next] \in Machines
      BY <1>3, PortsAre, Zenon
    <3>2. ASSUME NEW w, net' = Sent(a, dropping[a].next, Withdrawal(w))
          PROVE  net'[r][n] = net[r][n]
      <4>1. PICK to \in Machines :
              net' = [net EXCEPT ![to][a] = Append(net[to][a], Withdrawal(w))]
        BY <3>1, <3>2, Zenon DEF Sent
      <4>2. QED
        BY <1>2, <1>t, <2>2, <4>1, SMT
    <3>3. QED
      BY <1>3, <3>2, Zenon
  <2>3. QED
    BY <2>1, <2>2, Zenon
<1>5. CASE a = r
  <2>1. dropping[r].next = 1 /\ dropping[r].next # 0 /\ ~(dropping[r].next < Len(Interfaces[r]))
    <3>1. dropping[r].next = 1 /\ Len(Interfaces[r]) = 1
      BY <1>3, <1>5, PairPorts, Zenon
    <3>2. QED
      BY <3>1, SMT
  <2>2. dropping'[r] = NoDropping
    BY <1>2, <1>3, <1>5, <1>t, <2>1, Zenon
  <2>3. ASSUME NEW p \in Subnets, GoneFrom(r, n, p) PROVE GoneFrom(r, n, p)'
    <3>1. Gone(r, p, cmd[n].ready, net[r][n], storing[r], dropping[r], learned[r][p])
      BY <2>3, Zenon DEF GoneFrom
    <3>2. Gone(r, p, cmd[n].ready, net[r][n], storing[r], dropping'[r], learned[r][p])
      BY <2>1, <3>1, OthersGone, Zenon
    <3>3. QED
      BY <1>1, <1>4, <3>2, Zenon DEF GoneFrom
  <2>4. dropping'[r].kept = {}
    BY <2>2, SMT DEF NoDropping
  <2>5. cmd'[n].op = "none" => cmd'[n].ready = {}
    BY <1>1, Zenon DEF PairOk
  <2>6. QED
    BY <1>1, <2>3, <2>4, <2>5, PairIntro, Zenon
<1>6. CASE a # r
  <2>1. dropping'[r] = dropping[r]
    BY <1>2, <1>3, <1>6, <1>t, Zenon
  <2>2. QED
    BY <1>1, <1>4, <2>1, PairMain, Zenon
<1>7. QED
  BY <1>5, <1>6, Zenon

\* Crashes, sessions that come or go and steps of nobody change none of this.
LEMMA PairOthers ==
  ASSUME RoutesInv, [Next]_vars, NEW r, NEW n, Pair(r, n), PairOk(r, n), NEW a \in Machines,
         TablesRace(a) \/ (\E i \in Ports(a) : Flap(a, i)) \/ UNCHANGED vars
  PROVE  PairOk(r, n)'
<1>1. /\ owned' = owned /\ learned' = learned /\ net' = net /\ cmd' = cmd
      /\ storing' = storing /\ dropping' = dropping
  BY Zenon DEF TablesRace, Flap, vars, tables, main
<1>2. QED
  BY <1>1, PairMain, Zenon

\* One lemma per action.
LEMMA PairStep ==
  ASSUME RoutesInv, [Next]_vars, NEW r, NEW n, Pair(r, n), PairOk(r, n)
  PROVE  PairOk(r, n)'
<1>1. CASE UNCHANGED vars
  BY <1>1, PairOthers, Zenon DEF Pair
<1>2. ASSUME NEW a \in Machines,
             \/ MainThread(a) \/ Working(a) \/ User(a) \/ TablesRace(a)
             \/ \E i \in Ports(a) : Flap(a, i)
      PROVE  PairOk(r, n)'
  <2>1. CASE MainThread(a)
    BY <2>1, PairAnnouncement, PairWithdrawal, PairStore, PairWriteBack, PairPassOn, Zenon
       DEF MainThread
  <2>2. CASE Working(a)
    BY <2>2, PairBuild, PairSend, Zenon DEF Working
  <2>3. CASE User(a)
    <3>1. Named[a] \subseteq Subnets
      BY InputAssumption, Zenon
    <3>2. QED
      BY <2>3, <3>1, PairAdvertise, PairHijack, PairWithdraw, PairPriority, Zenon DEF User
  <2>4. CASE TablesRace(a) \/ \E i \in Ports(a) : Flap(a, i)
    BY <2>4, PairOthers, Zenon
  <2>5. QED
    BY <1>2, <2>1, <2>2, <2>3, <2>4, Zenon
<1>3. QED
  BY <1>1, <1>2, Zenon DEF Next

\* Nobody has told anything yet.
LEMMA PairInit ==
  ASSUME Init, NEW r, NEW n, Pair(r, n)
  PROVE  PairOk(r, n)
<1>1. r \in Machines /\ n \in Machines
  BY Zenon DEF Pair
<1>2. /\ cmd[n].ready = {} /\ dropping[r].kept = {}
      /\ net[r][n] = <<>> /\ storing[r] = {}
      /\ \A p \in Subnets : learned[r][p] = {}
  BY <1>1, SMT DEF Init, NoCommand, NoDropping
<1>3. \A p : StaleAll(r, p, {}) /\ ~Fresh(r, p, {})
  BY Zenon DEF StaleAll, Fresh
<1>4. \A p : StaleFrom(r, p, <<>>, 1)
  <2>1. \A j : j \notin 1 .. Len(<<>>)
    BY SMT
  <2>2. QED
    BY <2>1, Zenon DEF StaleFrom
<1>5. QED
  BY <1>2, <1>3, <1>4, Zenon DEF PairOk, GoneFrom, Gone, Forgotten

\* So a pair is in order in every reachable state, whatever the rest of the network is.
LEMMA PairAlways ==
  ASSUME NEW r, NEW n, Pair(r, n)
  PROVE  Spec => []PairOk(r, n)
<1>1. Init => PairOk(r, n)
  BY PairInit, Zenon
<1>2. RoutesInv /\ [Next]_vars /\ PairOk(r, n) => PairOk(r, n)'
  BY PairStep, Zenon
<1>3. QED
  BY <1>1, <1>2, RoutesAlways, PTL DEF Spec

-----------------------------------------------------------------------------
\* The network consists of pairs.
Pairs == \A r \in Machines : \E n \in Machines : Pair(r, n)

\* Nothing is under way: then the last of the four stages is the only one left.
LEMMA QuietIsForgotten ==
  ASSUME Quiet, NEW r, NEW n, Pair(r, n), PairOk(r, n),
         NEW p \in Subnets, Orphan(n, p)
  PROVE  learned[r][p] = {}
<1>1. r \in Machines /\ n \in Machines
  BY Zenon DEF Pair
<1>2. cmd[n].ready = {} /\ net[r][n] = <<>> /\ dropping[r].prefixes = {}
  BY <1>1, SMT DEF Quiet, AtRest, NoCommand, NoDropping
<1>3. ~AboutToLeave(p, cmd[n].ready)
  BY <1>2, Zenon DEF AboutToLeave
<1>4. ~UnderWay(r, p, cmd[n].ready, net[r][n])
  <2>1. \A j : j \notin 1 .. Len(<<>>)
    BY SMT
  <2>2. QED
    BY <1>2, <2>1, Zenon DEF UnderWay
<1>5. ~BeingHandled(r, p, cmd[n].ready, net[r][n], storing[r], dropping[r])
  BY <1>2, Zenon DEF BeingHandled
<1>6. QED
  BY <1>3, <1>4, <1>5, Zenon DEF PairOk, GoneFrom, Gone, Forgotten

\* Whatever commands the two type, in whatever order their threads work, and
\* whatever else there is in the network: once n has given p up and everything
\* is quiet, r has forgotten p.
THEOREM PairsForget ==
  ASSUME NEW r, NEW n, Pair(r, n), NEW p \in Subnets
  PROVE  Spec => [](Quiet /\ Orphan(n, p) => learned[r][p] = {})
<1>1. PairOk(r, n) => (Quiet /\ Orphan(n, p) => learned[r][p] = {})
  BY QuietIsForgotten, Zenon
<1>2. QED
  BY <1>1, PairAlways, PTL

\* So a prefix without owner leaves no route behind in a network of pairs.
THEOREM NoGhostsInPairs == Pairs => (Spec => []NoGhostRoutes)
<1> SUFFICES ASSUME Pairs PROVE Spec => []NoGhostRoutes
  OBVIOUS
<1> DEFINE AllPairs == \A r, n \in Machines : Pair(r, n) => PairOk(r, n)
<1>1. Init => AllPairs
  BY PairInit, Zenon
<1>2. RoutesInv /\ [Next]_vars /\ AllPairs => AllPairs'
  BY PairStep, Zenon
<1>3. AllPairs => NoGhostRoutes
  <2> SUFFICES ASSUME AllPairs, Quiet, \A n \in Machines : typed[n]["hijack"] = 0,
                      NEW p \in Subnets, \A n \in Machines : p \notin owned[n],
                      NEW r \in Machines
               PROVE  learned[r][p] = {}
    BY Zenon DEF NoGhostRoutes
  <2>1. PICK n \in Machines : Pair(r, n)
    BY Zenon DEF Pairs
  <2>2. Orphan(n, p) /\ PairOk(r, n)
    BY <2>1, Zenon DEF Orphan
  <2>3. QED
    BY <2>1, <2>2, QuietIsForgotten, Zenon
<1> HIDE DEF AllPairs
<1>4. QED
  BY <1>1, <1>2, <1>3, RoutesAlways, PTL DEF Spec

=============================================================================
