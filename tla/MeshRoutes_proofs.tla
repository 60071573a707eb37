-------------------------- MODULE MeshRoutes_proofs --------------------------
(***************************************************************************)
(* Routes point down, and no request goes in circles, in every hierarchy   *)
(* of nodes, whatever is lost, late or refused.                            *)
(***************************************************************************)
EXTENDS MeshRoutes, TLAPS

\* What a node knows, sends and has in flight are nodes below the one that sends.
KnownBelow ==
  /\ \A n \in Nodes : subs[n] \subseteq Below[n] /\ prop[n] \subseteq Below[n]
  /\ \A l \in Links : swap[l] # NotSwapped => swap[l] \subseteq Below[l[1]]
  /\ \A p \in posts : p.to \in Up[p.from] /\ p.adv \subseteq Below[p.from]

\* The request is where its path ends, and waits for a node below.
PathEndsHere ==
  /\ request = NoRequest => passed = << >>
  /\ request # NoRequest => passed # << >> /\ passed[Len(passed)] = request.at
  /\ request.state = "queued" => request.next \in Below[request.at]

IInv == TypeOK /\ RoutesPointDown /\ KnownBelow /\ PathEndsHere /\ NeverInCircles

-----------------------------------------------------------------------------
(* The operators *)

LEMMA NewEntries == ASSUME NEW hop \in Nodes \cup {NoNode}
                    PROVE  NewEntry(hop) \in Entry /\ NewEntry(hop).on /\ NewEntry(hop).hop = hop
BY DEF NewEntry, Entry, NodeEntry

LEMMA TrustedBelow ==
  ASSUME NEW u \in Nodes
  PROVE  /\ Trusting(u) \in [Nodes -> Entry]
         /\ \A x \in Nodes : PointsDown(u, x, Trusting(u)[x])
<1>1. Off \in Entry /\ ~Off.on
  BY DEF Off, Entry
<1>2. QED
  BY <1>1, NewEntries, MeshAssumption, HierarchyAssumption DEF Trusting, PointsDown, MeshAssumption, HierarchyAssumption

\* An entry that is not Off has all its fields.
LEMMA EntryFields ==
  ASSUME NEW e \in Entry, e.on
  PROVE  /\ e \in NodeEntry /\ e.hop \in Nodes \cup {NoNode}
         /\ \A hop \in Nodes : /\ [e EXCEPT !.hop = hop] \in Entry
                              /\ [e EXCEPT !.hop = hop].on
                              /\ [e EXCEPT !.hop = hop].hop = hop
<1>1. e \in NodeEntry
  BY DEF Entry, Off
<1>2. e.hop \in Nodes \cup {NoNode}
  BY <1>1 DEF NodeEntry
<1>3. ASSUME NEW hop \in Nodes
      PROVE  /\ [e EXCEPT !.hop = hop] \in NodeEntry
             /\ [e EXCEPT !.hop = hop].on
             /\ [e EXCEPT !.hop = hop].hop = hop
  BY <1>1 DEF NodeEntry
<1>4. QED
  BY <1>1, <1>2, <1>3 DEF Entry

LEMMA AdvertisedBelow ==
  ASSUME NEW u \in Nodes, NEW n \in Nodes, NEW x \in Nodes, NEW e \in Entry,
         u \in Up[n], x \in Below[n], PointsDown(u, x, e)
  PROVE  Advertised(e, n) \in Entry /\ PointsDown(u, x, Advertised(e, n))
<1>1. n \in Below[u] /\ x \in Below[u] /\ NoNode \notin Nodes
  BY HierarchyAssumption, MeshAssumption DEF HierarchyAssumption, MeshAssumption
<1>2. CASE ~e.on
  BY <1>1, <1>2, NewEntries DEF Advertised, PointsDown
<1>3. CASE e.on /\ e.hop = NoNode
  BY <1>1, <1>3, EntryFields DEF Advertised, PointsDown
<1>4. CASE e.on /\ e.hop # NoNode
  BY <1>4 DEF Advertised
<1>5. QED
  BY <1>2, <1>3, <1>4

\* A registration leaves a table that points down.
LEMMA RegisteredBelow ==
  ASSUME TypeOK, RoutesPointDown, NEW u \in Nodes, NEW n \in Nodes,
         NEW adv \in SUBSET Below[n], u \in Up[n],
         NEW t, t = Withdrawn(Installed(u, n, adv), n, adv)
  PROVE  t \in [Nodes -> Entry] /\ \A x \in Nodes : PointsDown(u, x, t[x])
<1> DEFINE i == Installed(u, n, adv)
<1>1. reg[u] \in [Nodes -> Entry] /\ n \in Below[u] /\ adv \subseteq Nodes /\ n \notin adv
  BY HierarchyAssumption, MeshAssumption DEF HierarchyAssumption, MeshAssumption, TypeOK
<1>2. ASSUME NEW x \in Nodes PROVE i[x] \in Entry /\ PointsDown(u, x, i[x])
  <2>1. PointsDown(u, x, reg[u][x]) /\ reg[u][x] \in Entry
    BY <1>1 DEF RoutesPointDown
  <2>2. CASE ~Accepted(u, n)
    BY <2>1, <2>2 DEF Installed
  <2>3. CASE Accepted(u, n) /\ x \in adv
    <3>1. i[x] = Advertised(reg[u][x], n)
      BY <1>1, <2>3 DEF Installed
    <3>2. QED
      BY <2>1, <2>3, <3>1, AdvertisedBelow
  <2>4. CASE Accepted(u, n) /\ x = n /\ ~reg[u][n].on
    <3>1. i[x] = NewEntry(NoNode)
      BY <1>1, <2>4 DEF Installed
    <3>2. QED
      BY <1>1, <2>4, <3>1, NewEntries DEF PointsDown
  <2>5. CASE Accepted(u, n) /\ x \notin adv /\ ~(x = n /\ ~reg[u][n].on)
    BY <2>1, <2>5 DEF Installed
  <2>6. QED
    BY <2>2, <2>3, <2>4, <2>5
<1>3. Off \in Entry /\ ~Off.on
  BY DEF Off, Entry
<1>4. i \in [Nodes -> Entry]
  <2>1. i = [x \in Nodes |-> i[x]]
    BY DEF Installed
  <2>2. QED
    BY <1>2, <2>1
<1> HIDE DEF i
<1>5. t = Withdrawn(i, n, adv)
  BY DEF i
<1>6. QED
  BY <1>2, <1>3, <1>4, <1>5 DEF Withdrawn, PointsDown

\* A change of one entry to one that points down.
LEMMA EntryChanged ==
  ASSUME TypeOK, RoutesPointDown, NEW u \in Nodes, NEW x \in Nodes, NEW e \in Entry,
         PointsDown(u, x, e), reg' = [reg EXCEPT ![u][x] = e]
  PROVE  reg' \in [Nodes -> [Nodes -> Entry]] /\ RoutesPointDown'
<1>1. reg \in [Nodes -> [Nodes -> Entry]]
  BY DEF TypeOK
<1>2. reg' \in [Nodes -> [Nodes -> Entry]]
  BY <1>1
<1>3. ASSUME NEW v \in Nodes, NEW y \in Nodes PROVE PointsDown(v, y, reg'[v][y])
  <2>1. reg'[v][y] = IF v = u /\ y = x THEN e ELSE reg[v][y]
    BY <1>1
  <2>2. PointsDown(v, y, reg[v][y])
    BY DEF RoutesPointDown
  <2>3. QED
    BY <2>1, <2>2
<1>4. QED
  BY <1>2, <1>3 DEF RoutesPointDown

\* So does a change of the status of an entry that is there.
LEMMA StatusChanged ==
  ASSUME TypeOK, RoutesPointDown, NEW u \in Nodes, NEW x \in Nodes, reg[u][x].on,
         NEW s \in {"online", "unreachable"},
         \/ reg' = [reg EXCEPT ![u][x].status = s]
         \/ reg' = [reg EXCEPT ![u][x].status = s, ![u][x].beat = TRUE]
  PROVE  reg' \in [Nodes -> [Nodes -> Entry]] /\ RoutesPointDown'
<1> DEFINE e == reg[u][x]
<1>1. reg \in [Nodes -> [Nodes -> Entry]] /\ e \in Entry /\ PointsDown(u, x, e)
  BY DEF TypeOK, RoutesPointDown
<1>2. e \in NodeEntry
  BY <1>1, EntryFields
<1>3. CASE reg' = [reg EXCEPT ![u][x].status = s]
  <2> DEFINE f == [e EXCEPT !.status = s]
  <2>1. f \in NodeEntry /\ f.on = e.on /\ f.hop = e.hop
    BY <1>2 DEF NodeEntry
  <2>2. reg' = [reg EXCEPT ![u][x] = f]
    BY <1>1, <1>3
  <2> HIDE DEF f
  <2>3. PointsDown(u, x, f) /\ f \in Entry
    BY <1>1, <2>1 DEF PointsDown, Entry
  <2>4. QED
    BY <2>2, <2>3, EntryChanged
<1>4. CASE reg' = [reg EXCEPT ![u][x].status = s, ![u][x].beat = TRUE]
  <2> DEFINE f == [[e EXCEPT !.status = s] EXCEPT !.beat = TRUE]
  <2>1. f \in NodeEntry /\ f.on = e.on /\ f.hop = e.hop
    BY <1>2 DEF NodeEntry
  <2>2. reg' = [reg EXCEPT ![u][x] = f]
    BY <1>1, <1>4
  <2> HIDE DEF f
  <2>3. PointsDown(u, x, f) /\ f \in Entry
    BY <1>1, <2>1 DEF PointsDown, Entry
  <2>4. QED
    BY <2>2, <2>3, EntryChanged
<1>5. QED
  BY <1>3, <1>4

-----------------------------------------------------------------------------
(* The network: tables, what is known and what is in flight *)

Network ==
  /\ alive \in [Nodes -> BOOLEAN] /\ reg \in [Nodes -> [Nodes -> Entry]]
  /\ subs \in [Nodes -> SUBSET Nodes] /\ prop \in [Nodes -> SUBSET Nodes]
  /\ swap \in [Links -> (SUBSET Nodes) \cup {NotSwapped}] /\ posts \subseteq Post
  /\ left \in Budget

LEMMA Spent == ASSUME left \in Budget, NEW what \in {"fault", "ask"}, Spend(what)
               PROVE  left' \in Budget
BY DEF Spend, Budget

LEMMA Hierarchy == /\ \A n \in Nodes : \A u \in Up[n] : u \in Nodes /\ n \in Below[u] /\ Below[n] \subseteq Below[u]
                   /\ \A n \in Nodes : Below[n] \subseteq Nodes /\ n \notin Below[n]
                   /\ NoNode \notin Nodes
BY HierarchyAssumption, MeshAssumption DEF HierarchyAssumption, MeshAssumption

LEMMA LearnKeeps ==
  ASSUME IInv, Learn
  PROVE  Network' /\ RoutesPointDown' /\ KnownBelow' /\ (NoRequestStep \/ Ends)
<1> USE DEF IInv
<1>1. ASSUME NEW n \in Nodes, Start(n)
      PROVE  Network' /\ RoutesPointDown' /\ KnownBelow' /\ (NoRequestStep \/ Ends)
  <2> DEFINE new == {[from |-> n, to |-> u, adv |-> {}, live |-> FALSE] : u \in Up[n]}
  <2>1. ASSUME NEW p \in new PROVE p \in Post /\ p.to \in Up[p.from] /\ p.adv \subseteq Below[p.from]
    <3>1. PICK u \in Up[n] : p = [from |-> n, to |-> u, adv |-> {}, live |-> FALSE]
      OBVIOUS
    <3>2. QED
      BY <3>1, Hierarchy DEF Post
  <2>2. posts' = posts \cup new
    BY <1>1 DEF Start, Sent
  <2> HIDE DEF new
  <2>3. reg' \in [Nodes -> [Nodes -> Entry]] /\ RoutesPointDown'
    BY <1>1, TrustedBelow DEF Start, TypeOK, RoutesPointDown
  <2>4. KnownBelow'
    BY <1>1, <2>1, <2>2 DEF Start, KnownBelow, TypeOK
  <2>5. QED
    BY <1>1, <2>1, <2>2, <2>3, <2>4 DEF Start, Network, TypeOK
<1>2. ASSUME NEW n \in Nodes, NEW u \in Nodes, PostLive(n, u)
      PROVE  Network' /\ RoutesPointDown' /\ KnownBelow' /\ (NoRequestStep \/ Ends)
  <2> DEFINE live == {x \in subs[n] : Reachable(n, x)}
             new == [from |-> n, to |-> u, adv |-> live, live |-> TRUE]
  <2>1. /\ live \subseteq subs[n] /\ u \in Up[n] /\ posts' = posts \cup {new}
        /\ swap' = [swap EXCEPT ![<<n, u>>] = live]
    BY <1>2 DEF PostLive, Sent
  <2>2. live \subseteq Below[n] /\ live \subseteq Nodes
    BY <2>1, Hierarchy DEF KnownBelow
  <2>3. new \in Post /\ new.to \in Up[new.from] /\ new.adv \subseteq Below[new.from]
    BY <2>1, <2>2 DEF Post
  <2> HIDE DEF live, new
  <2>4. RoutesPointDown' /\ <<n, u>> \in Links /\ <<n, u>>[1] = n
    BY <1>2, <2>1 DEF PostLive, RoutesPointDown, Links
  <2>5. swap' \in [Links -> (SUBSET Nodes) \cup {NotSwapped}]
    BY <2>1, <2>2, <2>4 DEF TypeOK
  <2>6. \A l \in Links : swap'[l] # NotSwapped => swap'[l] \subseteq Below[l[1]]
    BY <2>1, <2>2, <2>4 DEF TypeOK, KnownBelow
  <2>7. KnownBelow'
    BY <1>2, <2>1, <2>3, <2>6 DEF PostLive, KnownBelow
  <2>8. QED
    BY <1>2, <2>1, <2>3, <2>4, <2>5, <2>7 DEF PostLive, Network, TypeOK
<1>3. ASSUME NEW p \in posts, Receive(p)
      PROVE  Network' /\ RoutesPointDown' /\ KnownBelow' /\ (NoRequestStep \/ Ends)
  <2>1. p.to \in Up[p.from] /\ p.to \in Nodes /\ p.from \in Nodes /\ p.adv \in SUBSET Below[p.from]
    BY DEF KnownBelow, TypeOK, Post
  <2> DEFINE t == Withdrawn(Installed(p.to, p.from, p.adv), p.from, p.adv)
  <2>2. t \in [Nodes -> Entry] /\ \A x \in Nodes : PointsDown(p.to, x, t[x])
    BY <2>1, RegisteredBelow
  <2>3. reg' = [reg EXCEPT ![p.to] = t]
    BY <1>3 DEF Receive
  <2> HIDE DEF t
  <2>4. reg' \in [Nodes -> [Nodes -> Entry]] /\ RoutesPointDown'
    BY <2>1, <2>2, <2>3 DEF TypeOK, RoutesPointDown
  <2>5. prop' \in [Nodes -> SUBSET Nodes] /\ \A n \in Nodes : prop'[n] \subseteq Below[n]
    <3>1. {p.from} \cup p.adv \subseteq Below[p.to] /\ Below[p.to] \subseteq Nodes
      BY <2>1, Hierarchy
    <3>2. QED
      BY <1>3, <2>1, <3>1 DEF Receive, TypeOK, KnownBelow
  <2>6. KnownBelow'
    BY <1>3, <2>5 DEF Receive, KnownBelow
  <2>7. QED
    BY <1>3, <2>4, <2>5, <2>6 DEF Receive, Network, TypeOK
<1>4. ASSUME NEW p \in posts, Lost(p)
      PROVE  Network' /\ RoutesPointDown' /\ KnownBelow' /\ (NoRequestStep \/ Ends)
  <2>1. left' \in Budget
    BY <1>4, Spent DEF Lost, TypeOK
  <2>2. QED
    BY <1>4, <2>1 DEF Lost, KnownBelow, RoutesPointDown, Network, TypeOK
<1>5. ASSUME NEW l \in Links, Returns(l[1], l[2])
      PROVE  Network' /\ RoutesPointDown' /\ KnownBelow' /\ (NoRequestStep \/ Ends)
  <2>1. l = <<l[1], l[2]>>
    BY DEF Links
  <2>2. swap' = [swap EXCEPT ![l] = NotSwapped]
    BY <1>5, <2>1 DEF Returns
  <2>3. QED
    BY <1>5, <2>2 DEF Returns, KnownBelow, RoutesPointDown, Network, TypeOK
<1>6. ASSUME NEW u \in Nodes, NEW x \in Nodes, Propagate(u, x)
      PROVE  Network' /\ RoutesPointDown' /\ KnownBelow' /\ (NoRequestStep \/ Ends)
  <2> DEFINE new == {[from |-> u, to |-> w, adv |-> Advertisement(<<u, w>>, subs[u] \cup {x}),
                      live |-> FALSE] : w \in Up[u]}
  <2>1. x \in Below[u] /\ x \in prop[u] /\ posts' = posts \cup new
    BY <1>6 DEF Propagate, Sent, KnownBelow
  <2>2. ASSUME NEW w \in Up[u] PROVE Advertisement(<<u, w>>, subs[u] \cup {x}) \subseteq Below[u]
    <3>1. <<u, w>> \in Links /\ <<u, w>>[1] = u
      BY Hierarchy DEF Links
    <3>2. QED
      BY <2>1, <3>1 DEF Advertisement, KnownBelow
  <2>3. ASSUME NEW p \in new PROVE p \in Post /\ p.to \in Up[p.from] /\ p.adv \subseteq Below[p.from]
    <3>1. PICK w \in Up[u] : p = [from |-> u, to |-> w, live |-> FALSE,
                                  adv |-> Advertisement(<<u, w>>, subs[u] \cup {x})]
      OBVIOUS
    <3>2. Below[u] \subseteq Nodes /\ w \in Nodes /\ Advertisement(<<u, w>>, subs[u] \cup {x}) \subseteq Below[u]
      BY <2>2, Hierarchy
    <3>3. QED
      BY <3>1, <3>2 DEF Post
  <2> HIDE DEF new
  <2>4. KnownBelow' /\ RoutesPointDown'
    BY <1>6, <2>1, <2>3 DEF Propagate, KnownBelow, TypeOK, RoutesPointDown
  <2>5. QED
    BY <1>6, <2>1, <2>3, <2>4 DEF Propagate, Network, TypeOK
<1>7. ASSUME NEW n \in Nodes, NEW u \in Nodes, Heartbeat(n, u)
      PROVE  Network' /\ RoutesPointDown' /\ KnownBelow' /\ (NoRequestStep \/ Ends)
  <2>1. reg' \in [Nodes -> [Nodes -> Entry]] /\ RoutesPointDown'
    BY <1>7, StatusChanged DEF Heartbeat
  <2>2. QED
    BY <1>7, <2>1 DEF Heartbeat, KnownBelow, Network, TypeOK
<1>8. ASSUME NEW u \in Nodes, NEW x \in Nodes, TimesOut(u, x)
      PROVE  Network' /\ RoutesPointDown' /\ KnownBelow' /\ (NoRequestStep \/ Ends)
  <2>1. reg' \in [Nodes -> [Nodes -> Entry]] /\ RoutesPointDown'
    BY <1>8, StatusChanged DEF TimesOut
  <2>2. left' \in Budget
    BY <1>8, Spent DEF TimesOut, TypeOK
  <2>3. QED
    BY <1>8, <2>1, <2>2 DEF TimesOut, KnownBelow, Network, TypeOK
<1>9. ASSUME NEW n \in Nodes, Crash(n)
      PROVE  Network' /\ RoutesPointDown' /\ KnownBelow' /\ (NoRequestStep \/ Ends)
  <2>1. left' \in Budget
    BY <1>9, Spent DEF Crash, TypeOK
  <2>2. swap' \in [Links -> (SUBSET Nodes) \cup {NotSwapped}]
    BY <1>9 DEF Crash, TypeOK
  <2>3. \A l \in Links : swap'[l] # NotSwapped => swap'[l] \subseteq Below[l[1]]
    BY <1>9 DEF Crash, KnownBelow
  <2>4. prop' \in [Nodes -> SUBSET Nodes] /\ \A k \in Nodes : prop'[k] \subseteq Below[k]
    BY <1>9 DEF Crash, KnownBelow, TypeOK
  <2>5. KnownBelow' /\ RoutesPointDown'
    BY <1>9, <2>3, <2>4 DEF Crash, KnownBelow, RoutesPointDown
  <2>6. QED
    BY <1>9, <2>1, <2>2, <2>4, <2>5 DEF Crash, Network, TypeOK
<1>10. QED
  BY <1>1, <1>2, <1>3, <1>4, <1>5, <1>6, <1>7, <1>8, <1>9 DEF Learn

-----------------------------------------------------------------------------
(* The request *)

\* A node the table of this one leads to lies below it.
LEMMA NextIsBelow ==
  ASSUME TypeOK, RoutesPointDown, request \in Travelling, NextHop # NoNode
  PROVE  NextHop \in Below[request.at] /\ NextHop \in Nodes /\ request.at \in Nodes
<1> DEFINE e == reg[request.at][request.target]
<1>1. request.at \in Nodes /\ request.target \in Nodes /\ e \in Entry
  BY DEF Travelling, TypeOK
<1>2. PointsDown(request.at, request.target, e)
  BY <1>1 DEF RoutesPointDown
<1> HIDE DEF e
<1>3. NextHop = IF ~e.on THEN NoNode ELSE IF e.hop = NoNode THEN request.target ELSE e.hop
  BY DEF NextHop, e
<1>4. QED
  BY <1>1, <1>2, <1>3, Hierarchy DEF PointsDown

\* A path that goes down still does with a node below its end.
LEMMA PathGrows ==
  ASSUME TypeOK, NeverInCircles, passed # << >>, NEW n \in Nodes,
         n \in Below[passed[Len(passed)]], passed' = Append(passed, n)
  PROVE  NeverInCircles' /\ passed' \in Seq(Nodes) /\ passed' # << >> /\ passed'[Len(passed')] = n
<1> DEFINE k == Len(passed)
<1>1. /\ passed \in Seq(Nodes) /\ k \in Nat /\ k > 0 /\ DOMAIN passed = 1 .. k
      /\ passed' \in Seq(Nodes) /\ Len(passed') = k + 1 /\ passed'[k + 1] = n
      /\ DOMAIN passed' = 1 .. (k + 1)
      /\ \A i \in 1 .. k : passed'[i] = passed[i] /\ passed[i] \in Nodes
  BY DEF TypeOK
<1>2. ASSUME NEW i \in DOMAIN passed', NEW j \in DOMAIN passed', i < j
      PROVE  passed'[j] \in Below[passed'[i]]
  <2>1. CASE j <= k
    <3>1. i \in DOMAIN passed /\ j \in DOMAIN passed /\ passed[j] \in Below[passed[i]]
      BY <1>1, <1>2, <2>1 DEF NeverInCircles
    <3>2. QED
      BY <1>1, <2>1, <3>1
  <2>2. CASE j = k + 1 /\ i = k
    BY <1>1, <2>2
  <2>3. CASE j = k + 1 /\ i < k
    <3>1. passed[k] \in Below[passed[i]] /\ passed[i] \in Nodes /\ passed'[i] = passed[i]
      BY <1>1, <2>3 DEF NeverInCircles
    <3>2. Below[passed[k]] \subseteq Below[passed[i]]
      BY <3>1, HierarchyAssumption DEF HierarchyAssumption
    <3>3. QED
      BY <1>1, <2>3, <3>1, <3>2
  <2>4. QED
    BY <1>1, <1>2, <2>1, <2>2, <2>3
<1>3. QED
  BY <1>1, <1>2 DEF NeverInCircles

LEMMA RequestFields ==
  ASSUME TypeOK, request # NoRequest
  PROVE  request \in Travelling
BY DEF TypeOK

\* What the line that is followed has to keep.
LineKept ==
  /\ request \in {NoRequest} \cup Travelling /\ passed \in Seq(Nodes)
  /\ PathEndsHere /\ NeverInCircles

LEMMA LineEnds == ASSUME Ends PROVE LineKept'
BY DEF Ends, LineKept, PathEndsHere, NeverInCircles, NoRequest

LEMMA LineStays == ASSUME IInv, UNCHANGED <<request, passed>> PROVE LineKept'
BY DEF IInv, LineKept, PathEndsHere, NeverInCircles, TypeOK

\* A node that queues the request keeps it, for a node below.
LEMMA EnqueuedKeeps ==
  ASSUME IInv, Forwards, Enqueued
  PROVE  LineKept'
<1> USE DEF IInv
<1> DEFINE x == NextHop
           a == request.action /\ x = request.target
<1>1. request # NoRequest /\ request \in Travelling
  BY RequestFields DEF Forwards, Routes, NoRequest
<1>2. x \in Below[request.at] /\ x \in Nodes /\ request.at \in Nodes
  BY <1>1, NextIsBelow DEF Forwards
<1>3. /\ request' = [request EXCEPT !.state = "queued", !.next = x, !.hops = 0,
                                   !.path = {}, !.action = a]
      /\ UNCHANGED passed
  <2>1. request.action \in BOOLEAN
    BY <1>1 DEF Travelling
  <2>2. QED
    BY <1>1, <2>1 DEF Enqueued, Travelling
<1>4. a \in BOOLEAN
  BY <1>1 DEF Travelling
<1> HIDE DEF x, a
<1>5. request' \in Travelling /\ request'.at = request.at /\ request'.next = x
  BY <1>1, <1>2, <1>3, <1>4 DEF Travelling
<1>6. request' # NoRequest /\ passed # << >>
  BY <1>1, <1>5 DEF NoRequest, Travelling, PathEndsHere
<1>7. QED
  BY <1>1, <1>2, <1>3, <1>5, <1>6 DEF LineKept, PathEndsHere, NeverInCircles, TypeOK

LEMMA ForwardKeeps ==
  ASSUME IInv, Forward
  PROVE  Network' /\ RoutesPointDown' /\ KnownBelow' /\ LineKept'
<1> DEFINE Goal == Network' /\ RoutesPointDown' /\ KnownBelow' /\ LineKept'
<1> USE DEF IInv
<1>1. ASSUME UNCHANGED <<alive, subs, swap, posts, prop>>, left' \in Budget,
             reg' \in [Nodes -> [Nodes -> Entry]]
      PROVE  Network' /\ KnownBelow'
  BY <1>1 DEF Network, KnownBelow, TypeOK
<1>2. ASSUME Pinged
      PROVE  Network' /\ KnownBelow' /\ RoutesPointDown'
  <2>1. /\ Forwards /\ reg[request.at][NextHop].on
        /\ reg' = [reg EXCEPT ![request.at][NextHop].status = "online"]
        /\ UNCHANGED <<alive, subs, swap, posts, prop, left>>
    BY <1>2 DEF Pinged, MayPing, Forwards, Routes
  <2>2. NextHop \in Nodes /\ request.at \in Nodes
    BY <2>1, RequestFields, NextIsBelow DEF Forwards, Routes, NoRequest
  <2>3. reg' \in [Nodes -> [Nodes -> Entry]] /\ RoutesPointDown'
    BY <2>1, <2>2, StatusChanged
  <2>4. QED
    BY <1>1, <2>1, <2>3 DEF TypeOK
<1>4. ASSUME NEW n \in Nodes, NEW target \in Nodes, Ask(n, target) PROVE Goal
  <2>1. left' \in Budget
    BY <1>4, Spent DEF Ask, TypeOK
  <2>2. request' \in Travelling /\ request'.at = n /\ request'.state = "routing" /\ passed' = <<n>>
    BY <1>4 DEF Ask, Travelling
  <2>3. request' # NoRequest
    BY <2>2 DEF NoRequest
  <2>4. LineKept'
    BY <2>2, <2>3 DEF LineKept, PathEndsHere, NeverInCircles
  <2>5. UNCHANGED routeVars /\ RoutesPointDown'
    BY <1>4 DEF Ask, RoutesPointDown, routeVars
  <2>6. QED
    BY <1>1, <2>1, <2>2, <2>4, <2>5 DEF routeVars, TypeOK
<1>5. ASSUME Execute PROVE Goal
  <2>1. Ends /\ UNCHANGED <<alive, subs, swap, posts, prop, reg, left>>
    BY <1>5 DEF Execute, Routes
  <2>2. QED
    BY <1>1, LineEnds, <2>1 DEF RoutesPointDown, TypeOK
<1>6. ASSUME Push PROVE Goal
  <2> DEFINE x == NextHop
             h == request.hops + PushedHops
             path == request.path \cup {request.at}
  <2>1. Pinged /\ Forwards
    BY <1>6 DEF Push, Pinged
  <2>2. request # NoRequest /\ request \in Travelling
    BY <2>1, RequestFields DEF Forwards, Routes, NoRequest
  <2>3. x \in Below[request.at] /\ x \in Nodes /\ request.at \in Nodes
    BY <2>1, <2>2, NextIsBelow DEF Forwards
  <2>4. passed # << >> /\ passed[Len(passed)] = request.at
    BY <2>2 DEF PathEndsHere
  <2>5. passed' = Append(passed, x)
    BY <1>6 DEF Push
  <2>6. h \in Nat /\ path \in SUBSET Nodes
    BY <2>2, <2>3 DEF PushedHops, Travelling
  <2>7. request' = [request EXCEPT !.at = x, !.hops = h, !.path = path]
    BY <1>6, <2>2 DEF Push, Travelling
  <2> HIDE DEF x, h, path
  <2>8. NeverInCircles' /\ passed' \in Seq(Nodes) /\ passed' # << >> /\ passed'[Len(passed')] = x
    BY <2>3, <2>4, <2>5, PathGrows
  <2>9. request' \in Travelling /\ request'.at = x /\ request'.state = request.state
    BY <2>2, <2>3, <2>6, <2>7 DEF Travelling
  <2>10. request.state = "routing"
    BY <2>1 DEF Forwards, Routes
  <2>11. LineKept'
    BY <2>8, <2>9, <2>10 DEF LineKept, PathEndsHere, NoRequest
  <2>12. QED
    BY <1>2, <2>1, <2>11
<1>7. ASSUME PushFails PROVE Goal
  BY <1>2, <1>7, EnqueuedKeeps DEF PushFails, Pinged
<1>8. ASSUME PingFails PROVE Goal
  <2>1. /\ Forwards /\ reg[request.at][NextHop].on
        /\ reg' = [reg EXCEPT ![request.at][NextHop].status = "unreachable"]
        /\ UNCHANGED <<request, passed, alive, subs, swap, posts, prop>>
        /\ left' = left \/ Spend("fault")
    BY <1>8 DEF PingFails, MayPing, Forwards, Routes
  <2>2. NextHop \in Nodes /\ request.at \in Nodes
    BY <2>1, RequestFields, NextIsBelow DEF Forwards, Routes, NoRequest
  <2>3. reg' \in [Nodes -> [Nodes -> Entry]] /\ RoutesPointDown'
    BY <2>1, <2>2, StatusChanged
  <2>4. left' \in Budget
    BY <2>1, Spent DEF TypeOK
  <2>5. QED
    BY <1>1, <2>1, <2>3, <2>4, LineStays
<1>9. ASSUME Queue PROVE Goal
  <2>1. Forwards /\ Enqueued /\ UNCHANGED <<reg, left, alive, subs, swap, posts, prop>>
    BY <1>9 DEF Queue, Forwards, Routes
  <2>2. QED
    BY <1>1, <2>1, EnqueuedKeeps DEF RoutesPointDown, TypeOK
<1>10. ASSUME Poll PROVE Goal
  <2>1. /\ request.state = "queued" /\ passed' = Append(passed, request.next)
        /\ request' = [request EXCEPT !.at = request.next, !.state = "routing", !.next = NoNode]
        /\ UNCHANGED <<reg, left, alive, subs, swap, posts, prop>>
    BY <1>10 DEF Poll, routeVars
  <2>2. request # NoRequest /\ request \in Travelling
    BY <2>1, RequestFields DEF NoRequest
  <2>3. request.next \in Below[request.at] /\ request.at \in Nodes /\ request.next \in Nodes
    BY <2>1, <2>2, Hierarchy DEF PathEndsHere, Travelling
  <2>4. passed # << >> /\ passed[Len(passed)] = request.at
    BY <2>2 DEF PathEndsHere
  <2>5. /\ NeverInCircles' /\ passed' \in Seq(Nodes) /\ passed' # << >>
        /\ passed'[Len(passed')] = request.next
    BY <2>1, <2>3, <2>4, PathGrows
  <2>6. request' \in Travelling /\ request'.at = request.next /\ request'.state = "routing"
    BY <2>1, <2>2, <2>3 DEF Travelling
  <2>7. LineKept'
    BY <2>5, <2>6 DEF LineKept, PathEndsHere, NoRequest
  <2>8. QED
    BY <1>1, <2>1, <2>7 DEF RoutesPointDown, TypeOK
<1>11. ASSUME Refuse PROVE Goal
  <2>1. Ends /\ UNCHANGED <<alive, subs, swap, posts, prop, reg, left>>
    BY <1>11 DEF Refuse, Routes
  <2>2. QED
    BY <1>1, LineEnds, <2>1 DEF RoutesPointDown, TypeOK
<1>12. Goal
  <2> HIDE DEF Goal
  <2>1. ASSUME NEW ask \in Asked, Ask(ask[1], ask[2]) PROVE Goal
    <3>1. ask[1] \in Nodes /\ ask[2] \in Nodes
      BY MeshAssumption DEF MeshAssumption
    <3>2. QED
      BY <2>1, <3>1, <1>4
  <2>2. QED
    BY <2>1, <1>5, <1>6, <1>7, <1>8, <1>9, <1>10, <1>11 DEF Forward
<1>13. QED
  BY <1>12

-----------------------------------------------------------------------------
(* The theorems *)

THEOREM RoutesInduction == Spec => []IInv
<1>1. Init => IInv
  <2> SUFFICES ASSUME Init PROVE IInv
    OBVIOUS
  <2>1. reg \in [Nodes -> [Nodes -> Entry]] /\ RoutesPointDown
    BY TrustedBelow DEF Init, RoutesPointDown
  <2>2. TypeOK
    BY <2>1, MeshAssumption DEF Init, TypeOK, MeshAssumption
  <2>3. KnownBelow
    BY DEF Init, KnownBelow
  <2>4. PathEndsHere /\ NeverInCircles
    BY DEF Init, PathEndsHere, NeverInCircles, NoRequest
  <2>5. QED
    BY <2>1, <2>2, <2>3, <2>4 DEF IInv
<1>2. IInv /\ [Next]_vars => IInv'
  <2> SUFFICES ASSUME IInv, [Next]_vars PROVE IInv'
    OBVIOUS
  <2>1. ASSUME Learn PROVE IInv'
    <3>1. Network' /\ RoutesPointDown' /\ KnownBelow' /\ (NoRequestStep \/ Ends)
      BY <2>1, LearnKeeps
    <3>2. LineKept'
      BY <3>1, LineStays, LineEnds DEF NoRequestStep
    <3>3. QED
      BY <3>1, <3>2 DEF IInv, LineKept, Network, TypeOK
  <2>2. ASSUME Forward PROVE IInv'
    BY <2>2, ForwardKeeps DEF IInv, LineKept, Network, TypeOK
  <2>3. ASSUME UNCHANGED vars PROVE IInv'
    BY <2>3 DEF vars, routeVars, IInv, TypeOK, RoutesPointDown, KnownBelow, PathEndsHere, NeverInCircles
  <2>4. QED
    BY <2>1, <2>2, <2>3 DEF Next
<1>3. QED
  BY <1>1, <1>2, PTL DEF Spec

\* The mesh is well typed: tables, sub-routes, registrations in flight and request.
THEOREM MeshTypeCorrect == Spec => []TypeOK
BY RoutesInduction, PTL DEF IInv

\* Every route any node ever holds leads down, by way of a node between.
THEOREM RoutesAlwaysPointDown == Spec => []RoutesPointDown
BY RoutesInduction, PTL DEF IInv

\* Along every line of copies a request visits nodes further and further down, whatever
\* the tables do meanwhile and however often its trace is reset.
THEOREM RequestsGoDown == Spec => []NeverInCircles
BY RoutesInduction, PTL DEF IInv
=============================================================================
