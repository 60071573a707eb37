----------------------------- MODULE MeshRoutes -----------------------------
(***************************************************************************)
(* How a mesh of nodes learns routes and forwards a request: the registry  *)
(* of every node (runtime/node_registry.py), the worker agent that         *)
(* advertises what registered with it to its own gateways                  *)
(* (runtime/worker_agent.py, gateway_connection.py), the endpoints         *)
(* /nodes/register and heartbeat, and next-hop forwarding with its relays  *)
(* (gateway_router.py, gateway_connection.py).                             *)
(*                                                                         *)
(* A registration is an HTTP request: it leaves, arrives or is lost, and   *)
(* is answered, in steps of their own.  The handler that propagates it     *)
(* upward waits for the answers of the nodes above; here it does not,      *)
(* which allows more interleavings.  Which actions and which address a     *)
(* node has is left out: any node may know an action or not, have an       *)
(* address or be reached by pull only.                                     *)
(*                                                                         *)
(* A push that is answered too late or with an error makes the sender      *)
(* queue the same request, so that it may be handled twice.  What becomes  *)
(* of the copies does not depend on each other: the model follows one line *)
(* of handlings, and at a push either the copy or the sender.              *)
(***************************************************************************)
EXTENDS Integers, Sequences, FiniteSets

CONSTANTS
  Nodes,
  Up,        \* the gateways of each node: gateway_address, additional_gateways
  Below,     \* what can be reached from a node through registrations
  Static,    \* trusted_nodes of each node
  Open,      \* registration_policy = "open"
  MaxHop,    \* max_hop
  MaxPosts,  \* bound: registrations in flight
  Asked,     \* the requests of POST /action: the node asked, the target
  Budgets,   \* bounds of one execution: crashes and losses, requests, and whether
             \* heartbeats are sent
  NoNode     \* None

Budget == [fault : Nat, ask : Nat, beats : BOOLEAN]

ASSUME MeshAssumption ==
  /\ Up \in [Nodes -> SUBSET Nodes] /\ Below \in [Nodes -> SUBSET Nodes]
  /\ Static \in [Nodes -> SUBSET Nodes]
  /\ Asked \subseteq Nodes \X Nodes
  /\ Budgets \subseteq Budget
  /\ NoNode \notin Nodes

\* The nodes register in a hierarchy, and trusted_nodes names workers.
ASSUME HierarchyAssumption ==
  /\ \A n \in Nodes : n \notin Below[n] /\ Static[n] \subseteq Below[n]
  /\ \A n \in Nodes : \A u \in Up[n] : n \in Below[u]
  /\ \A n \in Nodes : \A x \in Below[n] : Below[x] \subseteq Below[n]

VARIABLES
  alive,    \* whether the process of a node runs
  reg,      \* NodeRegistry._entries of each node
  subs,     \* WorkerAgent._sub_routes of each node
  swap,     \* GatewayConnection._sub_routes_getter: the snapshot it was swapped for
  posts,    \* POST /nodes/register on their way
  prop,     \* what the handlers of a node still have to propagate upward
  request,  \* the line of an action request that is followed
  left,     \* what remains of the budget
  passed    \* history: the nodes that handled the request along this line

routeVars == <<alive, reg, subs, swap, posts, prop>>
vars == <<routeVars, request, left, passed>>

Links == {l \in Nodes \X Nodes : l[2] \in Up[l[1]]}
NotSwapped == {NoNode}

Off == [on |-> FALSE]
\* A heartbeat older than the timeout is noticed by whoever reads the entry; here
\* the entry is marked when it becomes too old.
NodeEntry == [on : {TRUE}, hop : Nodes \cup {NoNode},
              status : {"unknown", "online", "unreachable"}, beat : BOOLEAN]
Entry == {Off} \cup NodeEntry
Post == [from : Nodes, to : Nodes, adv : SUBSET Nodes, live : BOOLEAN]
NoRequest == [state |-> "none"]
Travelling == [state : {"routing", "queued"}, at : Nodes, target : Nodes,
               next : Nodes \cup {NoNode}, hops : Nat, path : SUBSET Nodes,
               action : BOOLEAN]

TypeOK ==
  /\ alive \in [Nodes -> BOOLEAN]
  /\ reg \in [Nodes -> [Nodes -> Entry]]
  /\ subs \in [Nodes -> SUBSET Nodes]
  /\ swap \in [Links -> (SUBSET Nodes) \cup {NotSwapped}]
  /\ posts \subseteq Post
  /\ prop \in [Nodes -> SUBSET Nodes]
  /\ left \in Budget
  /\ passed \in Seq(Nodes)
  /\ request \in {NoRequest} \cup Travelling

NewEntry(hop) == [on |-> TRUE, hop |-> hop, status |-> "unknown", beat |-> FALSE]
Trusting(u) == [x \in Nodes |-> IF x \in Static[u] THEN NewEntry(NoNode) ELSE Off]

NoRequestStep == UNCHANGED <<request, passed>>
Spend(what) == left[what] > 0 /\ left' = [left EXCEPT ![what] = @ - 1]

-----------------------------------------------------------------------------
(* The registry *)

\* NodeRegistry.register, for one sub-route n advertises: a direct child of this
\* node becomes an indirect one.
Advertised(e, n) ==
  IF ~e.on THEN NewEntry(n) ELSE IF e.hop = NoNode THEN [e EXCEPT !.hop = n] ELSE e

\* Under a whitelist an unknown node is refused.
Accepted(u, n) == reg[u][n].on \/ Open

Installed(u, n, adv) ==
  [x \in Nodes |->
     IF ~Accepted(u, n) THEN reg[u][x]
     ELSE IF x \in adv THEN Advertised(IF x = n /\ ~reg[u][n].on THEN NewEntry(NoNode)
                                       ELSE reg[u][x], n)
     ELSE IF x = n /\ ~reg[u][n].on THEN NewEntry(NoNode) ELSE reg[u][x]]

\* Mutant of Withdrawn: the routes stay.
NothingWithdrawn(table, n, adv) == table

\* Mutant of Withdrawn: routes learnt from others go too.
AllWithdrawn(table, n, adv) ==
  [x \in Nodes |-> IF x # n /\ x \notin adv THEN Off ELSE table[x]]

\* Mutant of Withdrawn: the route is marked, with a status no other code knows.
MarkedWithdrawn(table, n, adv) ==
  [x \in Nodes |-> IF table[x].on /\ table[x].hop = n /\ x \notin adv
                   THEN [table[x] EXCEPT !.status = "withdrawn"] ELSE table[x]]

\* NodeRegistry.withdraw_routes
Withdrawn(table, n, adv) ==
  [x \in Nodes |-> IF table[x].on /\ table[x].hop = n /\ x \notin adv THEN Off ELSE table[x]]

-----------------------------------------------------------------------------
(* Registration *)

\* Mutant of Advertisement: the gateway is advertised to itself.
AdvertisesGateway(l, known) == known \cup {l[2]}

\* What _register of connection l advertises.
Advertisement(l, known) == IF swap[l] = NotSwapped THEN known ELSE swap[l]

\* What a start or a propagation sends is bounded; a connection has at most one
\* post of its own loop under way.
Sent(new) ==
  /\ posts' = posts \cup new
  /\ Cardinality({p \in posts \cup new : ~p.live}) <= MaxPosts

\* The process starts, trusts what its configuration names and registers.
Start(n) ==
  /\ ~alive[n]
  /\ alive' = [alive EXCEPT ![n] = TRUE]
  /\ reg' = [reg EXCEPT ![n] = Trusting(n)]
  /\ subs' = [subs EXCEPT ![n] = {}]
  /\ Sent({[from |-> n, to |-> u, adv |-> {}, live |-> FALSE] : u \in Up[n]})
  /\ UNCHANGED <<swap, prop, left>> /\ NoRequestStep

\* get_status of a node that is not in the registry is UNKNOWN.
Reachable(n, x) == reg[n][x].on => reg[n][x].status # "unreachable"

\* _register_with_live_routes, every six heartbeats: the getter of the connection
\* stays swapped until the registration is answered.
PostLive(n, u) ==
  LET live == {x \in subs[n] : Reachable(n, x)} IN
  /\ u \in Up[n] /\ alive[n] /\ swap[<<n, u>>] = NotSwapped
  /\ posts' = posts \cup {[from |-> n, to |-> u, adv |-> live, live |-> TRUE]}
  /\ swap' = [swap EXCEPT ![<<n, u>>] = live]
  /\ UNCHANGED <<alive, reg, subs, prop, left>> /\ NoRequestStep

\* Mutant of Receive: the worker learns its gateway from the answer.
ReceiveBothWays(p) ==
  /\ alive[p.to]
  /\ reg' = [reg EXCEPT ![p.to] = Withdrawn(Installed(p.to, p.from, p.adv), p.from, p.adv),
                        ![p.from][p.to] = NewEntry(NoNode)]
  /\ prop' = [prop EXCEPT ![p.to] = IF Up[p.to] = {} THEN @ ELSE @ \cup {p.from} \cup p.adv]
  /\ posts' = posts \ {p}
  /\ UNCHANGED <<alive, subs, swap, left>> /\ NoRequestStep

\* POST /nodes/register: register, then withdraw_routes, then the propagation,
\* also of a node that was refused.
Receive(p) ==
  /\ alive[p.to]
  /\ reg' = [reg EXCEPT ![p.to] = Withdrawn(Installed(p.to, p.from, p.adv), p.from, p.adv)]
  /\ prop' = [prop EXCEPT ![p.to] = IF Up[p.to] = {} THEN @ ELSE @ \cup {p.from} \cup p.adv]
  /\ posts' = posts \ {p}
  /\ UNCHANGED <<alive, subs, swap, left>> /\ NoRequestStep

\* The gateway is down, or the request gets lost.
Lost(p) ==
  /\ IF alive[p.to] THEN Spend("fault") ELSE UNCHANGED left
  /\ posts' = posts \ {p}
  /\ UNCHANGED <<alive, reg, subs, swap, prop>> /\ NoRequestStep

\* The registration has been answered, or has failed.
Returns(n, u) ==
  /\ swap[<<n, u>>] # NotSwapped
  /\ \A p \in posts : ~(p.from = n /\ p.to = u /\ p.live)
  /\ swap' = [swap EXCEPT ![<<n, u>>] = NotSwapped]
  /\ UNCHANGED <<alive, reg, subs, posts, prop, left>> /\ NoRequestStep

\* WorkerAgent.add_sub_route: every connection registers again.
Propagate(u, x) ==
  /\ alive[u] /\ x \in prop[u]
  /\ prop' = [prop EXCEPT ![u] = @ \ {x}]
  /\ subs' = [subs EXCEPT ![u] = @ \cup {x}]
  /\ Sent({[from |-> u, to |-> w, adv |-> Advertisement(<<u, w>>, subs[u] \cup {x}),
            live |-> FALSE] : w \in Up[u]})
  /\ UNCHANGED <<alive, reg, swap, left>> /\ NoRequestStep

-----------------------------------------------------------------------------
(* Liveness of the nodes *)

\* POST /nodes/{id}/heartbeat, refused from a node the registry does not have.
\* One that would change nothing is a stuttering step.
Heartbeat(n, u) ==
  /\ left.beats /\ u \in Up[n] /\ alive[n] /\ alive[u] /\ reg[u][n].on
  /\ reg[u][n].status # "online" \/ ~reg[u][n].beat
  /\ reg' = [reg EXCEPT ![u][n].status = "online", ![u][n].beat = TRUE]
  /\ UNCHANGED <<alive, subs, swap, posts, prop, left>> /\ NoRequestStep

\* heartbeat_timeout_seconds after the last heartbeat.
TimesOut(u, x) ==
  /\ alive[u] /\ reg[u][x].on /\ reg[u][x].beat /\ reg[u][x].status = "online"
  /\ IF alive[x] /\ u \in Up[x] THEN Spend("fault") ELSE UNCHANGED left
  /\ reg' = [reg EXCEPT ![u][x].status = "unreachable"]
  /\ UNCHANGED <<alive, subs, swap, posts, prop>> /\ NoRequestStep

Ends == request' = NoRequest /\ passed' = <<>>

\* A node crashes or is stopped: there is no withdrawal, what it sent is on its way,
\* and what it handled or kept in its queue is lost.
Crash(n) ==
  /\ alive[n] /\ Spend("fault")
  /\ alive' = [alive EXCEPT ![n] = FALSE]
  /\ swap' = [l \in Links |-> IF l[1] = n THEN NotSwapped ELSE swap[l]]
  /\ prop' = [prop EXCEPT ![n] = {}]
  /\ IF request # NoRequest /\ request.at = n THEN Ends ELSE NoRequestStep
  /\ UNCHANGED <<reg, subs, posts>>

-----------------------------------------------------------------------------
(* Forwarding *)

\* POST /action at a node.
Ask(n, target) ==
  /\ alive[n] /\ Spend("ask")
  /\ request' = [state |-> "routing", at |-> n, target |-> target, next |-> NoNode,
                 hops |-> 0, path |-> {}, action |-> TRUE]
  /\ passed' = <<n>>
  /\ UNCHANGED routeVars

\* The checks route() begins with.
MayRoute == request.hops <= MaxHop /\ request.at \notin request.path

Routes ==
  /\ request.state = "routing" /\ alive[request.at]
  /\ UNCHANGED <<alive, subs, swap, posts, prop>>

Execute ==
  /\ Routes /\ MayRoute
  /\ request.at = request.target /\ request.action
  /\ Ends
  /\ UNCHANGED <<reg, left>>

\* Where the registry of this node sends a request: to the next hop on the way,
\* or to the target itself.
NextHop == LET e == reg[request.at][request.target] IN
           IF ~e.on THEN NoNode ELSE IF e.hop = NoNode THEN request.target ELSE e.hop

\* A push counts one hop; on the way to a next hop the forwarding counted one.
PushedHops == IF NextHop = request.target THEN 1 ELSE 2

Forwards == Routes /\ MayRoute /\ request.at # request.target /\ NextHop # NoNode

\* A node known to be unreachable, or no longer known, is not pinged.
MayPing == reg[request.at][NextHop].on /\ reg[request.at][NextHop].status # "unreachable"

Pinged ==
  /\ Forwards /\ MayPing /\ alive[NextHop]
  /\ reg' = [reg EXCEPT ![request.at][NextHop].status = "online"]
  /\ UNCHANGED left

\* The push arrives, and the copy it carries is followed.
Push ==
  /\ Pinged
  /\ request' = [request EXCEPT !.at = NextHop, !.hops = @ + PushedHops,
                                !.path = @ \cup {request.at}]
  /\ passed' = Append(passed, NextHop)

\* _pull: the job waits in the queue of this node.  It carries no trace, and for a
\* next hop _mesh_forward overwrites its action.
Enqueued ==
  /\ request' = [request EXCEPT !.state = "queued", !.next = NextHop, !.hops = 0,
                                !.path = {}, !.action = @ /\ NextHop = request.target]
  /\ UNCHANGED passed

\* The push does not arrive, is refused there, fails or is answered too late, and the
\* sender is followed: it queues the request for the same node.
PushFails == Pinged /\ Enqueued

\* ping fails, and marks the node.
PingFails ==
  /\ Forwards /\ MayPing
  /\ IF alive[NextHop] THEN Spend("fault") ELSE UNCHANGED left
  /\ reg' = [reg EXCEPT ![request.at][NextHop].status = "unreachable"]
  /\ UNCHANGED <<request, passed>>

\* The node is unreachable, has no address, or was itself withdrawn.
Queue == Forwards /\ Enqueued /\ UNCHANGED <<reg, left>>

\* The node it waits for polls, trusted again or still.  A target executes the job; a
\* next hop posts it to its own /action, with a new trace and no action.
Poll ==
  /\ request.state = "queued" /\ alive[request.at] /\ alive[request.next]
  /\ request.at \in Up[request.next] /\ reg[request.at][request.next].on
  /\ request' = [request EXCEPT !.at = request.next, !.state = "routing",
                                !.next = NoNode]
  /\ passed' = Append(passed, request.next)
  /\ UNCHANGED routeVars /\ UNCHANGED left

\* An ErrorResponse: too many hops, a loop, no route to the target, or a target that
\* does not know the action or does not allow it.  PushFails is what the sender of a
\* push makes of it.
Refuse ==
  /\ Routes
  /\ ~MayRoute \/ request.at = request.target \/ NextHop = NoNode
  /\ Ends
  /\ UNCHANGED <<reg, left>>

-----------------------------------------------------------------------------
(* Specification *)

Init ==
  /\ alive = [n \in Nodes |-> FALSE]
  /\ reg = [n \in Nodes |-> Trusting(n)]
  /\ subs = [n \in Nodes |-> {}]
  /\ swap = [l \in Links |-> NotSwapped]
  /\ posts = {}
  /\ prop = [n \in Nodes |-> {}]
  /\ request = NoRequest
  /\ left \in Budgets
  /\ passed = <<>>

Learn ==
  \/ \E n \in Nodes : Start(n)
  \/ \E n, u \in Nodes : PostLive(n, u)
  \/ \E p \in posts : Receive(p)
  \/ \E p \in posts : Lost(p)
  \/ \E l \in Links : Returns(l[1], l[2])
  \/ \E u, x \in Nodes : Propagate(u, x)
  \/ \E n, u \in Nodes : Heartbeat(n, u)
  \/ \E u, x \in Nodes : TimesOut(u, x)
  \/ \E n \in Nodes : Crash(n)

Forward ==
  \/ \E ask \in Asked : Ask(ask[1], ask[2])
  \/ Execute
  \/ Push
  \/ PushFails
  \/ PingFails
  \/ Queue
  \/ Poll
  \/ Refuse

Next == Learn \/ Forward

MayBeSent == {p \in Post : p.to \in Up[p.from] /\ p.adv \subseteq Below[p.from]}

\* The loops of a connection go on, a heartbeat that no longer comes is noticed,
\* and nothing stays under way for good: a registration arrives or fails and is
\* answered, a handler propagates what it has noted.  Crashes, losses and starts
\* are not forced.
Fairness ==
  /\ \A l \in Links : /\ WF_vars(PostLive(l[1], l[2]))
                      /\ WF_vars(Heartbeat(l[1], l[2]))
                      /\ []<>(swap[l] = NotSwapped)
                      /\ \A x \in Below[l[1]] : []<>(x \notin prop[l[1]])
  /\ \A p \in MayBeSent : []<>(p \notin posts)
  /\ \A u, x \in Nodes : u \in Up[x] => WF_vars(~alive[x] /\ TimesOut(u, x))

Spec == Init /\ [][Next]_vars /\ Fairness

-----------------------------------------------------------------------------
(* Properties *)

\* Entry e of the table of u leads to a node x below u, by way of one between them.
PointsDown(u, x, e) ==
  e.on => x \in Below[u] /\ (e.hop # NoNode => e.hop \in Below[u] /\ x \in Below[e.hop])

\* Whatever registrations cross, get lost, come late or are refused, a node only
\* ever learns of nodes below it, and the next hop of a route lies between
\* (node_registry.py:192-221, server.py:651-706).
RoutesPointDown == \A u, x \in Nodes : PointsDown(u, x, reg[u][x])

\* No request comes back to a node by way of the nodes it was forwarded to, whichever
\* of its copies one follows, although a pull forgets its trace and with it the loop
\* guard, and the tables change while it travels (gateway_connection.py:366,
\* gateway_router.py:99).  A sender that falls back to pull may still have the same
\* node handle the request twice, one copy after the other (gateway_router.py:264).
NeverInCircles ==
  \A i, j \in DOMAIN passed : i < j => passed[j] \in Below[passed[i]]

\* Once every node stays up, every node ends up with a route to everything below
\* it and keeps it, whatever was withdrawn before.
RoutesSettle ==
  <>[](\A n \in Nodes : alive[n]) =>
  <>[](\A u \in Nodes : \A x \in Below[u] : reg[u][x].on)

\* A child this node has heard from is down for good, and this node and its
\* gateway are up.
DownFor(x, m, u) ==
  <>[](~alive[x] /\ alive[m] /\ alive[u] /\ reg[m][x].on /\ reg[m][x].beat)

\* Its route by way of this node is withdrawn from the gateway again and again
\* (gateway_connection.py:232, node_registry.py:268).
DeadRouteWithdrawn ==
  \A x \in Nodes : \A m \in Up[x] : \A u \in Up[m] :
    DownFor(x, m, u) => []<>(~reg[u][x].on \/ reg[u][x].hop # m)

\* It stays withdrawn: "Calls to target_node_id ... will fail with a routing error".
DeadRouteStaysAway ==
  \A x \in Nodes : \A m \in Up[x] : \A u \in Up[m] :
    DownFor(x, m, u) => <>[](~reg[u][x].on \/ reg[u][x].hop # m)
=============================================================================
