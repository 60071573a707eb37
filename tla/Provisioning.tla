---------------------------- MODULE Provisioning ----------------------------
(***************************************************************************)
(* The seed node provisions and tears down clusters: ClusterOrchestrator   *)
(* with its PortAllocator (runtime/cluster_orchestrator.py), the bootstrap *)
(* of each node with its rollback and the entry in the seed's own          *)
(* configuration (runtime/bootstrap.py), the processes it starts, and the  *)
(* two state files.  Handlers of several requests run at the same time,    *)
(* and the workers of a cluster are bootstrapped in parallel.              *)
(*                                                                         *)
(* A node gets its port from the allocator, or has one that the request    *)
(* names.  A cluster id is used again only after a request that failed,    *)
(* once nothing of it runs.  Subscriptions and what the files of a node    *)
(* say are left out.                                                       *)
(***************************************************************************)
EXTENDS Integers, Sequences, FiniteSets, SequencesExt, FiniteSetsExt

CONSTANTS
  Clusters,    \* cluster ids
  Members,     \* the nodes of each cluster, its gateway first
  Ports,       \* port_range_start .. port_range_end
  Given,       \* the ports of the range that a request may name
  KickedOff,   \* the clusters with kickoff_on_provision
  SeedTrusted, \* whether the nodes accept the seed's token
  Budgets,     \* bounds: [provision, teardown, kickoff: requests, fault: failures,
               \*          naming: the nodes for which a request may name a port]
  NoPort       \* no port assigned

NodesOf(c) == Range(Members[c])
Nodes == UNION {NodesOf(c) : c \in Clusters}
Gateway(c) == Members[c][1]
WorkersOf(c) == NodesOf(c) \ {Gateway(c)}

\* n is the first of the sequence s that is in the set.
IsFirst(n, s, set) ==
  \E i \in DOMAIN s : s[i] = n /\ n \in set /\ \A j \in 1 .. i - 1 : s[j] \notin set

Budget == [provision : Nat, teardown : Nat, kickoff : Nat, fault : Nat, naming : SUBSET Nodes]

ASSUME ProvisioningAssumption ==
  /\ Clusters # {} /\ Ports \subseteq Nat /\ IsFiniteSet(Ports) /\ NoPort \notin Ports
  /\ \A c \in Clusters : Members[c] \in Seq(Nodes) /\ Members[c] # <<>>
  /\ \A c, d \in Clusters : c # d => NodesOf(c) \cap NodesOf(d) = {}
  /\ Given \subseteq Ports /\ KickedOff \subseteq Clusters /\ SeedTrusted \in BOOLEAN
  /\ Budgets \subseteq Budget

VARIABLES
  allocated,   \* PortAllocator._allocated, written to its file with every change
  clusters,    \* ClusterOrchestrator._clusters, likewise
  prov,        \* the handler of POST /clusters/provision of each cluster
  tear,        \* the handler of POST /clusters/{id}/teardown
  kick,        \* the handler of POST /clusters/{id}/kickoff
  boot,        \* BootstrapEngine.bootstrap of each node
  port,        \* the port of each node
  proc,        \* the process of each node
  dirs,        \* the nodes that have a directory
  seed,        \* the seed's node.yaml: its own settings, the nodes it lists
  seen,        \* what a registration has read of it
  left,        \* what remains of the budget
  down,        \* history: the clusters whose ports a teardown has released
  astray       \* history: the ports that were taken or given back out of turn

orchVars == <<allocated, clusters, prov, tear, kick>>
nodeVars == <<boot, port, proc, dirs, seed, seen>>
vars == <<orchVars, nodeVars, left, down, astray>>

\* The record of a cluster: its status, and the nodes recorded with an address.
NoCluster == [status |-> "none", up |-> {}]
ClusterRec == [status : {"none", "running", "partial", "torn_down"}, up : SUBSET Nodes]
Idle == [at |-> "idle", todo |-> {}, rec |-> NoCluster]
Handler == [at : {"idle", "gateway", "workers", "gather", "kickoff", "stopping"},
            todo : SUBSET Nodes, rec : ClusterRec]
BootStates == {"none", "dirs", "config", "files", "started", "health", "read", "opened", "rollback",
               "completed", "rolled_back"}
SeedFile == [own : BOOLEAN, nodes : SUBSET Nodes]
Truncated == [own |-> FALSE, nodes |-> {}]

TypeOK ==
  /\ allocated \subseteq Ports /\ clusters \in [Clusters -> ClusterRec]
  /\ prov \in [Clusters -> Handler] /\ tear \in [Clusters -> Handler] /\ kick \in [Clusters -> Handler]
  /\ boot \in [Nodes -> BootStates] /\ port \in [Nodes -> Ports \cup {NoPort}]
  /\ proc \in [Nodes -> {"none", "starting", "up"}]
  /\ dirs \subseteq Nodes
  /\ seed \in SeedFile /\ seen \in [Nodes -> SeedFile]
  /\ left \in Budget
  /\ down \subseteq Clusters /\ astray \subseteq Ports \cup {NoPort}

Spend(what) == left[what] > 0 /\ left' = [left EXCEPT ![what] = @ - 1]

-----------------------------------------------------------------------------
(* PortAllocator *)

\* _is_port_in_use tries to bind: what listens has the port.
InUse(p) == \E n \in Nodes : proc[n] = "up" /\ port[n] = p

FreePorts == {p \in Ports : p \notin allocated /\ ~InUse(p)}

\* Mutant of NextPort: a counter that never looks back.
PortAfterLast == IF allocated = {} THEN Min(Ports) ELSE Max(allocated) + 1

NextPort == Min(FreePorts)

Sets(n, p) == port' = [port EXCEPT ![n] = p]

\* allocate: the first free port of the range.
Allocate(n) ==
  /\ FreePorts # {}
  /\ allocated' = allocated \cup {NextPort}
  /\ Sets(n, NextPort)
  /\ UNCHANGED astray

Named(n) == IF n \in left.naming THEN Given ELSE {}

\* The port that the request names is taken as it is.
TakeGiven(n) ==
  /\ \E p \in Named(n) : Sets(n, p) /\ astray' = astray \cup {p}
  /\ UNCHANGED allocated

GetsPort(n) == Allocate(n) \/ TakeGiven(n)

\* A bootstrap that will start, or has started, the process of n.
Counts(n) == boot[n] \notin {"none", "rollback", "completed", "rolled_back"} \/ proc[n] # "none"

\* release and release_many
Release(set) == allocated' = allocated \ set
ReleaseAnyway(set) == Release(set) /\ astray' = astray \cup set

-----------------------------------------------------------------------------
(* BootstrapEngine.bootstrap *)

Go(n, state) == boot' = [boot EXCEPT ![n] = state]
BootStep == UNCHANGED <<orchVars, port, down, astray>>

\* Step 1: the directory of the node; its removal is the first undo.
CreateDirs(n) ==
  /\ boot[n] = "dirs"
  /\ dirs' = dirs \cup {n} /\ Go(n, "config")
  /\ UNCHANGED <<proc, seed, seen, left>> /\ BootStep

\* Steps 2 to 5, into the directory: node.yaml, skills, actions; packages.
WriteConfig(n) ==
  /\ boot[n] = "config" /\ Go(n, "files")
  /\ UNCHANGED <<proc, dirs, seed, seen, left>> /\ BootStep

\* Step 6: the process is started.
StartNode(n) ==
  /\ boot[n] = "files"
  /\ proc' = [proc EXCEPT ![n] = "starting"] /\ Go(n, "started")
  /\ UNCHANGED <<dirs, seed, seen, left>> /\ BootStep

\* A step raises: packages, a full disk, a node that does not come up.
StepFails(n) ==
  /\ boot[n] \in {"config", "files", "health"} /\ Spend("fault") /\ Go(n, "rollback")
  /\ UNCHANGED <<proc, dirs, seed, seen>> /\ BootStep

\* The wait of three seconds is over: it has exited, or is watched from now on.
StartWaited(n) ==
  /\ boot[n] = "started" /\ Go(n, IF proc[n] = "none" THEN "rollback" ELSE "health")
  /\ UNCHANGED <<proc, dirs, seed, seen, left>> /\ BootStep

\* Step 7: whoever listens on the port answers the health check.
HealthChecked(n) ==
  /\ boot[n] = "health" /\ InUse(port[n]) /\ Go(n, "read")
  /\ seen' = [seen EXCEPT ![n] = seed]
  /\ UNCHANGED <<proc, dirs, seed, left>> /\ BootStep

\* Nobody does, and nobody will.
HealthFails(n) ==
  /\ boot[n] = "health" /\ ~InUse(port[n]) /\ proc[n] = "none" /\ Go(n, "rollback")
  /\ UNCHANGED <<proc, dirs, seed, seen, left>> /\ BootStep

\* Step 8, in a thread: the file is read, opened (and with it emptied), and written.
OpenSeed(n) ==
  /\ boot[n] = "read" /\ seed' = Truncated /\ Go(n, "opened")
  /\ UNCHANGED <<proc, dirs, seen, left>> /\ BootStep

WriteSeed(n) ==
  /\ boot[n] = "opened" /\ Go(n, "completed")
  /\ seed' = [seen[n] EXCEPT !.nodes = @ \cup {n}]
  /\ UNCHANGED <<proc, dirs, seen, left>> /\ BootStep

\* _RollbackTracker.rollback: kill the process, remove the directory.
Rollback(n) ==
  /\ boot[n] = "rollback"
  /\ proc' = [proc EXCEPT ![n] = "none"]
  /\ dirs' = dirs \ {n} /\ Go(n, "rolled_back")
  /\ UNCHANGED <<seed, seen, left>> /\ BootStep

\* A process binds its port, or exits because another one has it.
Binds(n) ==
  /\ proc[n] = "starting"
  /\ proc' = [proc EXCEPT ![n] = IF InUse(port[n]) THEN "none" ELSE "up"]
  /\ UNCHANGED <<orchVars, boot, port, dirs, seed, seen, left, down, astray>>

\* A process dies by itself.
Dies(n) ==
  /\ proc[n] # "none" /\ Spend("fault")
  /\ proc' = [proc EXCEPT ![n] = "none"]
  /\ UNCHANGED <<orchVars, boot, port, dirs, seed, seen, down, astray>>

Bootstrap(n) ==
  \/ CreateDirs(n)
  \/ WriteConfig(n)
  \/ StartNode(n)
  \/ StepFails(n)
  \/ StartWaited(n)
  \/ HealthChecked(n)
  \/ HealthFails(n)
  \/ OpenSeed(n)
  \/ WriteSeed(n)
  \/ Rollback(n)

-----------------------------------------------------------------------------
(* provision_cluster *)

Ended(n) == boot[n] \in {"completed", "rolled_back"}
Asks(c, phase, todo) == prov' = [prov EXCEPT ![c] = [at |-> phase, todo |-> todo, rec |-> NoCluster]]
Returns(c) == prov' = [prov EXCEPT ![c] = Idle]
Recorded(c, rec) == clusters' = [clusters EXCEPT ![c] = rec]

\* A request for a cluster that has no record, and of which nothing runs.
Asked(c) ==
  /\ prov[c].at = "idle" /\ clusters[c] = NoCluster /\ Spend("provision")
  /\ \A n \in NodesOf(c) : ~Counts(n) /\ boot[n] # "rollback"

\* Steps 1 and 2.  With no free port the request fails at once.
Provision(c) ==
  /\ Asked(c)
  /\ GetsPort(Gateway(c))
  /\ boot' = [n \in Nodes |-> IF n = Gateway(c) THEN "dirs" ELSE IF n \in NodesOf(c) THEN "none" ELSE boot[n]]
  /\ Asks(c, "gateway", {})
  /\ UNCHANGED <<clusters, tear, kick, proc, dirs, seed, seen, down>>

\* A request that is invalid gives back the port it names, whoever has it.
ProvisionFails(c) ==
  /\ Asked(c)
  /\ \E p \in Named(Gateway(c)) : ReleaseAnyway({p})
  /\ UNCHANGED <<clusters, prov, tear, kick, nodeVars, down>>

\* A gateway that fails ends the request: its port stays allocated.
GatewayBooted(c) ==
  /\ prov[c].at = "gateway" /\ Ended(Gateway(c))
  /\ IF boot[Gateway(c)] = "completed" THEN Asks(c, "workers", WorkersOf(c)) ELSE Returns(c)
  /\ UNCHANGED <<allocated, clusters, tear, kick, nodeVars, left, down, astray>>

\* Step 3, one worker after the other: a port, and a task that bootstraps it.
NextWorker(c) ==
  /\ prov[c].at = "workers"
  /\ \E n \in prov[c].todo :
       /\ IsFirst(n, Members[c], prov[c].todo)
       /\ GetsPort(n)
       /\ Go(n, "dirs")
       /\ Asks(c, "workers", prov[c].todo \ {n})
  /\ UNCHANGED <<clusters, tear, kick, proc, dirs, seed, seen, left, down>>

\* The next worker is invalid, or there is no port for it: the ports used so far are
\* released, and perhaps the one it names; the nodes that have them, and the tasks
\* that start them, are left alone.
WorkersFail(c) ==
  /\ prov[c].at = "workers" /\ prov[c].todo # {}
  /\ \E n \in prov[c].todo : \E named \in {{}} \cup {{p} : p \in Named(n)} :
       /\ IsFirst(n, Members[c], prov[c].todo)
       /\ ReleaseAnyway({port[m] : m \in NodesOf(c) \ prov[c].todo} \cup named)
  /\ Returns(c)
  /\ UNCHANGED <<clusters, tear, kick, nodeVars, left, down>>

UpNodes(c) == {n \in NodesOf(c) : boot[n] = "completed"}

\* Steps 4 and 5: all have ended, the cluster is recorded.
Gather(c) ==
  /\ prov[c].at = "workers" /\ prov[c].todo = {} /\ \A n \in NodesOf(c) : Ended(n)
  /\ LET rec == [status |-> IF UpNodes(c) = NodesOf(c) THEN "running" ELSE "partial",
                 up |-> UpNodes(c)] IN
     /\ Recorded(c, rec)
     /\ prov' = [prov EXCEPT ![c] = IF c \in KickedOff /\ rec.status = "running"
                                    THEN [at |-> "kickoff", todo |-> {}, rec |-> rec] ELSE Idle]
  /\ UNCHANGED <<allocated, tear, kick, nodeVars, left, down, astray>>

\* Step 6: the event has been sent, and the record is written once more.
ProvisionKicksOff(c) ==
  /\ prov[c].at = "kickoff"
  /\ Recorded(c, prov[c].rec) /\ Returns(c)
  /\ UNCHANGED <<allocated, tear, kick, nodeVars, left, down, astray>>

-----------------------------------------------------------------------------
(* teardown_cluster and kickoff_cluster *)

\* Mutant of Teardown: the ports are released before the nodes are stopped.
ReleasingTeardown(c) ==
  /\ tear[c].at = "idle" /\ clusters[c] # NoCluster /\ Spend("teardown")
  /\ tear' = [tear EXCEPT ![c] = [at |-> "stopping", todo |-> NodesOf(c), rec |-> clusters[c]]]
  /\ Release({port[n] : n \in clusters[c].up})
  /\ astray' = IF c \in down THEN astray \cup {port[n] : n \in clusters[c].up} ELSE astray
  /\ UNCHANGED <<clusters, prov, kick, nodeVars, down>>

\* One at a time for a cluster.  It may have been torn down before: its ports may
\* be others' by now.
Teardown(c) ==
  /\ tear[c].at = "idle" /\ clusters[c] # NoCluster /\ Spend("teardown")
  /\ tear' = [tear EXCEPT ![c] = [at |-> "stopping", todo |-> NodesOf(c), rec |-> clusters[c]]]
  /\ astray' = IF c \in down THEN astray \cup {port[n] : n \in clusters[c].up} ELSE astray
  /\ UNCHANGED <<allocated, clusters, prov, kick, nodeVars, down>>

\* Workers first, the gateway last.
NextToStop(c, n) == IsFirst(n, Tail(Members[c]) \o <<Gateway(c)>>, tear[c].todo)

\* Whoever listens at the port of n is asked, if it trusts the seed; else the process
\* of n is killed, if its pid was recorded.
Shut(n) ==
  IF SeedTrusted /\ InUse(port[n])
  THEN [m \in Nodes |-> IF proc[m] = "up" /\ port[m] = port[n] THEN "none" ELSE proc[m]]
  ELSE [proc EXCEPT ![n] = "none"]

\* _shutdown_node, for the nodes with an address.  A node that answered 200 may run
\* on, and so does one that could not be killed.
ShutdownNode(c) ==
  /\ tear[c].at = "stopping"
  /\ \E n \in tear[c].todo :
       /\ NextToStop(c, n)
       /\ tear' = [tear EXCEPT ![c].todo = @ \ {n}]
       /\ \/ /\ proc' = IF n \in tear[c].rec.up THEN Shut(n) ELSE proc
             /\ UNCHANGED astray
          \/ /\ n \in tear[c].rec.up
             /\ astray' = astray \cup {port[n]}
             /\ UNCHANGED proc
  /\ UNCHANGED <<allocated, clusters, prov, kick, boot, port, dirs, seed, seen, left, down>>

\* The record becomes what was read at the start, torn down; the ports of the nodes
\* that had an address are released.
TornDown(c) ==
  /\ tear[c].at = "stopping" /\ tear[c].todo = {}
  /\ Recorded(c, [tear[c].rec EXCEPT !.status = "torn_down"])
  /\ Release({port[n] : n \in tear[c].rec.up})
  /\ tear' = [tear EXCEPT ![c] = Idle] /\ down' = down \cup {c}
  /\ UNCHANGED <<prov, kick, nodeVars, left, astray>>

\* kickoff_cluster reads the record, emits, and writes what it had read.
Kickoff(c) ==
  /\ kick[c].at = "idle" /\ clusters[c] # NoCluster /\ Spend("kickoff")
  /\ kick' = [kick EXCEPT ![c] = [at |-> "kickoff", todo |-> {}, rec |-> clusters[c]]]
  /\ UNCHANGED <<allocated, clusters, prov, tear, nodeVars, down, astray>>

KickedOffNow(c) ==
  /\ kick[c].at = "kickoff"
  /\ Recorded(c, kick[c].rec)
  /\ kick' = [kick EXCEPT ![c] = Idle]
  /\ UNCHANGED <<allocated, prov, tear, nodeVars, left, down, astray>>

\* Mutant of Restart: the allocated ports are not restored.
ForgetfulRestart(lost) ==
  /\ Spend("fault")
  /\ allocated' = {}
  /\ clusters' = IF "clusters" \in lost THEN [c \in Clusters |-> NoCluster] ELSE clusters
  /\ prov' = [c \in Clusters |-> Idle] /\ tear' = prov' /\ kick' = prov'
  /\ boot' = [n \in Nodes |-> IF Ended(n) THEN boot[n] ELSE "none"]
  /\ astray' = IF "ports" \in lost THEN astray \cup Ports ELSE astray
  /\ UNCHANGED <<port, proc, dirs, seed, seen, down>>

\* The seed crashes and starts again: handlers and bootstraps are gone, the nodes run
\* on.  A crash while one of the two files is written loses what it says.
Restart(lost) ==
  /\ Spend("fault")
  /\ allocated' = IF "ports" \in lost THEN {} ELSE allocated
  /\ clusters' = IF "clusters" \in lost THEN [c \in Clusters |-> NoCluster] ELSE clusters
  /\ prov' = [c \in Clusters |-> Idle] /\ tear' = prov' /\ kick' = prov'
  /\ boot' = [n \in Nodes |-> IF Ended(n) THEN boot[n] ELSE "none"]
  /\ astray' = IF "ports" \in lost THEN astray \cup Ports ELSE astray
  /\ UNCHANGED <<port, proc, dirs, seed, seen, down>>

-----------------------------------------------------------------------------
(* Specification *)

Init ==
  /\ allocated = {} /\ clusters = [c \in Clusters |-> NoCluster]
  /\ prov = [c \in Clusters |-> Idle] /\ tear = prov /\ kick = prov
  /\ boot = [n \in Nodes |-> "none"] /\ port = [n \in Nodes |-> NoPort]
  /\ proc = [n \in Nodes |-> "none"]
  /\ dirs = {}
  /\ seed = [own |-> TRUE, nodes |-> {}] /\ seen = [n \in Nodes |-> seed]
  /\ left \in Budgets
  /\ down = {} /\ astray = {}

Orchestrate(c) ==
  \/ Provision(c)
  \/ ProvisionFails(c)
  \/ GatewayBooted(c)
  \/ NextWorker(c)
  \/ WorkersFail(c)
  \/ Gather(c)
  \/ ProvisionKicksOff(c)
  \/ Teardown(c)
  \/ ShutdownNode(c)
  \/ TornDown(c)
  \/ Kickoff(c)
  \/ KickedOffNow(c)

Next ==
  \/ \E n \in Nodes : Bootstrap(n) \/ Binds(n) \/ Dies(n)
  \/ \E c \in Clusters : Orchestrate(c)
  \/ \E lost \in SUBSET {"ports", "clusters"} : Restart(lost)

Spec == Init /\ [][Next]_vars

-----------------------------------------------------------------------------
(* Properties *)

\* No two nodes have the same port, but for ports that went astray.
OwnPort ==
  \A m, n \in Nodes : m # n /\ Counts(m) /\ Counts(n) /\ port[m] = port[n] => port[m] \in astray

\* The port of every process that runs is allocated, also those of nodes a restart
\* has orphaned.
RunningKeepsPort == \A n \in Nodes : proc[n] # "none" => port[n] \in allocated \cup astray

\* Whatever handlers interleave, fail or are cut off by a restart, ports are never
\* shared and never free while their node runs, but for those that went astray: a
\* request named them, failed while its workers were prepared, tore its cluster down
\* twice or did not stop their node, or the port file was lost
\* (cluster_orchestrator.py:100-112, 251-272, 341-347, 405-413).
PortsKept == OwnPort /\ RunningKeepsPort

\* And a teardown stops nodes of its own cluster only, or of such a port, although it
\* asks whoever listens at the address (cluster_orchestrator.py:617-632).
TeardownSparesOthers ==
  [][\A c \in Clusters : tear[c].at = "stopping" /\ tear'[c].todo # tear[c].todo =>
       \A n \in Nodes \ NodesOf(c) : proc'[n] = proc[n] \/ port[n] \in astray]_vars

\* "Register the new node in the seed's config": a node that was bootstrapped is listed
\* there, once no registration is at work (bootstrap.py:581-594).
RegisteredInSeed ==
  (\A n \in Nodes : boot[n] \notin {"read", "opened"}) =>
    seed.own /\ \A n \in Nodes : boot[n] = "completed" => n \in seed.nodes
=============================================================================
