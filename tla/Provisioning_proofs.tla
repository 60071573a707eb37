------------------------- MODULE Provisioning_proofs -------------------------
(***************************************************************************)
(* Ports that did not go astray are kept, and a teardown spares the nodes  *)
(* that have them, for any clusters, members and port range, whatever      *)
(* handlers interleave, fail or are cut off by a restart.                  *)
(***************************************************************************)
EXTENDS Provisioning, TLAPS, WellFoundedInduction

\* The cluster of n was torn down.
Gone(n) == \E c \in down : n \in NodesOf(c)

\* A port belongs to the node that uses it or will, and to a node that was
\* bootstrapped, as long as its cluster is not torn down, although it may have died.
Holds(n) == Counts(n) \/ (boot[n] = "completed" /\ ~Gone(n))

\* Every holder has an allocated port of its own, or one that went astray.
Held ==
  /\ \A n \in Nodes : Holds(n) => port[n] \in allocated \cup astray
  /\ \A m, n \in Nodes : m # n /\ Holds(m) /\ Holds(n) /\ port[m] = port[n] => port[m] \in astray

\* A node that listened at its port is past the start of its process.
Listened ==
  \A n \in Nodes : boot[n] \in {"read", "opened", "completed"} => proc[n] # "starting" \/ port[n] \in astray

\* What a handler has read of a cluster names the nodes its record names, and those
\* were bootstrapped; a cluster being provisioned has no record yet.
Records ==
  \A c \in Clusters :
    /\ clusters[c].up \subseteq NodesOf(c)
    /\ \A n \in clusters[c].up : boot[n] = "completed"
    /\ prov[c].at \in {"gateway", "workers"} => clusters[c] = NoCluster
    /\ prov[c].todo \subseteq NodesOf(c)
    /\ \A h \in {tear[c], kick[c], prov[c]} :
         h.at \in {"stopping", "kickoff"} =>
           /\ clusters[c] # NoCluster /\ h.rec # NoCluster
           /\ h.rec.up = clusters[c].up
    /\ tear[c].at \in {"idle", "stopping"} /\ kick[c].at \in {"idle", "kickoff"}
    /\ prov[c].at \in {"idle", "gateway", "workers", "kickoff"}

\* A teardown in progress: if it is not the first of the cluster the ports went astray,
\* and those of its nodes whose turn has been do not run.
Stopping ==
  \A c \in Clusters : tear[c].at = "stopping" => \A n \in tear[c].rec.up :
    /\ c \in down => port[n] \in astray
    /\ n \notin tear[c].todo => proc[n] = "none" \/ port[n] \in astray

Safe == Held /\ Listened /\ Stopping

PortInv == TypeOK /\ Records /\ Safe

-----------------------------------------------------------------------------
(* Members and ports *)

LEMMA ClusterNodes ==
  ASSUME NEW c \in Clusters
  PROVE  /\ NodesOf(c) \subseteq Nodes /\ Gateway(c) \in NodesOf(c) /\ WorkersOf(c) \subseteq NodesOf(c)
         /\ \A d \in Clusters : \A n \in NodesOf(c) : n \in NodesOf(d) => c = d
<1>1. Members[c] \in Seq(Nodes) /\ Members[c] # <<>>
  BY ProvisioningAssumption
<1>2. 1 \in DOMAIN Members[c]
  BY <1>1
<1>3. Gateway(c) \in NodesOf(c)
  BY <1>2 DEF Gateway, NodesOf, Range
<1>4. QED
  BY <1>3, ProvisioningAssumption DEF Nodes, WorkersOf

LEMMA LeastPort ==
  ASSUME TypeOK, FreePorts # {}
  PROVE  /\ NextPort \in Ports /\ NextPort \notin allocated /\ NextPort # NoPort
         /\ \A n \in Nodes : proc[n] = "up" => port[n] # NextPort
<1> DEFINE R == {ss \in Nat \X Nat : ss[1] < ss[2]}
<1>1. IsWellFoundedOn(R, Nat)
  BY NatLessThanWellFounded DEF OpToRel
<1>2. FreePorts \subseteq Nat
  BY ProvisioningAssumption DEF FreePorts
<1>3. PICK p \in FreePorts : \A q \in FreePorts : ~(<<q, p>> \in R)
  BY <1>1, <1>2, WFMin
<1>4. ASSUME NEW q \in FreePorts PROVE p <= q
  <2>1. p \in Nat /\ q \in Nat /\ ~(q < p)
    BY <1>2, <1>3
  <2>2. QED
    BY <2>1
<1>5. NextPort \in FreePorts
  BY <1>4 DEF NextPort, Min
<1>6. QED
  BY <1>5, ProvisioningAssumption DEF FreePorts, InUse

-----------------------------------------------------------------------------
(* Types *)

LEMMA BudgetType ==
  ASSUME TypeOK, NEW what \in {"provision", "teardown", "kickoff", "fault"}, Spend(what)
  PROVE  left' \in Budget
BY DEF TypeOK, Spend, Budget

LEMMA InitType == Init => TypeOK
<1> SUFFICES ASSUME Init PROVE TypeOK
  OBVIOUS
<1>1. NoCluster \in ClusterRec
  BY DEF NoCluster, ClusterRec
<1>2. Idle \in Handler
  BY <1>1 DEF Idle, Handler
<1>3. left \in Budget
  BY ProvisioningAssumption DEF Init
<1>4. QED
  BY <1>1, <1>2, <1>3 DEF Init, TypeOK, BootStates, SeedFile

LEMMA BootType ==
  ASSUME TypeOK, NEW n \in Nodes, Bootstrap(n)
  PROVE  TypeOK'
<1> USE DEF TypeOK, BootStep, orchVars, Go, BootStates
<1>1. CASE CreateDirs(n)
  BY <1>1 DEF CreateDirs
<1>2. CASE WriteConfig(n)
  BY <1>2 DEF WriteConfig
<1>3. CASE StartNode(n)
  BY <1>3 DEF StartNode
<1>4. CASE StepFails(n)
  <2>1. left' \in Budget
    BY <1>4, BudgetType DEF StepFails
  <2>2. QED
    BY <1>4, <2>1 DEF StepFails
<1>5. CASE StartWaited(n)
  BY <1>5 DEF StartWaited
<1>6. CASE HealthChecked(n)
  BY <1>6 DEF HealthChecked
<1>7. CASE HealthFails(n)
  BY <1>7 DEF HealthFails
<1>8. CASE OpenSeed(n)
  BY <1>8 DEF OpenSeed, Truncated, SeedFile
<1>9. CASE WriteSeed(n)
  <2>1. [seen[n] EXCEPT !.nodes = @ \cup {n}] \in SeedFile
    BY DEF SeedFile
  <2>2. QED
    BY <1>9, <2>1 DEF WriteSeed
<1>10. CASE Rollback(n)
  BY <1>10 DEF Rollback
<1>11. QED
  BY <1>1, <1>2, <1>3, <1>4, <1>5, <1>6, <1>7, <1>8, <1>9, <1>10 DEF Bootstrap

LEMMA ProcessType ==
  ASSUME TypeOK, NEW n \in Nodes, Binds(n) \/ Dies(n)
  PROVE  TypeOK'
<1>1. proc' \in [Nodes -> {"none", "starting", "up"}]
  BY DEF TypeOK, Binds, Dies
<1>2. left' \in Budget
  BY BudgetType DEF TypeOK, Binds, Dies
<1>3. QED
  BY <1>1, <1>2 DEF TypeOK, Binds, Dies, orchVars

LEMMA HandlerOf ==
  ASSUME NEW at \in {"idle", "gateway", "workers", "gather", "kickoff", "stopping"},
         NEW todo \in SUBSET Nodes, NEW rec \in ClusterRec
  PROVE  [at |-> at, todo |-> todo, rec |-> rec] \in Handler
BY DEF Handler

LEMMA NothingRecorded == NoCluster \in ClusterRec /\ Idle \in Handler
BY DEF NoCluster, ClusterRec, Idle, Handler

LEMMA AsksType ==
  ASSUME TypeOK, NEW c \in Clusters, NEW phase \in {"gateway", "workers"}, NEW todo \in SUBSET Nodes,
         Asks(c, phase, todo)
  PROVE  prov' \in [Clusters -> Handler]
<1>1. [at |-> phase, todo |-> todo, rec |-> NoCluster] \in Handler
  BY HandlerOf, NothingRecorded
<1>2. QED
  BY <1>1 DEF Asks, TypeOK

LEMMA ReturnsType ==
  ASSUME TypeOK, NEW c \in Clusters, Returns(c)
  PROVE  prov' \in [Clusters -> Handler]
BY NothingRecorded DEF Returns, TypeOK

LEMMA RecordedType ==
  ASSUME TypeOK, NEW c \in Clusters, NEW rec \in ClusterRec, Recorded(c, rec)
  PROVE  clusters' \in [Clusters -> ClusterRec]
BY DEF Recorded, TypeOK

LEMMA PortType ==
  ASSUME TypeOK, NEW n \in Nodes, GetsPort(n)
  PROVE  /\ allocated' \subseteq Ports /\ port' \in [Nodes -> Ports \cup {NoPort}]
         /\ astray' \subseteq Ports \cup {NoPort}
<1>1. CASE Allocate(n)
  BY <1>1, LeastPort DEF Allocate, Sets, TypeOK
<1>2. CASE TakeGiven(n)
  <2>1. PICK p \in Given : Sets(n, p) /\ astray' = astray \cup {p}
    BY <1>2 DEF TakeGiven, Named
  <2>2. p \in Ports
    BY ProvisioningAssumption
  <2>3. QED
    BY <1>2, <2>1, <2>2 DEF TakeGiven, Sets, TypeOK
<1>3. QED
  BY <1>1, <1>2 DEF GetsPort

LEMMA ReleaseType ==
  ASSUME TypeOK, NEW set \in SUBSET (Ports \cup {NoPort}), ReleaseAnyway(set)
  PROVE  allocated' \subseteq Ports /\ astray' \subseteq Ports \cup {NoPort}
BY DEF ReleaseAnyway, Release, TypeOK

LEMMA ProvisionType ==
  ASSUME TypeOK, NEW c \in Clusters, Provision(c) \/ ProvisionFails(c) \/ GatewayBooted(c) \/ NextWorker(c)
  PROVE  TypeOK'
<1>1. CASE Provision(c)
  <2>1. left' \in Budget
    BY <1>1, BudgetType DEF Provision, Asked
  <2>2. boot' \in [Nodes -> BootStates]
    BY <1>1 DEF Provision, BootStates, TypeOK
  <2>3. prov' \in [Clusters -> Handler]
    BY <1>1, AsksType DEF Provision
  <2>4. /\ allocated' \subseteq Ports /\ port' \in [Nodes -> Ports \cup {NoPort}]
        /\ astray' \subseteq Ports \cup {NoPort}
    BY <1>1, PortType, ClusterNodes DEF Provision
  <2>5. QED
    BY <1>1, <2>1, <2>2, <2>3, <2>4 DEF Provision, TypeOK
<1>2. CASE GatewayBooted(c)
  <2>1. WorkersOf(c) \in SUBSET Nodes
    BY ClusterNodes
  <2>2. prov' \in [Clusters -> Handler]
    BY <1>2, <2>1, AsksType, ReturnsType DEF GatewayBooted
  <2>3. QED
    BY <1>2, <2>2 DEF GatewayBooted, TypeOK, nodeVars
<1>3. CASE NextWorker(c)
  <2>1. PICK n \in prov[c].todo : /\ GetsPort(n) /\ Go(n, "dirs")
                                  /\ Asks(c, "workers", prov[c].todo \ {n})
    BY <1>3 DEF NextWorker
  <2>2. prov[c].todo \in SUBSET Nodes
    BY DEF TypeOK, Handler
  <2>3. prov' \in [Clusters -> Handler]
    BY <2>1, <2>2, AsksType
  <2>4. /\ allocated' \subseteq Ports /\ port' \in [Nodes -> Ports \cup {NoPort}]
        /\ astray' \subseteq Ports \cup {NoPort}
    BY <2>1, <2>2, PortType
  <2>5. boot' \in [Nodes -> BootStates]
    BY <2>1 DEF Go, BootStates, TypeOK
  <2>6. QED
    BY <1>3, <2>3, <2>4, <2>5 DEF NextWorker, TypeOK
<1>4. CASE ProvisionFails(c)
  <2>1. PICK p \in Given : ReleaseAnyway({p})
    BY <1>4 DEF ProvisionFails, Named
  <2>2. {p} \in SUBSET (Ports \cup {NoPort})
    BY ProvisioningAssumption
  <2>3. left' \in Budget
    BY <1>4, BudgetType DEF ProvisionFails, Asked
  <2>4. allocated' \subseteq Ports /\ astray' \subseteq Ports \cup {NoPort}
    BY <2>1, <2>2, ReleaseType
  <2>5. QED
    BY <1>4, <2>3, <2>4 DEF ProvisionFails, TypeOK, nodeVars
<1>5. QED
  BY <1>1, <1>2, <1>3, <1>4

LEMMA ProvisionedType ==
  ASSUME TypeOK, NEW c \in Clusters, WorkersFail(c) \/ Gather(c) \/ ProvisionKicksOff(c)
  PROVE  TypeOK'
<1>1. CASE WorkersFail(c)
  <2>1. PICK named \in SUBSET Given :
          ReleaseAnyway({port[m] : m \in NodesOf(c) \ prov[c].todo} \cup named)
    BY <1>1 DEF WorkersFail, Named
  <2>2. {port[m] : m \in NodesOf(c) \ prov[c].todo} \cup named \in SUBSET (Ports \cup {NoPort})
    <3>1. \A m \in NodesOf(c) : port[m] \in Ports \cup {NoPort}
      BY ClusterNodes DEF TypeOK
    <3>2. named \subseteq Ports
      BY ProvisioningAssumption
    <3>3. QED
      BY <3>1, <3>2
  <2>3. allocated' \subseteq Ports /\ astray' \subseteq Ports \cup {NoPort}
    BY <2>1, <2>2, ReleaseType
  <2>4. QED
    BY <1>1, <2>3, ReturnsType DEF WorkersFail, TypeOK, nodeVars
<1>2. CASE Gather(c)
  <2> DEFINE rec == [status |-> IF UpNodes(c) = NodesOf(c) THEN "running" ELSE "partial", up |-> UpNodes(c)]
  <2>1. rec \in ClusterRec
    BY ClusterNodes DEF ClusterRec, UpNodes
  <2>2. clusters' \in [Clusters -> ClusterRec]
    BY <1>2, <2>1, RecordedType DEF Gather
  <2>3. [at |-> "kickoff", todo |-> {}, rec |-> rec] \in Handler
    BY <2>1, HandlerOf
  <2>4. prov' \in [Clusters -> Handler]
    BY <1>2, <2>3, NothingRecorded DEF Gather, TypeOK
  <2>5. QED
    BY <1>2, <2>2, <2>4 DEF Gather, TypeOK, nodeVars
<1>3. CASE ProvisionKicksOff(c)
  <2>1. prov[c].rec \in ClusterRec
    BY DEF TypeOK, Handler
  <2>2. QED
    BY <1>3, <2>1, ReturnsType, RecordedType DEF ProvisionKicksOff, TypeOK, nodeVars
<1>4. QED
  BY <1>1, <1>2, <1>3

LEMMA ShutType ==
  ASSUME TypeOK, NEW n \in Nodes
  PROVE  /\ Shut(n) \in [Nodes -> {"none", "starting", "up"}]
         /\ \A m \in Nodes : Shut(n)[m] \in {"none", proc[m]}
BY DEF Shut, TypeOK

LEMMA TeardownType ==
  ASSUME TypeOK, NEW c \in Clusters, Teardown(c) \/ ShutdownNode(c) \/ TornDown(c)
  PROVE  TypeOK'
<1>1. CASE Teardown(c)
  <2>1. left' \in Budget
    BY <1>1, BudgetType DEF Teardown
  <2>2. [at |-> "stopping", todo |-> NodesOf(c), rec |-> clusters[c]] \in Handler
    BY HandlerOf, ClusterNodes DEF TypeOK
  <2>3. tear' \in [Clusters -> Handler]
    BY <1>1, <2>2 DEF Teardown, TypeOK
  <2>4. astray' \subseteq Ports \cup {NoPort}
    BY <1>1 DEF Teardown, TypeOK, ClusterRec
  <2>5. QED
    BY <1>1, <2>1, <2>3, <2>4 DEF Teardown, TypeOK, nodeVars
<1>2. CASE ShutdownNode(c)
  <2>1. PICK n \in tear[c].todo : /\ tear' = [tear EXCEPT ![c].todo = @ \ {n}]
                                  /\ proc' \in {proc, Shut(n)} /\ astray' \in {astray, astray \cup {port[n]}}
    BY <1>2 DEF ShutdownNode
  <2>2. n \in Nodes /\ [tear[c] EXCEPT !.todo = @ \ {n}] \in Handler
    <3>1. tear[c] \in Handler
      BY DEF TypeOK
    <3>2. QED
      BY <3>1 DEF Handler
  <2>3. tear' \in [Clusters -> Handler]
    BY <2>1, <2>2 DEF TypeOK
  <2>4. proc' \in [Nodes -> {"none", "starting", "up"}]
    BY <2>1, <2>2, ShutType DEF TypeOK
  <2>5. astray' \subseteq Ports \cup {NoPort}
    BY <2>1, <2>2 DEF TypeOK
  <2>6. QED
    BY <1>2, <2>3, <2>4, <2>5 DEF ShutdownNode, TypeOK
<1>3. CASE TornDown(c)
  <2>1. tear[c].rec \in ClusterRec
    BY DEF TypeOK, Handler
  <2>2. [tear[c].rec EXCEPT !.status = "torn_down"] \in ClusterRec
    BY <2>1 DEF ClusterRec
  <2>3. clusters' \in [Clusters -> ClusterRec]
    BY <1>3, <2>2, RecordedType DEF TornDown
  <2>4. tear' \in [Clusters -> Handler]
    BY <1>3, NothingRecorded DEF TornDown, TypeOK
  <2>5. QED
    BY <1>3, <2>3, <2>4 DEF TornDown, Release, TypeOK, nodeVars
<1>4. QED
  BY <1>1, <1>2, <1>3

LEMMA KickoffType ==
  ASSUME TypeOK, NEW c \in Clusters, Kickoff(c) \/ KickedOffNow(c)
  PROVE  TypeOK'
<1>1. CASE Kickoff(c)
  <2>1. left' \in Budget
    BY <1>1, BudgetType DEF Kickoff
  <2>2. [at |-> "kickoff", todo |-> {}, rec |-> clusters[c]] \in Handler
    BY HandlerOf DEF TypeOK
  <2>3. QED
    BY <1>1, <2>1, <2>2 DEF Kickoff, TypeOK, nodeVars
<1>2. CASE KickedOffNow(c)
  <2>1. kick[c].rec \in ClusterRec
    BY DEF TypeOK, Handler
  <2>2. QED
    BY <1>2, <2>1, RecordedType, NothingRecorded DEF KickedOffNow, TypeOK, nodeVars
<1>3. QED
  BY <1>1, <1>2

LEMMA RestartType ==
  ASSUME TypeOK, NEW lost \in SUBSET {"ports", "clusters"}, Restart(lost)
  PROVE  TypeOK'
<1>1. left' \in Budget
  BY BudgetType DEF Restart
<1>2. [c \in Clusters |-> NoCluster] \in [Clusters -> ClusterRec] /\ [c \in Clusters |-> Idle] \in [Clusters -> Handler]
  BY NothingRecorded
<1>3. clusters' \in [Clusters -> ClusterRec] /\ prov' \in [Clusters -> Handler]
  BY <1>2 DEF Restart, TypeOK
<1>4. boot' \in [Nodes -> BootStates]
  BY DEF Restart, TypeOK, BootStates
<1>5. QED
  BY <1>1, <1>3, <1>4 DEF Restart, TypeOK

LEMMA StepType == TypeOK /\ [Next]_vars => TypeOK'
<1> SUFFICES ASSUME TypeOK, [Next]_vars PROVE TypeOK'
  OBVIOUS
<1>1. ASSUME NEW n \in Nodes, Bootstrap(n) \/ Binds(n) \/ Dies(n)
      PROVE  TypeOK'
  BY <1>1, BootType, ProcessType
<1>2. ASSUME NEW c \in Clusters, Orchestrate(c)
      PROVE  TypeOK'
  BY <1>2, ProvisionType, ProvisionedType, TeardownType, KickoffType DEF Orchestrate
<1>3. ASSUME NEW lost \in SUBSET {"ports", "clusters"}, Restart(lost)
      PROVE  TypeOK'
  BY <1>3, RestartType
<1>4. CASE UNCHANGED vars
  BY <1>4 DEF TypeOK, vars, orchVars, nodeVars
<1>5. QED
  BY <1>1, <1>2, <1>3, <1>4 DEF Next

\* Allocator, records, handlers, bootstraps and processes have their types, for any
\* clusters and any range of ports (cluster_orchestrator.py, bootstrap.py).
THEOREM TypeCorrect == Spec => []TypeOK
BY InitType, StepType, PTL DEF Spec

-----------------------------------------------------------------------------
(* Records and handlers *)

\* The part of Records about one cluster.
RecordOf(c) ==
  /\ clusters[c].up \subseteq NodesOf(c)
  /\ \A n \in clusters[c].up : boot[n] = "completed"
  /\ prov[c].at \in {"gateway", "workers"} => clusters[c] = NoCluster
  /\ prov[c].todo \subseteq NodesOf(c)
  /\ \A h \in {tear[c], kick[c], prov[c]} :
       h.at \in {"stopping", "kickoff"} =>
         /\ clusters[c] # NoCluster /\ h.rec # NoCluster
         /\ h.rec.up = clusters[c].up
  /\ tear[c].at \in {"idle", "stopping"} /\ kick[c].at \in {"idle", "kickoff"}
  /\ prov[c].at \in {"idle", "gateway", "workers", "kickoff"}

LEMMA RecordsOf == Records <=> \A c \in Clusters : RecordOf(c)
BY DEF Records, RecordOf

LEMMA InitRecords == Init => Records
BY DEF Init, Records, Idle, NoCluster

\* A cluster whose record, handlers and nodes are left alone.
LEMMA RecordKept ==
  ASSUME NEW c \in Clusters, RecordOf(c),
         clusters'[c] = clusters[c], prov'[c] = prov[c], tear'[c] = tear[c], kick'[c] = kick[c],
         \A n \in NodesOf(c) : boot[n] = "completed" => boot'[n] = "completed"
  PROVE  RecordOf(c)'
BY DEF RecordOf

LEMMA BootRecords ==
  ASSUME Records, TypeOK, NEW n \in Nodes, Bootstrap(n) \/ Binds(n) \/ Dies(n)
  PROVE  Records'
<1>1. UNCHANGED orchVars
  BY DEF Bootstrap, BootStep, CreateDirs, WriteConfig, StartNode, StepFails, StartWaited,
         HealthChecked, HealthFails, OpenSeed, WriteSeed, Rollback, Binds, Dies
<1>2. \A m \in Nodes : boot[m] = "completed" => boot'[m] = "completed"
  BY DEF Bootstrap, Go, CreateDirs, WriteConfig, StartNode, StepFails, StartWaited,
         HealthChecked, HealthFails, OpenSeed, WriteSeed, Rollback, Binds, Dies, TypeOK
<1>3. ASSUME NEW c \in Clusters PROVE RecordOf(c)'
  <2>1. RecordOf(c)
    BY RecordsOf
  <2>2. QED
    BY <1>1, <1>2, <2>1, RecordKept, ClusterNodes DEF orchVars
<1>4. QED
  BY <1>3, RecordsOf DEF Records, RecordOf

\* A cluster without a record has no handler that has read one.
LEMMA Unrecorded ==
  ASSUME Records, NEW c \in Clusters, clusters[c] = NoCluster
  PROVE  tear[c].at = "idle" /\ kick[c].at = "idle" /\ prov[c].at # "kickoff"
BY DEF Records

LEMMA ProvisionRecords ==
  ASSUME Records, TypeOK, NEW c \in Clusters,
         Provision(c) \/ ProvisionFails(c) \/ GatewayBooted(c) \/ NextWorker(c) \/ WorkersFail(c)
  PROVE  Records'
<1>1. clusters' = clusters /\ tear' = tear /\ kick' = kick
  BY DEF Provision, ProvisionFails, GatewayBooted, NextWorker, WorkersFail
<1>2. RecordOf(c) /\ clusters[c] = NoCluster /\ tear[c].at = "idle" /\ kick[c].at = "idle" /\ clusters[c].up = {}
  BY RecordsOf, Unrecorded DEF Records, Provision, ProvisionFails, Asked, GatewayBooted, NextWorker, WorkersFail, NoCluster
<1>3. \A d \in Clusters \ {c} : prov'[d] = prov[d]
  BY DEF Provision, ProvisionFails, GatewayBooted, NextWorker, WorkersFail, Asks, Returns, TypeOK
<1>4. \A m \in Nodes \ NodesOf(c) : boot'[m] = boot[m]
  <2>1. CASE Provision(c)
    BY <2>1, ClusterNodes DEF Provision
  <2>2. CASE ProvisionFails(c) \/ GatewayBooted(c) \/ WorkersFail(c)
    BY <2>2 DEF ProvisionFails, GatewayBooted, WorkersFail, nodeVars
  <2>3. CASE NextWorker(c)
    <3>1. PICK n \in prov[c].todo : Go(n, "dirs")
      BY <2>3 DEF NextWorker
    <3>2. n \in NodesOf(c)
      BY <1>2 DEF RecordOf
    <3>3. QED
      BY <3>1, <3>2 DEF Go, TypeOK
  <2>4. QED
    BY <2>1, <2>2, <2>3
<1>5. prov'[c].at \in {"idle", "gateway", "workers"} /\ prov'[c].todo \subseteq NodesOf(c)
  <2>1. CASE Provision(c)
    BY <2>1 DEF Provision, Asks, TypeOK
  <2>2. CASE GatewayBooted(c)
    BY <2>2, ClusterNodes DEF GatewayBooted, Asks, Returns, Idle, TypeOK
  <2>3. CASE NextWorker(c)
    <3>1. PICK n \in prov[c].todo : Asks(c, "workers", prov[c].todo \ {n})
      BY <2>3 DEF NextWorker
    <3>2. QED
      BY <1>2, <3>1 DEF Asks, RecordOf, TypeOK
  <2>4. CASE WorkersFail(c)
    BY <2>4 DEF WorkersFail, Returns, Idle, TypeOK
  <2>5. CASE ProvisionFails(c)
    BY <1>2, <2>5 DEF ProvisionFails, Asked, RecordOf
  <2>6. QED
    BY <2>1, <2>2, <2>3, <2>4, <2>5
<1>6. RecordOf(c)'
  BY <1>1, <1>2, <1>5 DEF RecordOf
<1>7. ASSUME NEW d \in Clusters \ {c} PROVE RecordOf(d)'
  <2>1. RecordOf(d) /\ \A n \in NodesOf(d) : n \in Nodes \ NodesOf(c)
    BY RecordsOf, ClusterNodes
  <2>2. QED
    BY <1>1, <1>3, <1>4, <2>1, RecordKept
<1>8. QED
  BY <1>6, <1>7 DEF Records, RecordOf

\* Steps that change one cluster's record and handlers, and no bootstrap.
LEMMA OneRecord ==
  ASSUME Records, NEW c \in Clusters, boot' = boot,
         \A d \in Clusters \ {c} :
           clusters'[d] = clusters[d] /\ prov'[d] = prov[d] /\ tear'[d] = tear[d] /\ kick'[d] = kick[d],
         RecordOf(c)'
  PROVE  Records'
<1>1. ASSUME NEW d \in Clusters \ {c} PROVE RecordOf(d)'
  BY <1>1, RecordsOf, RecordKept
<1>2. QED
  BY <1>1 DEF Records, RecordOf

LEMMA GatherRecords ==
  ASSUME Records, TypeOK, NEW c \in Clusters, Gather(c)
  PROVE  Records'
<1> DEFINE rec == [status |-> IF UpNodes(c) = NodesOf(c) THEN "running" ELSE "partial", up |-> UpNodes(c)]
<1>1. /\ boot' = boot /\ tear' = tear /\ kick' = kick
      /\ clusters' = [clusters EXCEPT ![c] = rec]
      /\ prov' = [prov EXCEPT ![c] = IF c \in KickedOff /\ rec.status = "running"
                                     THEN [at |-> "kickoff", todo |-> {}, rec |-> rec] ELSE Idle]
  BY DEF Gather, Recorded, nodeVars
<1>2. tear[c].at = "idle" /\ kick[c].at = "idle"
  BY Unrecorded DEF Records, Gather
<1>3. rec # NoCluster /\ rec.up \subseteq NodesOf(c) /\ \A n \in rec.up : boot[n] = "completed"
  BY DEF NoCluster, UpNodes
<1> HIDE DEF rec
<1>4. clusters'[c] = rec
  BY <1>1 DEF TypeOK
<1>5. \/ prov'[c] = Idle
      \/ prov'[c].at = "kickoff" /\ prov'[c].todo = {} /\ prov'[c].rec = rec
  BY <1>1 DEF TypeOK
<1>6. RecordOf(c)'
  BY <1>1, <1>2, <1>3, <1>4, <1>5 DEF RecordOf, Idle
<1>7. QED
  BY <1>1, <1>6, OneRecord DEF TypeOK

LEMMA TeardownRecords ==
  ASSUME Records, TypeOK, NEW c \in Clusters, Teardown(c) \/ ShutdownNode(c)
  PROVE  Records'
<1>1. /\ boot' = boot /\ prov' = prov /\ kick' = kick /\ clusters' = clusters
      /\ \A d \in Clusters \ {c} : tear'[d] = tear[d]
  BY DEF Teardown, ShutdownNode, nodeVars, TypeOK
<1>2. /\ clusters[c] # NoCluster /\ tear'[c].at = "stopping"
      /\ \/ tear'[c].rec = clusters[c]
         \/ tear[c].at = "stopping" /\ tear'[c].rec = tear[c].rec
  <2>1. CASE Teardown(c)
    <3>1. tear'[c] = [at |-> "stopping", todo |-> NodesOf(c), rec |-> clusters[c]] /\ clusters[c] # NoCluster
      BY <2>1 DEF Teardown, TypeOK
    <3>2. QED
      BY <3>1
  <2>2. CASE ShutdownNode(c)
    <3>1. PICK n \in tear[c].todo : tear' = [tear EXCEPT ![c].todo = @ \ {n}]
      BY <2>2 DEF ShutdownNode
    <3>2. tear[c].at = "stopping" /\ clusters[c] # NoCluster
      BY <2>2 DEF ShutdownNode, Records
    <3>3. tear[c] \in Handler /\ tear'[c] = [tear[c] EXCEPT !.todo = @ \ {n}]
      BY <3>1 DEF TypeOK
    <3>4. tear'[c].at = tear[c].at /\ tear'[c].rec = tear[c].rec
      BY <3>3 DEF Handler
    <3>5. QED
      BY <3>2, <3>4
  <2>3. QED
    BY <2>1, <2>2
<1>3. RecordOf(c)
  BY RecordsOf
<1>4. RecordOf(c)'
  BY <1>1, <1>2, <1>3 DEF RecordOf
<1>5. QED
  BY <1>1, <1>4, OneRecord

\* A handler writes what it had read, with the status it has come to, and ends.
LEMMA WrittenBack ==
  ASSUME Records, TypeOK, NEW c \in Clusters, ProvisionKicksOff(c) \/ TornDown(c) \/ KickedOffNow(c)
  PROVE  Records'
<1>1. boot' = boot /\ RecordOf(c)
  BY RecordsOf DEF ProvisionKicksOff, TornDown, KickedOffNow, nodeVars
<1>2. clusters[c] # NoCluster /\ clusters'[c] # NoCluster /\ clusters'[c].up = clusters[c].up
  <2>1. CASE ProvisionKicksOff(c)
    BY <1>1, <2>1 DEF ProvisionKicksOff, Recorded, RecordOf, TypeOK
  <2>2. CASE TornDown(c)
    <3>1. tear[c].rec \in ClusterRec
      BY DEF TypeOK, Handler
    <3>2. clusters'[c] = [tear[c].rec EXCEPT !.status = "torn_down"]
      BY <2>2 DEF TornDown, Recorded, TypeOK
    <3>3. clusters'[c].up = tear[c].rec.up /\ clusters'[c].status = "torn_down"
      BY <3>1, <3>2 DEF ClusterRec
    <3>4. QED
      BY <1>1, <2>2, <3>3 DEF TornDown, RecordOf, NoCluster
  <2>3. CASE KickedOffNow(c)
    BY <1>1, <2>3 DEF KickedOffNow, Recorded, RecordOf, TypeOK
  <2>4. QED
    BY <2>1, <2>2, <2>3
<1>3. /\ prov'[c] \in {prov[c], Idle} /\ tear'[c] \in {tear[c], Idle} /\ kick'[c] \in {kick[c], Idle}
      /\ \A d \in Clusters \ {c} :
           clusters'[d] = clusters[d] /\ prov'[d] = prov[d] /\ tear'[d] = tear[d] /\ kick'[d] = kick[d]
  BY DEF ProvisionKicksOff, TornDown, KickedOffNow, Returns, Recorded, TypeOK
<1>4. RecordOf(c)'
  BY <1>1, <1>2, <1>3 DEF RecordOf, Idle
<1>5. QED
  BY <1>1, <1>3, <1>4, OneRecord

LEMMA KickoffRecords ==
  ASSUME Records, TypeOK, NEW c \in Clusters, Kickoff(c)
  PROVE  Records'
<1>1. /\ boot' = boot /\ prov' = prov /\ tear' = tear /\ clusters' = clusters
      /\ \A d \in Clusters \ {c} : kick'[d] = kick[d]
      /\ clusters[c] # NoCluster /\ kick'[c].at = "kickoff" /\ kick'[c].rec = clusters[c]
  BY DEF Kickoff, nodeVars, TypeOK
<1>2. RecordOf(c)
  BY RecordsOf
<1>3. RecordOf(c)'
  BY <1>1, <1>2 DEF RecordOf
<1>4. QED
  BY <1>1, <1>3, OneRecord

LEMMA RestartRecords ==
  ASSUME Records, TypeOK, NEW lost \in SUBSET {"ports", "clusters"}, Restart(lost)
  PROVE  Records'
<1>1. \A c \in Clusters : /\ prov'[c] = Idle /\ tear'[c] = Idle /\ kick'[c] = Idle
                         /\ clusters'[c] \in {clusters[c], NoCluster}
  BY DEF Restart
<1>2. \A n \in Nodes : boot[n] = "completed" => boot'[n] = "completed"
  BY DEF Restart, Ended
<1>3. \A c \in Clusters : NodesOf(c) \subseteq Nodes
  BY ClusterNodes
<1>4. QED
  BY <1>1, <1>2, <1>3 DEF Records, Idle, NoCluster

LEMMA StepRecords == Records /\ TypeOK /\ [Next]_vars => Records'
<1> SUFFICES ASSUME Records, TypeOK, [Next]_vars PROVE Records'
  OBVIOUS
<1>1. ASSUME NEW n \in Nodes, Bootstrap(n) \/ Binds(n) \/ Dies(n)
      PROVE  Records'
  BY <1>1, BootRecords
<1>2. ASSUME NEW c \in Clusters, Orchestrate(c)
      PROVE  Records'
  BY <1>2, ProvisionRecords, GatherRecords, TeardownRecords, WrittenBack, KickoffRecords DEF Orchestrate
<1>3. ASSUME NEW lost \in SUBSET {"ports", "clusters"}, Restart(lost)
      PROVE  Records'
  BY <1>3, RestartRecords
<1>4. CASE UNCHANGED vars
  BY <1>4 DEF Records, vars, orchVars, nodeVars
<1>5. QED
  BY <1>1, <1>2, <1>3, <1>4 DEF Next

-----------------------------------------------------------------------------
(* Ports *)

LEMMA InitSafe == Init => Safe
<1> SUFFICES ASSUME Init PROVE Safe
  OBVIOUS
<1>1. \A n \in Nodes : ~Holds(n)
  BY DEF Init, Holds, Counts
<1>2. QED
  BY <1>1 DEF Init, Safe, Held, Listened, Stopping, Idle

\* A bootstrap has the port to itself, and so has what it started.
LEMMA AloneOnPort ==
  ASSUME Held, NEW m \in Nodes, NEW n \in Nodes, proc[m] = "up", Holds(n), port[m] = port[n],
         port[n] \notin astray
  PROVE  m = n
BY DEF Held, Holds, Counts

\* Steps of one node that allocate and release nothing.
LEMMA NodeSafe ==
  ASSUME TypeOK, Records, Safe, NEW n \in Nodes, UNCHANGED <<allocated, port, down, tear, astray>>,
         \A m \in Nodes \ {n} : boot'[m] = boot[m] /\ proc'[m] = proc[m],
         Holds(n)' => Holds(n),
         boot'[n] \in {"read", "opened", "completed"} => proc'[n] # "starting" \/ port[n] \in astray,
         boot[n] = "completed" /\ proc[n] = "none" => proc'[n] = "none"
  PROVE  Safe'
<1>1. \A m \in Nodes : Holds(m)' => Holds(m)
  BY DEF Holds, Counts, Gone
<1>2. Held'
  BY <1>1 DEF Safe, Held
<1>3. Listened'
  BY DEF Safe, Listened
<1>4. Stopping'
  <2>1. ASSUME NEW c \in Clusters, tear[c].at = "stopping", NEW m \in tear[c].rec.up,
               m \notin tear[c].todo, port[m] \notin astray
        PROVE  proc'[m] = "none"
    <3>1. proc[m] = "none" /\ m \in Nodes /\ boot[m] = "completed"
      BY <2>1, ClusterNodes DEF Safe, Stopping, Records
    <3>2. QED
      BY <3>1
  <2>2. QED
    BY <2>1 DEF Safe, Stopping
<1>5. QED
  BY <1>2, <1>3, <1>4 DEF Safe

LEMMA BootSafe ==
  ASSUME TypeOK, Records, Safe, NEW n \in Nodes, Bootstrap(n)
  PROVE  Safe'
<1>1. UNCHANGED <<allocated, port, down, tear, astray>>
  BY DEF Bootstrap, BootStep, orchVars, CreateDirs, WriteConfig, StartNode, StepFails, StartWaited,
         HealthChecked, HealthFails, OpenSeed, WriteSeed, Rollback
<1>2. \A m \in Nodes \ {n} : boot'[m] = boot[m] /\ proc'[m] = proc[m]
  BY DEF Bootstrap, Go, CreateDirs, WriteConfig, StartNode, StepFails, StartWaited,
         HealthChecked, HealthFails, OpenSeed, WriteSeed, Rollback, TypeOK
<1>3. CASE HealthChecked(n)
  <2>1. PICK m \in Nodes : proc[m] = "up" /\ port[m] = port[n]
    BY <1>3 DEF HealthChecked, InUse
  <2>2. Holds(n) /\ boot'[n] = "read" /\ proc' = proc
    BY <1>3 DEF HealthChecked, Go, TypeOK, Holds, Counts
  <2>3. proc[n] = "up" \/ port[n] \in astray
    BY <2>1, <2>2, AloneOnPort DEF Safe
  <2>4. QED
    BY <1>1, <1>2, <1>3, <2>2, <2>3, NodeSafe DEF HealthChecked
<1>4. CASE Rollback(n)
  <2>1. boot'[n] = "rolled_back" /\ proc'[n] = "none"
    BY <1>4 DEF Rollback, Go, TypeOK
  <2>2. ~Holds(n)'
    BY <2>1 DEF Holds, Counts
  <2>3. QED
    BY <1>1, <1>2, <2>1, <2>2, NodeSafe
<1>5. CASE ~HealthChecked(n) /\ ~Rollback(n)
  <2>1. Holds(n) /\ boot[n] # "completed"
    BY <1>5 DEF Bootstrap, CreateDirs, WriteConfig, StartNode, StepFails, StartWaited,
         HealthFails, OpenSeed, WriteSeed, Holds, Counts
  <2>2. \/ boot'[n] \notin {"read", "opened", "completed"}
        \/ boot[n] \in {"read", "opened"} /\ proc' = proc
    BY <1>5 DEF Bootstrap, Go, CreateDirs, WriteConfig, StartNode, StepFails, StartWaited,
         HealthFails, OpenSeed, WriteSeed, TypeOK
  <2>3. boot'[n] \in {"read", "opened", "completed"} => proc'[n] # "starting" \/ port[n] \in astray
    BY <2>2 DEF Safe, Listened
  <2>4. QED
    BY <1>1, <1>2, <2>1, <2>3, NodeSafe
<1>6. QED
  BY <1>3, <1>4, <1>5

LEMMA ProcessSafe ==
  ASSUME TypeOK, Records, Safe, NEW n \in Nodes, Binds(n) \/ Dies(n)
  PROVE  Safe'
<1>1. /\ UNCHANGED <<allocated, port, down, tear, boot, astray>>
      /\ \A m \in Nodes \ {n} : proc'[m] = proc[m]
      /\ proc[n] # "none" /\ proc'[n] # "starting"
  BY DEF Binds, Dies, orchVars, TypeOK
<1>2. Holds(n)
  BY <1>1 DEF Holds, Counts
<1>3. QED
  BY <1>1, <1>2, NodeSafe

\* Steps that touch neither nodes nor teardowns; what they release went astray.
LEMMA SafeSame ==
  ASSUME Safe, UNCHANGED <<port, down, tear, boot, proc>>,
         astray \subseteq astray', allocated \subseteq allocated' \cup astray'
  PROVE  Safe'
<1>1. \A n \in Nodes : Holds(n)' <=> Holds(n)
  BY DEF Holds, Counts, Gone
<1>2. QED
  BY <1>1 DEF Safe, Held, Listened, Stopping

LEMMA ReleaseSafe ==
  ASSUME Safe, NEW set, ReleaseAnyway(set), UNCHANGED <<port, down, tear, boot, proc>>
  PROVE  Safe'
BY SafeSame DEF ReleaseAnyway, Release

\* A node that no teardown is about gets a port.
LEMMA PortSafe ==
  ASSUME TypeOK, Safe, NEW k \in Nodes, GetsPort(k), UNCHANGED <<proc, down, tear>>,
         boot'[k] = "dirs", \A m \in Nodes \ {k} : boot'[m] \in {boot[m], "none"},
         \A c \in Clusters : tear[c].at = "stopping" => k \notin tear[c].rec.up
  PROVE  Safe'
<1>1. /\ astray \subseteq astray' /\ allocated \subseteq allocated' /\ port'[k] \in allocated' \cup astray'
      /\ port'[k] \in allocated \cup astray => port'[k] \in astray'
      /\ \A m \in Nodes \ {k} : port'[m] = port[m]
  <2>1. CASE Allocate(k)
    <3>1. NextPort \notin allocated
      BY <2>1, LeastPort DEF Allocate
    <3>2. QED
      BY <2>1, <3>1 DEF Allocate, Sets, TypeOK
  <2>2. CASE TakeGiven(k)
    BY <2>2 DEF TakeGiven, Sets, TypeOK
  <2>3. QED
    BY <2>1, <2>2 DEF GetsPort
<1>2. \A m \in Nodes \ {k} : Holds(m)' => Holds(m)
  BY DEF Holds, Counts, Gone
<1>3. \A m \in Nodes \ {k} : Holds(m)' => port'[m] \in allocated \cup astray
  BY <1>1, <1>2 DEF Safe, Held
<1>4. \A m \in Nodes : Holds(m)' => port'[m] \in allocated' \cup astray'
  BY <1>1, <1>3
<1>5. ASSUME NEW m \in Nodes, NEW n \in Nodes, m # n, Holds(m)', Holds(n)', port'[m] = port'[n]
      PROVE  port'[m] \in astray'
  <2>1. CASE m = k \/ n = k
    BY <1>1, <1>3, <1>5, <2>1
  <2>2. CASE m # k /\ n # k
    BY <1>1, <1>2, <1>5, <2>2 DEF Safe, Held
  <2>3. QED
    BY <2>1, <2>2
<1>6. Held'
  BY <1>4, <1>5 DEF Held
<1>7. Listened'
  BY <1>1 DEF Safe, Listened
<1>8. Stopping'
  <2>1. \A c \in Clusters : tear[c].at = "stopping" => \A n \in tear[c].rec.up : n \in Nodes \ {k}
    BY DEF TypeOK, Handler, ClusterRec
  <2>2. QED
    BY <1>1, <2>1 DEF Safe, Stopping
<1>9. QED
  BY <1>6, <1>7, <1>8 DEF Safe

\* No teardown is about a node of a cluster that has no record.
LEMMA NotStopping ==
  ASSUME TypeOK, Records, NEW c \in Clusters, clusters[c] = NoCluster, NEW n \in NodesOf(c),
         NEW d \in Clusters, tear[d].at = "stopping"
  PROVE  n \notin tear[d].rec.up
<1>1. d # c
  BY Unrecorded
<1>2. tear[d].rec.up \subseteq NodesOf(d)
  BY DEF Records
<1>3. QED
  BY <1>1, <1>2, ClusterNodes

LEMMA ProvisionSafe ==
  ASSUME TypeOK, Records, Safe, NEW c \in Clusters, Provision(c) \/ NextWorker(c)
  PROVE  Safe'
<1>1. CASE Provision(c)
  <2>1. clusters[c] = NoCluster /\ Gateway(c) \in NodesOf(c) /\ Gateway(c) \in Nodes
    BY <1>1, ClusterNodes DEF Provision, Asked
  <2>2. \A d \in Clusters : tear[d].at = "stopping" => Gateway(c) \notin tear[d].rec.up
    BY <2>1, NotStopping
  <2>3. QED
    BY <1>1, <2>1, <2>2, PortSafe DEF Provision, TypeOK
<1>2. CASE NextWorker(c)
  <2>1. PICK n \in prov[c].todo : GetsPort(n) /\ Go(n, "dirs")
    BY <1>2 DEF NextWorker
  <2>2. n \in Nodes /\ n \in NodesOf(c) /\ clusters[c] = NoCluster
    BY <1>2 DEF TypeOK, Handler, Records, NextWorker
  <2>3. boot'[n] = "dirs" /\ \A m \in Nodes \ {n} : boot'[m] = boot[m]
    BY <2>1, <2>2 DEF Go, TypeOK
  <2>4. UNCHANGED <<proc, down, tear>>
    BY <1>2 DEF NextWorker
  <2>5. \A d \in Clusters : tear[d].at = "stopping" => n \notin tear[d].rec.up
    BY <2>2, NotStopping
  <2>6. QED
    BY <2>1, <2>2, <2>3, <2>4, <2>5, PortSafe
<1>3. QED
  BY <1>1, <1>2

LEMMA FailedSafe ==
  ASSUME TypeOK, Safe, NEW c \in Clusters, ProvisionFails(c) \/ WorkersFail(c)
  PROVE  Safe'
<1>1. CASE ProvisionFails(c)
  BY <1>1, ReleaseSafe DEF ProvisionFails, nodeVars
<1>2. CASE WorkersFail(c)
  BY <1>2, ReleaseSafe DEF WorkersFail, nodeVars
<1>3. QED
  BY <1>1, <1>2

LEMMA TeardownSafe ==
  ASSUME TypeOK, Records, Safe, NEW c \in Clusters, Teardown(c)
  PROVE  Safe'
<1>1. /\ UNCHANGED <<allocated, port, down, boot, proc>> /\ astray \subseteq astray'
      /\ c \in down => \A n \in clusters[c].up : port[n] \in astray'
      /\ tear' = [tear EXCEPT ![c] = [at |-> "stopping", todo |-> NodesOf(c), rec |-> clusters[c]]]
  BY DEF Teardown, nodeVars
<1>2. \A n \in Nodes : Holds(n)' <=> Holds(n)
  BY <1>1 DEF Holds, Counts, Gone
<1>3. /\ tear'[c].rec.up = clusters[c].up /\ tear'[c].rec.up \subseteq tear'[c].todo
      /\ \A d \in Clusters \ {c} : tear'[d] = tear[d]
  BY <1>1 DEF Records, TypeOK
<1>4. Stopping'
  BY <1>1, <1>3 DEF Safe, Stopping
<1>5. QED
  BY <1>1, <1>2, <1>4 DEF Safe, Held, Listened

\* A node that is being torn down was bootstrapped, and still holds its port unless
\* that went astray.
LEMMA StoppingHolds ==
  ASSUME TypeOK, Records, Safe, NEW c \in Clusters, tear[c].at = "stopping", NEW n \in tear[c].rec.up
  PROVE  /\ n \in NodesOf(c) /\ n \in Nodes /\ boot[n] = "completed"
         /\ Holds(n) \/ port[n] \in astray
<1>1. n \in NodesOf(c) /\ n \in Nodes /\ boot[n] = "completed" /\ (c \notin down \/ port[n] \in astray)
  BY ClusterNodes DEF Records, Safe, Stopping
<1>2. c \notin down => ~Gone(n)
  BY <1>1, ClusterNodes DEF Gone, TypeOK
<1>3. QED
  BY <1>1, <1>2 DEF Holds

\* Who listens at its port is the node itself: it stops, and nothing else does, unless
\* the port went astray.
LEMMA ShutsItself ==
  ASSUME TypeOK, Records, Safe, NEW c \in Clusters, tear[c].at = "stopping", NEW n \in tear[c].rec.up
  PROVE  /\ Shut(n)[n] = "none" \/ port[n] \in astray
         /\ \A m \in Nodes \ {n} : Shut(n)[m] = proc[m] \/ port[m] \in astray
<1>1. n \in Nodes /\ (Holds(n) \/ port[n] \in astray)
  BY StoppingHolds
<1>2. CASE SeedTrusted /\ InUse(port[n])
  <2>1. CASE port[n] \in astray
    BY <1>1, <1>2, <2>1 DEF Shut
  <2>2. CASE port[n] \notin astray
    <3>1. \A m \in Nodes : proc[m] = "up" /\ port[m] = port[n] => m = n
      BY <1>1, <2>2, AloneOnPort DEF Safe
    <3>2. proc[n] = "up"
      BY <1>2, <3>1 DEF InUse
    <3>3. QED
      BY <1>1, <1>2, <3>1, <3>2 DEF Shut
  <2>3. QED
    BY <2>1, <2>2
<1>3. CASE ~(SeedTrusted /\ InUse(port[n]))
  BY <1>1, <1>3 DEF Shut, TypeOK
<1>4. QED
  BY <1>2, <1>3

\* The step of a teardown for its node n: it is asked to stop, or runs on.
LEMMA ShutStep ==
  ASSUME NEW c \in Clusters, ShutdownNode(c)
  PROVE  \E n \in tear[c].todo :
           /\ tear' = [tear EXCEPT ![c].todo = @ \ {n}]
           /\ \/ proc' = (IF n \in tear[c].rec.up THEN Shut(n) ELSE proc) /\ astray' = astray
              \/ proc' = proc /\ astray' = astray \cup {port[n]}
BY DEF ShutdownNode

LEMMA ShutdownSafe ==
  ASSUME TypeOK, Records, Safe, NEW c \in Clusters, ShutdownNode(c)
  PROVE  Safe'
<1>1. PICK n \in tear[c].todo :
        /\ tear' = [tear EXCEPT ![c].todo = @ \ {n}]
        /\ \/ proc' = (IF n \in tear[c].rec.up THEN Shut(n) ELSE proc) /\ astray' = astray
           \/ proc' = proc /\ astray' = astray \cup {port[n]}
  BY ShutStep
<1>2. /\ UNCHANGED <<allocated, port, down, boot>> /\ tear[c].at = "stopping" /\ astray \subseteq astray'
      /\ n \in Nodes /\ tear[c] \in Handler
  BY <1>1 DEF ShutdownNode, TypeOK, Handler
<1>3. \A m \in Nodes : proc'[m] \in {"none", proc[m]}
  BY <1>1, <1>2, ShutType
<1>4. n \in tear[c].rec.up => proc'[n] = "none" \/ port[n] \in astray'
  BY <1>1, <1>2, ShutsItself
<1>5. \A m \in Nodes : Holds(m)' => Holds(m)
  BY <1>2, <1>3 DEF Holds, Counts, Gone
<1>6. Held' /\ Listened'
  BY <1>2, <1>3, <1>5 DEF Safe, Held, Listened
<1>7. /\ tear'[c].at = "stopping" /\ tear'[c].rec = tear[c].rec /\ tear'[c].todo = tear[c].todo \ {n}
      /\ \A d \in Clusters \ {c} : tear'[d] = tear[d]
  BY <1>1, <1>2 DEF TypeOK, Handler
<1>8. \A d \in Clusters : tear[d].at = "stopping" => tear[d].rec.up \subseteq Nodes
  BY DEF TypeOK, Handler, ClusterRec
<1>9. ASSUME NEW d \in Clusters, tear'[d].at = "stopping", NEW m \in tear'[d].rec.up
      PROVE  /\ d \in down' => port'[m] \in astray'
             /\ m \notin tear'[d].todo => proc'[m] = "none" \/ port'[m] \in astray'
  <2>1. tear[d].at = "stopping" /\ m \in tear[d].rec.up /\ m \in Nodes
    BY <1>2, <1>7, <1>8, <1>9
  <2>2. /\ d \in down => port[m] \in astray
        /\ m \notin tear[d].todo => proc[m] = "none" \/ port[m] \in astray
    BY <2>1 DEF Safe, Stopping
  <2>3. CASE d = c /\ m = n
    BY <1>2, <1>4, <2>1, <2>2, <2>3
  <2>4. CASE d # c \/ m # n
    BY <1>2, <1>3, <1>7, <1>9, <2>1, <2>2, <2>4
  <2>5. QED
    BY <2>3, <2>4
<1>10. QED
  BY <1>6, <1>9 DEF Safe, Stopping

LEMMA TornDownSafe ==
  ASSUME TypeOK, Records, Safe, NEW c \in Clusters, TornDown(c)
  PROVE  Safe'
<1> DEFINE gone == tear[c].rec.up
<1>1. /\ UNCHANGED <<boot, port, proc, astray>> /\ down' = down \cup {c}
      /\ allocated' = allocated \ {port[n] : n \in gone}
      /\ tear[c].at = "stopping" /\ tear[c].todo = {}
      /\ tear'[c] = Idle /\ \A d \in Clusters \ {c} : tear'[d] = tear[d]
  BY DEF TornDown, Release, nodeVars, TypeOK
<1>2. \A n \in Nodes : Holds(n)' => Holds(n)
  BY <1>1 DEF Holds, Counts, Gone
<1>3. ASSUME NEW n \in gone, port[n] \notin astray
      PROVE  n \in Nodes /\ Holds(n) /\ ~Holds(n)'
  <2>1. n \in NodesOf(c) /\ n \in Nodes /\ boot[n] = "completed" /\ Holds(n)
    BY <1>1, <1>3, StoppingHolds
  <2>2. proc[n] = "none"
    BY <1>1, <1>3 DEF Safe, Stopping
  <2>3. QED
    BY <1>1, <2>1, <2>2 DEF Holds, Counts, Gone
<1>4. ASSUME NEW m \in Nodes, Holds(m)' PROVE port'[m] \in allocated' \cup astray'
  <2>1. Holds(m) /\ port[m] \in allocated \cup astray
    BY <1>2, <1>4 DEF Safe, Held
  <2>2. ASSUME NEW n \in gone, port[m] = port[n], port[m] \notin astray PROVE FALSE
    <3>1. n \in Nodes /\ Holds(n) /\ ~Holds(n)'
      BY <1>3, <2>2
    <3>2. m # n
      BY <1>4, <3>1
    <3>3. QED
      BY <2>1, <2>2, <3>1, <3>2 DEF Safe, Held
  <2>3. QED
    BY <1>1, <2>1, <2>2
<1>5. Held'
  BY <1>1, <1>2, <1>4 DEF Safe, Held
<1>6. Listened' /\ Stopping'
  BY <1>1 DEF Safe, Listened, Stopping, Idle
<1>7. QED
  BY <1>5, <1>6 DEF Safe

LEMMA RestartSafe ==
  ASSUME TypeOK, Safe, NEW lost \in SUBSET {"ports", "clusters"}, Restart(lost)
  PROVE  Safe'
<1>1. /\ UNCHANGED <<port, proc, down>> /\ \A c \in Clusters : tear'[c] = Idle
      /\ boot' = [n \in Nodes |-> IF Ended(n) THEN boot[n] ELSE "none"]
      /\ astray \subseteq astray' /\ allocated \subseteq allocated' \cup astray'
  BY DEF Restart, TypeOK
<1>2. \A n \in Nodes : Holds(n)' => Holds(n)
  BY <1>1 DEF Holds, Counts, Gone, Ended
<1>3. Held' /\ Listened' /\ Stopping'
  BY <1>1, <1>2 DEF Safe, Held, Listened, Stopping, Idle
<1>4. QED
  BY <1>3 DEF Safe

LEMMA StepSafe ==
  ASSUME TypeOK, Records, Safe, [Next]_vars
  PROVE  Safe'
<1>1. ASSUME NEW n \in Nodes, Bootstrap(n) \/ Binds(n) \/ Dies(n)
      PROVE  Safe'
  BY <1>1, BootSafe, ProcessSafe
<1>2. ASSUME NEW c \in Clusters, Orchestrate(c)
      PROVE  Safe'
  <2>1. CASE GatewayBooted(c) \/ Gather(c) \/ ProvisionKicksOff(c) \/ Kickoff(c) \/ KickedOffNow(c)
    <3>1. UNCHANGED <<allocated, port, down, tear, boot, proc, astray>>
      BY <2>1 DEF GatewayBooted, Gather, ProvisionKicksOff, Kickoff, KickedOffNow, nodeVars
    <3>2. QED
      BY <3>1, SafeSame
  <2>2. QED
    BY <1>2, <2>1, ProvisionSafe, FailedSafe, TeardownSafe, ShutdownSafe, TornDownSafe DEF Orchestrate
<1>3. ASSUME NEW lost \in SUBSET {"ports", "clusters"}, Restart(lost)
      PROVE  Safe'
  BY <1>3, RestartSafe
<1>4. CASE UNCHANGED vars
  BY <1>4, SafeSame DEF vars, orchVars, nodeVars
<1>5. QED
  BY <1>1, <1>2, <1>3, <1>4 DEF Next

LEMMA PortStep == PortInv /\ [Next]_vars => PortInv'
BY StepType, StepRecords, StepSafe DEF PortInv

\* Records, handlers, bootstraps, processes and the allocator, as PortInv relates
\* them, in every behaviour (cluster_orchestrator.py:186-460, bootstrap.py:212-632).
THEOREM Provisioned == Spec => []PortInv
<1>1. Init => PortInv
  BY InitType, InitRecords, InitSafe DEF PortInv
<1>2. QED
  BY <1>1, PortStep, PTL DEF Spec

\* Only a port that went astray (named by a request, given back by a failed one or by
\* a second teardown, its node not stopped, the port file lost) is ever shared by two
\* nodes, or free while its node runs (cluster_orchestrator.py:100-112, 251-272, 341-347).
THEOREM PortsAreKept == Spec => []PortsKept
<1>1. PortInv => PortsKept
  <2> SUFFICES ASSUME Safe PROVE OwnPort /\ RunningKeepsPort
    BY DEF PortInv, PortsKept
  <2>1. \A n \in Nodes : Counts(n) => Holds(n)
    BY DEF Holds
  <2>2. OwnPort
    BY <2>1 DEF OwnPort, Safe, Held
  <2>3. RunningKeepsPort
    BY <2>1 DEF RunningKeepsPort, Counts, Safe, Held
  <2>4. QED
    BY <2>2, <2>3
<1>2. QED
  BY <1>1, Provisioned, PTL

\* A teardown stops nodes of its own cluster only, although it asks whoever listens,
\* or nodes whose port went astray (cluster_orchestrator.py:617-660).
THEOREM TeardownSpares == Spec => TeardownSparesOthers
<1> DEFINE Spares == \A c \in Clusters :
       tear[c].at = "stopping" /\ tear'[c].todo # tear[c].todo =>
         \A n \in Nodes \ NodesOf(c) : proc'[n] = proc[n] \/ port[n] \in astray
<1>1. PortInv /\ [Next]_vars => Spares
  <2> SUFFICES ASSUME PortInv, [Next]_vars, NEW c \in Clusters, tear[c].at = "stopping",
                      tear'[c].todo # tear[c].todo, NEW n \in Nodes \ NodesOf(c), port[n] \notin astray
               PROVE  proc'[n] = proc[n]
    OBVIOUS
  <2>1. TypeOK /\ Records /\ Safe
    BY DEF PortInv
  <2>2. ASSUME NEW m \in Nodes, Bootstrap(m) \/ Binds(m) \/ Dies(m)
        PROVE  FALSE
    BY <2>2 DEF Bootstrap, BootStep, orchVars, CreateDirs, WriteConfig, StartNode, StepFails, StartWaited,
           HealthChecked, HealthFails, OpenSeed, WriteSeed, Rollback, Binds, Dies
  <2>3. ASSUME NEW d \in Clusters, ShutdownNode(d)
        PROVE  proc'[n] = proc[n]
    <3>1. PICK m \in tear[d].todo :
            /\ tear' = [tear EXCEPT ![d].todo = @ \ {m}]
            /\ \/ proc' = (IF m \in tear[d].rec.up THEN Shut(m) ELSE proc) /\ astray' = astray
               \/ proc' = proc /\ astray' = astray \cup {port[m]}
      BY <2>3, ShutStep
    <3>2. d = c /\ tear[d].at = "stopping"
      BY <2>1, <2>3, <3>1 DEF ShutdownNode, TypeOK
    <3>3. CASE proc' = Shut(m) /\ m \in tear[d].rec.up
      <4>1. m \in NodesOf(c) /\ \A k \in Nodes \ {m} : Shut(m)[k] = proc[k] \/ port[k] \in astray
        BY <2>1, <3>2, <3>3, StoppingHolds, ShutsItself
      <4>2. QED
        BY <3>3, <4>1
    <3>4. QED
      BY <3>1, <3>3
  <2>4. ASSUME NEW d \in Clusters, Orchestrate(d), ~ShutdownNode(d)
        PROVE  proc'[n] = proc[n]
    BY <2>4 DEF Orchestrate, Provision, ProvisionFails, GatewayBooted, NextWorker, WorkersFail, Gather, ProvisionKicksOff,
           Teardown, TornDown, Kickoff, KickedOffNow, nodeVars
  <2>5. ASSUME NEW lost \in SUBSET {"ports", "clusters"}, Restart(lost)
        PROVE  proc'[n] = proc[n]
    BY <2>5 DEF Restart
  <2>6. CASE UNCHANGED vars
    BY <2>6 DEF vars, orchVars
  <2>7. QED
    BY <2>2, <2>3, <2>4, <2>5, <2>6 DEF Next
<1>2. PortInv /\ [Next]_vars => [Spares]_vars
  BY <1>1
<1>3. QED
  BY <1>2, Provisioned, PTL DEF Spec, TeardownSparesOthers
=============================================================================
