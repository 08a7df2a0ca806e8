----------------------------- MODULE ClockDomains -----------------------------
(***************************************************************************)
(* How the objects of a system get their clocks: a script creates a tree   *)
(* of ClockedObjects and gives some of them a phase, a rank or a frequency *)
(* (ClockedObject.cpp); build() lets every object register the domain that *)
(* it has or inherits, makes a scheduler for every rank and a clock for    *)
(* every domain, and creates the CPUs; finalize() sizes the thread pool    *)
(* (AbstractSystem.cpp).                                                   *)
(*                                                                         *)
(* Nodes are numbered as they are created, the system being 0, so that a   *)
(* parent has a smaller number than its children. In what order Sparta     *)
(* goes through the tree is left open.                                     *)
(***************************************************************************)
EXTENDS Integers, Sequences, FiniteSets

CONSTANTS Movable,     \* the nodes to which the script gives a domain
          RankNumbers, \* what it passes to setRank
          Frequencies, \* what it passes to setFrequency
          SystemFreq,  \* AbstractSystem::m_system_freq
          Threads,     \* what it may set m_max_threads to, 0 being the default
          MaxNodes,    \* bound on the objects of a tree (DomainsNext only)
          MaxSettings  \* bound on the calls of setters (DomainsNext only)

ASSUME RankAssumption == RankNumbers \subseteq Nat
ASSUME FrequencyAssumption == Frequencies \subseteq Nat \ {0} /\ SystemFreq \in Nat \ {0}
ASSUME ThreadsAssumption == Threads \subseteq Nat

System == 0
None == -1 \* m_rank and m_freq of an object that has none
Phases == {"schedule", "bound", "weave"}
NoDomain == [phase |-> "unknown", rank |-> None, freq |-> None]

VARIABLES
    stage,    \* script, configuring, configured, finalizing, built, finalized,
              \* refused (the assertion in registerClockDomain)
    parent,   \* getParent of every node but the system
    kind,     \* clocked, unit (a component with a resource: a CPU), plain
    domain,   \* m_phase, m_rank and m_freq of every node
    isSet,    \* m_clock_domain_set
    settings, \* how often a setter has been called
    declared, \* ghost: domain as the script had left it when build was called
    waiting,  \* the nodes whose onConfiguring_ or resource has yet to be called
    phases,   \* m_schedule_phase, m_bound_phase, m_weave_phase: the nodes of
              \* each <<phase, rank, frequency>>
    clock,    \* the clock of its own that a node has, as the domain it is of
    main,     \* m_main_scheduler, a phase and a rank
    enabled,  \* m_bound_weave_enabled
    cpus,     \* m_cpus: the node and the m_freq of each
    threads   \* m_max_threads, which the pool is made with

treeVars == <<parent, kind>>
objectVars == <<domain, isSet>>
scriptVars == <<settings, declared>>
systemVars == <<phases, clock, main, enabled, cpus, threads>>
domainVars == <<stage, treeVars, objectVars, scriptVars, waiting, systemVars>>

Nodes == DOMAIN kind
ClockedObjects == {n \in Nodes : kind[n] # "plain"}

\* The system's constructor makes it a child of the root and gives it the global
\* clock domain.
DomainsInit ==
    /\ stage = "script"
    /\ parent = <<>>
    /\ kind = [n \in {System} |-> "clocked"]
    /\ domain = [n \in {System} |->
                    [phase |-> "schedule", rank |-> 0, freq |-> SystemFreq]]
    /\ isSet = [n \in {System} |-> TRUE]
    /\ settings = 0 /\ declared = domain
    /\ waiting = {} /\ phases = {} /\ clock = <<>>
    /\ main = <<>> /\ enabled = FALSE
    /\ cpus = <<>> /\ threads \in Threads

------------------------------------------------------------------------------
(* The script *)

\* A script adds objects before build: Sparta takes none later.
NewNode(p, k) ==
    /\ stage = "script"
    /\ LET n == Cardinality(Nodes)
       IN /\ parent' = Append(parent, p)
          /\ kind' = [m \in Nodes \union {n} |-> IF m = n THEN k ELSE kind[m]]
          /\ domain' = [m \in Nodes \union {n} |-> IF m = n THEN NoDomain ELSE domain[m]]
          /\ isSet' = [m \in Nodes \union {n} |-> m # n /\ isSet[m]]
    /\ UNCHANGED <<stage, scriptVars, waiting, systemVars>>

\* ClockedObject(p), or a node of Sparta's own under which objects can be.
NewObject(p) == NewNode(p, "clocked")
NewTreeNode(p) == NewNode(p, "plain")

\* A component is a ClockedObject with a ResourceTreeNode below it.
NewUnit(p) == NewNode(p, "unit")

\* Setters work before build and after it.
setClockDomain(n, d) ==
    /\ stage \in {"script", "built", "finalized"}
    /\ n \in ClockedObjects
    /\ domain' = [domain EXCEPT ![n] = d]
    /\ isSet' = [isSet EXCEPT ![n] = TRUE]
    /\ settings' = settings + 1
    /\ UNCHANGED <<stage, treeVars, declared, waiting, systemVars>>

setFrequency(n, f) == setClockDomain(n, [domain[n] EXCEPT !.freq = f])
setRank(n, r) == setClockDomain(n, [domain[n] EXCEPT !.rank = r])
setPhase(n, p) == setClockDomain(n, [domain[n] EXCEPT !.phase = p])

------------------------------------------------------------------------------
(* Getters *)

isConfigured == stage \in {"configured", "finalizing", "built", "finalized"}

\* What getPhase, getRank and getClockFrequency answer: an object that has the
\* value, or is configured, its own, another one what its nearest ClockedObject
\* above answers. The three differ in the value that stands for none.
Inherited(field) ==
    LET get[n \in Nodes] ==
            IF domain[n][field] # NoDomain[field] \/ n = System THEN domain[n][field]
            ELSE get[parent[n]]
    IN get

\* Mutant of Get: only the object right above is asked.
GetFromParent(field, n) ==
    IF isConfigured \/ domain[n][field] # NoDomain[field] \/ n = System
    THEN domain[n][field] ELSE domain[parent[n]][field]

Get(field, n) == IF isConfigured THEN domain[n][field] ELSE Inherited(field)[n]

getDomain(n) == [phase |-> Get("phase", n), rank |-> Get("rank", n), freq |-> Get("freq", n)]

------------------------------------------------------------------------------
(* build *)

\* m_root_node.enterConfiguring() comes to every object.
EnterConfiguring ==
    /\ stage = "script"
    /\ stage' = "configuring"
    /\ waiting' = Nodes
    /\ declared' = domain
    /\ UNCHANGED <<treeVars, objectVars, settings, systemVars>>

\* The object becomes one of the nodes of its domain. The schedule phase has rank
\* 0 only: the assertion ends build.
registerClockDomain(n, d) ==
    IF d.phase = "schedule" /\ d.rank # 0
    THEN stage' = "refused" /\ UNCHANGED phases
    ELSE phases' = phases \union {<<d.phase, d.rank, d.freq, n>>} /\ UNCHANGED stage

\* An object for which a setter was called keeps what it inherits and registers it.
onConfiguring(n) ==
    /\ stage = "configuring" /\ n \in waiting
    /\ waiting' = waiting \ {n}
    /\ IF isSet[n]
       THEN domain' = [domain EXCEPT ![n] = getDomain(n)] /\ registerClockDomain(n, getDomain(n))
       ELSE UNCHANGED <<stage, domain, phases>>
    /\ UNCHANGED <<treeVars, isSet, scriptVars, clock, main, enabled, cpus, threads>>

RanksOf(phase) == {d[2] : d \in {e \in phases : e[1] = phase}}

\* buildRank makes a clock for each frequency of a rank and gives it to its nodes.
ClockedNodes == {d[4] : d \in phases}
RankClock(n) == LET d == CHOOSE e \in phases : e[4] = n
                IN [phase |-> d[1], rank |-> d[2], freq |-> d[3]]

\* buildClockDomains builds all ranks. The global clock and the main scheduler are
\* those of the schedule phase, and the first round is a startup event of the
\* system.
buildClockDomains ==
    /\ stage = "configuring" /\ waiting = {}
    /\ stage' = "configured"
    /\ clock' = [n \in ClockedNodes |-> RankClock(n)]
    /\ main' = <<"schedule", 0>>
    /\ enabled' = (RanksOf("bound") # {} \/ RanksOf("weave") # {})
    /\ UNCHANGED <<treeVars, objectVars, scriptVars, waiting, phases, cpus, threads>>

\* TreeNode::getClock, Sparta's: a node's own clock or that of the node above.
ClockOf ==
    LET get[n \in Nodes] == IF n \in DOMAIN clock THEN clock[n]
                            ELSE IF n = System THEN NoDomain ELSE get[parent[n]]
    IN get

\* m_root_node.enterFinalized() creates the resources of the units.
EnterFinalized ==
    /\ stage = "configured"
    /\ stage' = "finalizing"
    /\ waiting' = {n \in Nodes : kind[n] = "unit"}
    /\ UNCHANGED <<treeVars, objectVars, scriptVars, systemVars>>

\* Mutant of registerCPU: the frequency of the component itself.
registerCPUOfObject(n) ==
    /\ stage = "finalizing" /\ n \in waiting
    /\ waiting' = waiting \ {n}
    /\ cpus' = Append(cpus, [node |-> n, freq |-> Get("freq", n)])
    /\ UNCHANGED <<stage, treeVars, objectVars, scriptVars, phases, clock, main, enabled, threads>>

\* AbstractCPU's constructor registers the CPU: its place is its hart's number.
registerCPU(n) ==
    /\ stage = "finalizing" /\ n \in waiting
    /\ waiting' = waiting \ {n}
    /\ cpus' = Append(cpus, [node |-> n, freq |-> ClockOf[n].freq])
    /\ UNCHANGED <<stage, treeVars, objectVars, scriptVars, phases, clock, main, enabled, threads>>

\* registerISS is HartPipeline's.
Built ==
    /\ stage = "finalizing" /\ waiting = {}
    /\ stage' = "built"
    /\ UNCHANGED <<treeVars, objectVars, scriptVars, waiting, systemVars>>

------------------------------------------------------------------------------
(* finalize *)

Larger(a, b) == IF a > b THEN a ELSE b

\* Mutant of Finalize: a thread for every rank of the bound phase.
FinalizeForBound ==
    /\ stage = "built"
    /\ stage' = "finalized"
    /\ threads' = IF threads = 0 THEN Cardinality(RanksOf("bound")) ELSE threads
    /\ UNCHANGED <<treeVars, objectVars, scriptVars, waiting, phases, clock, main, enabled, cpus>>

\* The first run finalizes the schedulers and makes the pool, when it has threads.
Finalize ==
    /\ stage = "built"
    /\ stage' = "finalized"
    /\ threads' = IF threads = 0
                  THEN Larger(Cardinality(RanksOf("bound")), Cardinality(RanksOf("weave")))
                  ELSE threads
    /\ UNCHANGED <<treeVars, objectVars, scriptVars, waiting, phases, clock, main, enabled, cpus>>

------------------------------------------------------------------------------
Script ==
    \/ \E p \in Nodes : /\ Cardinality(Nodes) <= MaxNodes
                        /\ NewObject(p) \/ NewTreeNode(p) \/ NewUnit(p)
    \/ \E n \in Movable \intersect Nodes :
          /\ settings < MaxSettings
          /\ \/ \E f \in Frequencies : setFrequency(n, f)
             \/ \E r \in RankNumbers : setRank(n, r)
             \/ \E p \in {"bound", "weave"} : setPhase(n, p)

BuildStep ==
    \/ EnterConfiguring \/ buildClockDomains \/ EnterFinalized \/ Built \/ Finalize
    \/ \E n \in Nodes : onConfiguring(n) \/ registerCPU(n)

DomainsNext == Script \/ BuildStep

DomainsSpec == DomainsInit /\ [][DomainsNext]_domainVars

------------------------------------------------------------------------------
(* Properties *)

\* The nodes on the way from n up to the system, n being one of them.
Way == LET way[n \in Nodes] == {n} \union (IF n = System THEN {} ELSE way[parent[n]])
       IN way

\* What the tree says about n: of the nodes on its way that have been given a
\* value, the nearest decides. Nearer nodes have larger numbers.
Nearest(field, n) ==
    LET given == {m \in Way[n] : declared[m][field] # NoDomain[field]}
    IN declared[CHOOSE m \in given : \A k \in given : k <= m][field]
TreeDomain(n) == [phase |-> Nearest("phase", n), rank |-> Nearest("rank", n),
                  freq |-> Nearest("freq", n)]

\* Objects with a domain of their own that are, by whatever they inherit, in the
\* schedule phase with a rank other than 0.
RankedSchedule == {n \in ClockedObjects : /\ declared[n] # NoDomain
                                          /\ TreeDomain(n).phase = "schedule"
                                          /\ TreeDomain(n).rank # 0}

\* Whatever the order in which build comes to the objects, it refuses exactly the
\* trees with a ranked schedule, and else every node is clocked by the phase, the
\* rank and the frequency that the nodes nearest above it were given, each on its
\* own: events of a CPU run in the rank the script asked for, and the first round
\* on the scheduler that run() drives.
ClockFollowsTree ==
    /\ stage = "refused" => RankedSchedule # {}
    /\ isConfigured => /\ RankedSchedule = {}
                       /\ \A n \in Nodes : ClockOf[n] = TreeDomain(n)
                       /\ enabled => <<ClockOf[System].phase, ClockOf[System].rank>> = main

\* The harts are the units of the tree, one number each, and what a CPU takes for
\* its frequency is what it is clocked at.
HartsClocked ==
    /\ \A i, j \in DOMAIN cpus : cpus[i].node = cpus[j].node => i = j
    /\ \A i \in DOMAIN cpus : cpus[i].freq = TreeDomain(cpus[i].node).freq
    /\ stage \in {"built", "finalized"} =>
          {n \in Nodes : kind[n] = "unit"} = {cpus[i].node : i \in DOMAIN cpus}

\* With rounds to run there is a pool, and unless the script says otherwise it has
\* a thread for every rank of either phase, so that ranks which wait for each other
\* run at once.
PoolFitsPhases ==
    [][stage = "built" /\ stage' = "finalized" /\ enabled =>
          /\ threads' > 0
          /\ threads = 0 => \A p \in {"bound", "weave"} : Cardinality(RanksOf(p)) <= threads'
      ]_domainVars

=============================================================================
