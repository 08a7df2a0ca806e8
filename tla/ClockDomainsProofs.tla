-------------------------- MODULE ClockDomainsProofs --------------------------
(***************************************************************************)
(* For any tree of objects and whatever the script does: the pool that     *)
(* finalize() makes fits the phases that build() registered, every node is *)
(* clocked by what the nodes nearest above it were given, and the harts    *)
(* are the units of the tree.                                              *)
(***************************************************************************)
EXTENDS ClockDomains, FiniteSetTheorems, WellFoundedInduction, TLAPS

------------------------------------------------------------------------------
(* The pool *)

\* The ranks of the phases are finitely many, and from buildClockDomains on, which
\* is after the last registration, there are rounds exactly when there are ranks.
PhasesInv ==
    /\ IsFiniteSet(phases)
    /\ threads \in Nat
    /\ stage \in {"script", "configuring"} => ~enabled
    /\ enabled => RanksOf("bound") # {} \/ RanksOf("weave") # {}

LEMMA PhasesStart == DomainsInit => PhasesInv
BY FS_EmptySet, ThreadsAssumption DEF DomainsInit, PhasesInv

\* A step that leaves the phases and the pool alone and does not go back.
LEMMA PhasesFrame ==
    ASSUME PhasesInv, UNCHANGED <<phases, threads, enabled>>,
           stage' \in {"script", "configuring"} => stage \in {"script", "configuring"}
    PROVE  PhasesInv'
BY DEF PhasesInv, RanksOf

LEMMA FiniteRanks ==
    ASSUME IsFiniteSet(phases), NEW p
    PROVE  IsFiniteSet(RanksOf(p))
<1> DEFINE S == {e \in phases : e[1] = p}
           f == [d \in S |-> d[2]]
<1>1. IsFiniteSet(S)
  BY FS_Subset
<1>2. f \in Surjection(S, RanksOf(p))
  BY DEF RanksOf, Surjection
<1> QED
  BY <1>1, <1>2, FS_Surjection

LEMMA PhasesStep == PhasesInv /\ [DomainsNext]_domainVars => PhasesInv'
<1> SUFFICES ASSUME PhasesInv, [DomainsNext]_domainVars PROVE PhasesInv'
  OBVIOUS
<1>1. CASE Script
  <2>1. UNCHANGED <<stage, phases, threads, enabled>>
    BY <1>1 DEF Script, NewObject, NewTreeNode, NewUnit, NewNode, setFrequency, setRank,
                setPhase, setClockDomain, systemVars
  <2> QED
    BY <2>1, PhasesFrame
<1>2. CASE EnterConfiguring \/ EnterFinalized \/ Built
  BY <1>2, PhasesFrame DEF EnterConfiguring, EnterFinalized, Built, systemVars
<1>3. CASE buildClockDomains
  BY <1>3 DEF buildClockDomains, PhasesInv, RanksOf
<1>4. CASE Finalize
  <2>1. /\ stage' = "finalized" /\ UNCHANGED <<phases, enabled>>
        /\ threads' = IF threads = 0
                      THEN Larger(Cardinality(RanksOf("bound")), Cardinality(RanksOf("weave")))
                      ELSE threads
    BY <1>4 DEF Finalize
  <2>2. Cardinality(RanksOf("bound")) \in Nat /\ Cardinality(RanksOf("weave")) \in Nat
    BY FiniteRanks, FS_CardinalityType DEF PhasesInv
  <2>3. threads' \in Nat
    BY <2>1, <2>2 DEF PhasesInv, Larger
  <2> QED
    BY <2>1, <2>3 DEF PhasesInv, RanksOf
<1>5. ASSUME NEW n \in Nodes, onConfiguring(n)
      PROVE  PhasesInv'
  <2>1. stage = "configuring" /\ UNCHANGED <<threads, enabled>>
    BY <1>5 DEF onConfiguring
  <2>2. IsFiniteSet(phases')
    <3>1. phases' = phases \/ \E d : phases' = phases \union {d}
      BY <1>5 DEF onConfiguring, registerClockDomain
    <3> QED
      BY <3>1, FS_AddElement DEF PhasesInv
  <2> QED
    BY <2>1, <2>2 DEF PhasesInv
<1>6. ASSUME NEW n \in Nodes, registerCPU(n)
      PROVE  PhasesInv'
  BY <1>6, PhasesFrame DEF registerCPU
<1>7. CASE UNCHANGED domainVars
  BY <1>7, PhasesFrame DEF domainVars, systemVars
<1> QED
  BY <1>1, <1>2, <1>3, <1>4, <1>5, <1>6, <1>7 DEF DomainsNext, BuildStep

\* The step in which finalize makes the pool for rounds gives it a thread at least,
\* and by default one for every rank of either phase.
LEMMA FinalizeFits ==
    ASSUME PhasesInv, [DomainsNext]_domainVars, stage = "built", stage' = "finalized", enabled
    PROVE  /\ threads' > 0
           /\ threads = 0 => \A p \in {"bound", "weave"} : Cardinality(RanksOf(p)) <= threads'
<1>1. Finalize
  BY DEF DomainsNext, Script, NewObject, NewTreeNode, NewUnit, NewNode, setFrequency,
         setRank, setPhase, setClockDomain, BuildStep, EnterConfiguring, buildClockDomains,
         EnterFinalized, Built, onConfiguring, registerCPU, domainVars
<1>2. \A p : IsFiniteSet(RanksOf(p)) /\ Cardinality(RanksOf(p)) \in Nat
  BY FiniteRanks, FS_CardinalityType DEF PhasesInv
<1>3. \A p : Cardinality(RanksOf(p)) = 0 <=> RanksOf(p) = {}
  BY <1>2, FS_EmptySet
<1>4. Cardinality(RanksOf("bound")) > 0 \/ Cardinality(RanksOf("weave")) > 0
  BY <1>2, <1>3 DEF PhasesInv
<1>5. threads' = IF threads = 0
                 THEN Larger(Cardinality(RanksOf("bound")), Cardinality(RanksOf("weave")))
                 ELSE threads
  BY <1>1 DEF Finalize
<1> QED
  BY <1>2, <1>4, <1>5 DEF PhasesInv, Larger

\* With rounds to run the first run makes a pool, by default with a thread for every
\* rank of either phase.
THEOREM PoolFits == DomainsSpec => PoolFitsPhases
<1>1. PhasesInv /\ [DomainsNext]_domainVars =>
         [stage = "built" /\ stage' = "finalized" /\ enabled =>
             /\ threads' > 0
             /\ threads = 0 => \A p \in {"bound", "weave"} : Cardinality(RanksOf(p)) <= threads'
         ]_domainVars
  BY FinalizeFits
<1> QED
  BY <1>1, PhasesStart, PhasesStep, PTL DEF DomainsSpec, PoolFitsPhases

------------------------------------------------------------------------------
(* The tree *)

\* The nodes are numbered from the system on, and a parent has a smaller number.
Shape ==
    /\ parent \in Seq(Nat)
    /\ Nodes = 0 .. Len(parent)
    /\ \A i \in 1 .. Len(parent) : parent[i] < i

LEMMA Upwards ==
    ASSUME Shape, NEW n \in Nodes
    PROVE  n \in Nat /\ System \in Nodes /\ (n # System => parent[n] \in Nodes /\ parent[n] < n)
BY DEF Shape, System

LEMMA Smallest ==
    ASSUME NEW S \in SUBSET Nat, S # {}
    PROVE  \E x \in S : \A y \in S : x <= y
<1> DEFINE R == OpToRel(<, Nat)
<1>0. IsWellFoundedOn(R, Nat)
  BY NatLessThanWellFounded
<1>1. PICK x \in S : \A y \in S : ~ (<<y, x>> \in R)
  <2> HIDE DEF R
  <2> QED BY <1>0, WFMin
<1>2. \A y \in S : ~(y < x)
  <2>1. \A y \in S : y < x => <<y, x>> \in R
    BY DEF OpToRel
  <2> QED
    BY <2>1, <1>1
<1>3. \A a, b \in Nat : ~(a < b) => b <= a
  OBVIOUS
<1> QED
  BY <1>1, <1>2, <1>3

\* What agrees at some nodes, the system being one, and elsewhere with the node
\* above, agrees everywhere.
LEMMA DownTheTree ==
    ASSUME Shape, NEW f, NEW g, NEW own, System \in own,
           \A n \in Nodes : n \in own => f[n] = g[n],
           \A n \in Nodes : n \notin own => f[n] = f[parent[n]] /\ g[n] = g[parent[n]]
    PROVE  \A n \in Nodes : f[n] = g[n]
<1> DEFINE Bad == {n \in Nodes : f[n] # g[n]}
<1> SUFFICES ASSUME Bad # {} PROVE FALSE
  OBVIOUS
<1>0. Bad \in SUBSET Nat
  BY Upwards
<1>1. PICK n \in Bad : \A k \in Bad : n <= k
  BY <1>0, Smallest
<1>2. n \in Nat /\ n # System /\ n \notin own
  BY <1>1, Upwards
<1>3. parent[n] \in Nodes /\ parent[n] < n /\ parent[n] \in Nat
  BY <1>1, <1>2, Upwards
<1>4. f[parent[n]] # g[parent[n]]
  BY <1>1, <1>2
<1> QED
  BY <1>1, <1>2, <1>3, <1>4

\* The way up from a node is the smallest set with the node that the parents of its
\* members are in: the recursion of Way has a solution.
Closed(S) == \A m \in S : m # System => parent[m] \in S
Upper(n) == {m \in Nodes : \A S \in SUBSET Nodes : n \in S /\ Closed(S) => m \in S}

LEMMA UpperStep ==
    ASSUME Shape, NEW n \in Nodes
    PROVE  Upper(n) = {n} \union (IF n = System THEN {} ELSE Upper(parent[n]))
<1> DEFINE R == {n} \union (IF n = System THEN {} ELSE Upper(parent[n]))
<1>1. n # System => parent[n] \in Nodes
  BY Upwards
<1>2. ASSUME NEW m \in Upper(n) PROVE m \in R
  <2>1. R \in SUBSET Nodes
    BY DEF Upper
  <2>2. ASSUME n # System PROVE parent[n] \in Upper(parent[n])
    BY <1>1, <2>2 DEF Upper
  <2>3. ASSUME n # System, NEW k \in Upper(parent[n]), k # System
        PROVE  parent[k] \in Upper(parent[n])
    <3>1. parent[k] \in Nodes
      BY <2>3, Upwards DEF Upper
    <3>2. ASSUME NEW S \in SUBSET Nodes, parent[n] \in S, Closed(S) PROVE parent[k] \in S
      BY <2>3, <3>2 DEF Upper, Closed
    <3> QED
      BY <3>1, <3>2 DEF Upper
  <2>4. Closed(R)
    BY <2>2, <2>3 DEF Closed
  <2> QED
    BY <1>2, <2>1, <2>4 DEF Upper
<1>3. ASSUME NEW m \in R PROVE m \in Upper(n)
  <2>1. m \in Nodes
    BY <1>3 DEF Upper
  <2>2. ASSUME NEW S \in SUBSET Nodes, n \in S, Closed(S) PROVE m \in S
    <3>1. n # System => parent[n] \in S
      BY <2>2 DEF Closed
    <3> QED
      BY <1>3, <2>2, <3>1 DEF Upper
  <2> QED
    BY <2>1, <2>2 DEF Upper
<1> QED
  BY <1>2, <1>3

LEMMA WayIs ==
    ASSUME Shape
    PROVE  Way = [n \in Nodes |-> {n} \union (IF n = System THEN {} ELSE Way[parent[n]])]
<1>1. PICK f : f = [n \in Nodes |-> Upper(n)]
  OBVIOUS
<1>2. f = [n \in Nodes |-> {n} \union (IF n = System THEN {} ELSE f[parent[n]])]
  <2>1. ASSUME NEW n \in Nodes
        PROVE  Upper(n) = {n} \union (IF n = System THEN {} ELSE f[parent[n]])
    BY <1>1, UpperStep, Upwards
  <2> QED
    BY <1>1, <2>1
<1> QED
  BY <1>2 DEF Way

LEMMA WayUp ==
    ASSUME Shape, NEW n \in Nodes
    PROVE  Way[n] = {n} \union (IF n = System THEN {} ELSE Way[parent[n]])
BY WayIs

\* A node is the last of the nodes on its way, and the system is one of them.
LEMMA WayNodes ==
    ASSUME Shape
    PROVE  \A n \in Nodes : System \in Way[n] /\ Way[n] \subseteq 0 .. n
<1> DEFINE Bad == {n \in Nodes : ~(System \in Way[n] /\ Way[n] \subseteq 0 .. n)}
<1> SUFFICES ASSUME Bad # {} PROVE FALSE
  OBVIOUS
<1>0. Bad \in SUBSET Nat
  BY Upwards
<1>1. PICK n \in Bad : \A k \in Bad : n <= k
  BY <1>0, Smallest
<1>2. n \in Nodes /\ n \in Nat /\ n # System
  BY <1>1, WayUp, Upwards DEF System
<1>3. parent[n] \in Nodes /\ parent[n] < n /\ parent[n] \in Nat
  BY <1>2, Upwards
<1>4. parent[n] \notin Bad
  BY <1>1, <1>2, <1>3
<1>5. System \in Way[parent[n]] /\ Way[parent[n]] \subseteq 0 .. parent[n]
  BY <1>3, <1>4
<1>6. Way[n] = {n} \union Way[parent[n]]
  BY <1>2, WayUp
<1>7. Way[n] \subseteq 0 .. n
  BY <1>2, <1>3, <1>5, <1>6
<1> QED
  BY <1>1, <1>5, <1>6, <1>7

\* The last node on the way to n of those in own: n itself, or that of its parent.
TopOf(own, n) == CHOOSE m \in {k \in Way[n] : k \in own} :
                     \A k \in {j \in Way[n] : j \in own} : k <= m

LEMMA TopHere ==
    ASSUME Shape, NEW own, NEW n \in Nodes, n \in own
    PROVE  TopOf(own, n) = n
<1> DEFINE S == {k \in Way[n] : k \in own}
<1>1. n \in S /\ S \subseteq 0 .. n /\ n \in Nat
  BY WayNodes, WayUp, Upwards
<1>2. \A m \in S : (\A k \in S : k <= m) => m = n
  BY <1>1
<1>3. \A k \in S : k <= n
  BY <1>1
<1>4. n = CHOOSE m \in S : \A k \in S : k <= m
  <2> HIDE DEF S
  <2> QED
    BY <1>1, <1>2, <1>3
<1> QED
  BY <1>4 DEF TopOf

LEMMA TopAbove ==
    ASSUME Shape, NEW own, NEW n \in Nodes, n \notin own, n # System
    PROVE  TopOf(own, n) = TopOf(own, parent[n])
<1>1. {k \in Way[n] : k \in own} = {k \in Way[parent[n]] : k \in own}
  BY WayUp
<1> QED
  BY <1>1 DEF TopOf

LEMMA Tops ==
    ASSUME Shape, NEW own, System \in own
    PROVE  /\ \A n \in Nodes : n \in own => TopOf(own, n) = n
           /\ \A n \in Nodes : n \notin own => n # System /\ TopOf(own, n) = TopOf(own, parent[n])
           /\ \A n \in Nodes : TopOf(own, n) \in Nodes \intersect own
<1>1. \A n \in Nodes : n \in own => TopOf(own, n) = n
  BY TopHere
<1>2. \A n \in Nodes : n \notin own => n # System /\ TopOf(own, n) = TopOf(own, parent[n])
  BY TopAbove
<1>3. PICK f : f = [n \in Nodes |-> TopOf(own, n) \in Nodes \intersect own]
  OBVIOUS
<1>4. PICK g : g = [n \in Nodes |-> TRUE]
  OBVIOUS
<1>5. \A n \in Nodes : n \in own => f[n] = g[n]
  BY <1>1, <1>3, <1>4
<1>6. ASSUME NEW n \in Nodes, n \notin own PROVE f[n] = f[parent[n]] /\ g[n] = g[parent[n]]
  <2>1. parent[n] \in Nodes /\ TopOf(own, n) = TopOf(own, parent[n])
    BY <1>2, <1>6, Upwards
  <2> QED
    BY <2>1, <1>3, <1>4
<1>7. \A n \in Nodes : f[n] = g[n]
  <2> HIDE DEF Nodes
  <2> QED
    BY <1>5, <1>6, DownTheTree
<1> QED
  BY <1>1, <1>2, <1>3, <1>4, <1>7

\* The recursions of getPhase, getRank and getClockFrequency, and of getClock, have
\* solutions.
LEMMA InheritedIs ==
    ASSUME Shape, NEW field
    PROVE  Inherited(field) =
              [n \in Nodes |-> IF domain[n][field] # NoDomain[field] \/ n = System
                               THEN domain[n][field] ELSE Inherited(field)[parent[n]]]
<1>0. PICK own : own = {n \in Nodes : domain[n][field] # NoDomain[field] \/ n = System}
  OBVIOUS
<1>1. PICK f : f = [n \in Nodes |-> domain[TopOf(own, n)][field]]
  OBVIOUS
<1>2. System \in own
  BY <1>0 DEF Shape, System
<1>3. ASSUME NEW n \in Nodes
      PROVE  f[n] = IF domain[n][field] # NoDomain[field] \/ n = System
                    THEN domain[n][field] ELSE f[parent[n]]
  <2>1. CASE n \in own
    BY <2>1, <1>0, <1>1, <1>2, Tops
  <2>2. CASE n \notin own
    <3>1. n # System /\ parent[n] \in Nodes /\ TopOf(own, n) = TopOf(own, parent[n])
      BY <2>2, <1>2, Tops, Upwards
    <3> QED
      BY <3>1, <2>2, <1>0, <1>1
  <2> QED
    BY <2>1, <2>2
<1>4. f = [n \in Nodes |-> IF domain[n][field] # NoDomain[field] \/ n = System
                           THEN domain[n][field] ELSE f[parent[n]]]
  BY <1>1, <1>3
<1> QED
  BY <1>4 DEF Inherited

LEMMA ClockOfIs ==
    ASSUME Shape
    PROVE  ClockOf = [n \in Nodes |-> IF n \in DOMAIN clock THEN clock[n]
                                      ELSE IF n = System THEN NoDomain ELSE ClockOf[parent[n]]]
<1>0. PICK own : own = DOMAIN clock \union {System}
  OBVIOUS
<1>v. PICK v : v = [n \in Nodes |-> IF n \in DOMAIN clock THEN clock[n] ELSE NoDomain]
  OBVIOUS
<1>1. PICK f : f = [n \in Nodes |-> v[TopOf(own, n)]]
  OBVIOUS
<1>2. System \in own
  BY <1>0
<1>3. ASSUME NEW n \in Nodes
      PROVE  f[n] = IF n \in DOMAIN clock THEN clock[n]
                    ELSE IF n = System THEN NoDomain ELSE f[parent[n]]
  <2>1. CASE n \in own
    BY <2>1, <1>0, <1>v, <1>1, <1>2, Tops
  <2>2. CASE n \notin own
    <3>1. n # System /\ parent[n] \in Nodes /\ TopOf(own, n) = TopOf(own, parent[n])
      BY <2>2, <1>2, Tops, Upwards
    <3> QED
      BY <3>1, <2>2, <1>0, <1>1
  <2> QED
    BY <2>1, <2>2
<1>4. f = [n \in Nodes |-> IF n \in DOMAIN clock THEN clock[n]
                           ELSE IF n = System THEN NoDomain ELSE f[parent[n]]]
  BY <1>1, <1>3
<1> QED
  BY <1>4 DEF ClockOf

------------------------------------------------------------------------------
(* What a node inherits *)

Fields == {"phase", "rank", "freq"}
Given(field) == {n \in Nodes : declared[n][field] # NoDomain[field]}

LEMMA NearestIs ==
    ASSUME Shape, NEW field, NEW n \in Nodes
    PROVE  Nearest(field, n) = declared[TopOf(Given(field), n)][field]
<1>1. Way[n] \subseteq Nodes
  BY WayNodes DEF Shape
<1>2. {m \in Way[n] : declared[m][field] # NoDomain[field]} = {k \in Way[n] : k \in Given(field)}
  BY <1>1 DEF Given
<1> QED
  BY <1>2 DEF Nearest, TopOf

LEMMA NearestOf ==
    ASSUME Shape, NEW field, System \in Given(field)
    PROVE  /\ \A n \in Given(field) : Nearest(field, n) = declared[n][field]
           /\ \A n \in Nodes : n \notin Given(field) =>
                 /\ n # System /\ parent[n] \in Nodes
                 /\ Nearest(field, n) = Nearest(field, parent[n])
           /\ \A n \in Nodes : Nearest(field, n) # NoDomain[field]
           /\ \A n \in Nodes : \E m \in Nodes : Nearest(field, n) = declared[m][field]
<1>1. \A n \in Given(field) : n \in Nodes
  BY DEF Given
<1>2. \A n \in Nodes : n \notin Given(field) => n # System /\ parent[n] \in Nodes
  BY Upwards
<1>3. \A n \in Nodes : TopOf(Given(field), n) \in Nodes \intersect Given(field)
  BY Tops
<1>4. \A n \in Nodes : /\ Nearest(field, n) # NoDomain[field]
                       /\ \E m \in Nodes : Nearest(field, n) = declared[m][field]
  BY <1>3, NearestIs DEF Given
<1>5. \A n \in Given(field) : Nearest(field, n) = declared[n][field]
  BY <1>1, NearestIs, Tops
<1>6. \A n \in Nodes : n \notin Given(field) => Nearest(field, n) = Nearest(field, parent[n])
  BY <1>2, NearestIs, Tops
<1> QED
  BY <1>2, <1>4, <1>5, <1>6

\* What an object has is what it was given or what it inherits: then it inherits what
\* the nearest given value says.
LEMMA Inherits ==
    ASSUME Shape, NEW field, System \in Given(field),
           \A n \in Nodes : domain[n][field] \in {declared[n][field], Nearest(field, n)}
    PROVE  \A n \in Nodes : Inherited(field)[n] = Nearest(field, n)
<1>1. PICK own : own = {n \in Nodes : domain[n][field] # NoDomain[field] \/ n = System}
  OBVIOUS
<1>2. PICK g : g = [n \in Nodes |-> Nearest(field, n)]
  OBVIOUS
<1>3. PICK f : f = Inherited(field)
  OBVIOUS
<1>4. f = [n \in Nodes |-> IF domain[n][field] # NoDomain[field] \/ n = System
                           THEN domain[n][field] ELSE f[parent[n]]]
  BY <1>3, InheritedIs
<1>5. \A n \in Nodes : n \in own => f[n] = g[n]
  <2>1. ASSUME NEW n \in Nodes, n \in own PROVE domain[n][field] = Nearest(field, n)
    <3>1. CASE domain[n][field] = declared[n][field]
      <4>1. n \in Given(field)
        BY <2>1, <3>1, <1>1 DEF Given
      <4> QED
        BY <3>1, <4>1, NearestOf
    <3>2. CASE domain[n][field] = Nearest(field, n)
      BY <3>2
    <3> QED
      BY <3>1, <3>2
  <2> QED
    BY <2>1, <1>1, <1>2, <1>4
<1>6. \A n \in Nodes : n \notin own => f[n] = f[parent[n]] /\ g[n] = g[parent[n]]
  <2>1. ASSUME NEW n \in Nodes, n \notin own PROVE n \notin Given(field)
    <3>1. domain[n][field] = NoDomain[field]
      BY <2>1, <1>1
    <3>2. Nearest(field, n) # NoDomain[field]
      BY NearestOf
    <3> QED
      BY <3>1, <3>2 DEF Given
  <2>2. ASSUME NEW n \in Nodes, n \notin own
        PROVE  parent[n] \in Nodes /\ Nearest(field, n) = Nearest(field, parent[n])
    BY <2>1, <2>2, NearestOf
  <2> QED
    BY <2>2, <1>1, <1>2, <1>4
<1>7. System \in own
  BY <1>1 DEF Given
<1>8. \A n \in Nodes : f[n] = g[n]
  BY <1>5, <1>6, <1>7, DownTheTree
<1> QED
  BY <1>2, <1>3, <1>8

\* Clocks of their own that the nodes with a given value have, and that are those the
\* tree says, make every node's clock the one that the tree says.
LEMMA ClocksInherit ==
    ASSUME Shape, \A field \in Fields : System \in Given(field),
           DOMAIN clock = {n \in Nodes : declared[n] # NoDomain},
           \A n \in DOMAIN clock : clock[n] = TreeDomain(n)
    PROVE  \A n \in Nodes : ClockOf[n] = TreeDomain(n)
<1>1. PICK own : own = DOMAIN clock
  OBVIOUS
<1>2. PICK g : g = [n \in Nodes |-> TreeDomain(n)]
  OBVIOUS
<1>3. PICK f : f = ClockOf
  OBVIOUS
<1>4. f = [n \in Nodes |-> IF n \in DOMAIN clock THEN clock[n]
                           ELSE IF n = System THEN NoDomain ELSE f[parent[n]]]
  BY <1>3, ClockOfIs
<1>5. System \in own
  <2>1. System \in Nodes /\ declared[System]["rank"] # NoDomain["rank"]
    BY DEF Given, Fields
  <2> QED
    BY <2>1, <1>1
<1>6. \A n \in Nodes : n \in own => f[n] = g[n]
  BY <1>1, <1>2, <1>4
<1>7. \A n \in Nodes : n \notin own => f[n] = f[parent[n]] /\ g[n] = g[parent[n]]
  <2>1. ASSUME NEW n \in Nodes, n \notin own
        PROVE  n # System /\ parent[n] \in Nodes /\ TreeDomain(n) = TreeDomain(parent[n])
    <3>1. declared[n] = NoDomain
      BY <2>1, <1>1
    <3>2. ASSUME NEW field \in Fields
          PROVE  n # System /\ parent[n] \in Nodes /\ Nearest(field, n) = Nearest(field, parent[n])
      <4>1. n \notin Given(field)
        BY <3>1 DEF Given
      <4> QED
        BY <4>1, NearestOf
    <3> QED
      BY <3>2 DEF TreeDomain, Fields
  <2> QED
    BY <2>1, <1>1, <1>2, <1>4
<1>8. \A n \in Nodes : f[n] = g[n]
  BY <1>5, <1>6, <1>7, DownTheTree
<1> QED
  BY <1>2, <1>3, <1>8

------------------------------------------------------------------------------
(* The invariant *)

Domains == [phase : Phases \union {"unknown"}, rank : RankNumbers \union {0, None},
            freq : Frequencies \union {SystemFreq, None}]
Units == {n \in Nodes : kind[n] = "unit"}
CpuNodes == {cpus[i].node : i \in DOMAIN cpus}

\* Where the script leaves the system alone.
Fixed(d) == System \notin Movable => d.phase = "schedule" /\ d.rank = 0

TreeTypeOK ==
    /\ Shape
    /\ domain \in [Nodes -> Domains]
    /\ isSet \in [Nodes -> BOOLEAN]
    /\ stage \in {"script", "configuring", "configured", "finalizing", "built", "finalized",
                  "refused"}

\* In the script an object is marked exactly when it has been given a value, and the
\* system has all of them.
Scripted ==
    stage = "script" =>
        /\ \A n \in Nodes : isSet[n] => n \in ClockedObjects /\ domain[n] # NoDomain
        /\ \A n \in Nodes : ~isSet[n] => domain[n] = NoDomain
        /\ \A field \in Fields : domain[System][field] # NoDomain[field]
        /\ Fixed(domain[System])
        /\ phases = {}

\* What the script had said stays.
Said ==
    stage # "script" =>
        /\ declared \in [Nodes -> Domains]
        /\ \A field \in Fields : System \in Given(field)
        /\ Fixed(declared[System])

Registration(n) == <<Nearest("phase", n), Nearest("rank", n), Nearest("freq", n), n>>
Ranked(n) == Nearest("phase", n) = "schedule" /\ Nearest("rank", n) # 0

\* While objects register, each has what it was given or, in its place, what it
\* inherits, and those that have been there are registered for what the tree says.
Registering ==
    stage = "configuring" =>
        /\ waiting \subseteq Nodes
        /\ \A n \in Nodes : isSet[n] => n \in ClockedObjects /\ declared[n] # NoDomain
        /\ \A n \in Nodes : ~isSet[n] => declared[n] = NoDomain
        /\ \A field \in Fields, n \in Nodes :
              domain[n][field] \in {declared[n][field], Nearest(field, n)}
        /\ phases = {Registration(n) : n \in {m \in Nodes \ waiting : isSet[m]}}
        /\ \A n \in Nodes \ waiting : isSet[n] => ~Ranked(n)

Refused == stage = "refused" => RankedSchedule # {}

Clocked ==
    isConfigured =>
        /\ RankedSchedule = {}
        /\ DOMAIN clock = {n \in Nodes : declared[n] # NoDomain}
        /\ \A n \in DOMAIN clock : clock[n] = TreeDomain(n)
        /\ main = <<"schedule", 0>>

\* A unit waits for its CPU or has one.
Numbered ==
    /\ cpus \in Seq([node : Nat, freq : Int])
    /\ \A i, j \in DOMAIN cpus : cpus[i].node = cpus[j].node => i = j
    /\ \A i \in DOMAIN cpus : cpus[i].freq = TreeDomain(cpus[i].node).freq
    /\ stage \in {"script", "configuring", "configured", "refused"} => cpus = <<>>
    /\ stage = "finalizing" => /\ Units = waiting \union CpuNodes
                               /\ waiting \intersect CpuNodes = {}
    /\ stage \in {"built", "finalized"} => Units = CpuNodes

ClockInv == TreeTypeOK /\ Scripted /\ Said /\ Registering /\ Refused /\ Clocked /\ Numbered

\* What only the tree and what the script had said decide.
LEMMA Kept ==
    ASSUME UNCHANGED <<parent, kind, declared>>
    PROVE  /\ Nodes' = Nodes /\ ClockedObjects' = ClockedObjects /\ Units' = Units
           /\ Shape => Shape'
           /\ \A f : Given(f)' = Given(f)
           /\ \A f, n : Nearest(f, n)' = Nearest(f, n)
           /\ \A n : /\ TreeDomain(n)' = TreeDomain(n) /\ Registration(n)' = Registration(n)
                     /\ Ranked(n)' = Ranked(n)
           /\ RankedSchedule' = RankedSchedule
<1>1. Nodes' = Nodes /\ ClockedObjects' = ClockedObjects /\ Units' = Units
  BY DEF Nodes, ClockedObjects, Units
<1>2. Shape => Shape'
  BY DEF Shape, Nodes
<1>3. \A f : Given(f)' = Given(f)
  BY DEF Given, Nodes, NoDomain
<1>4. \A f, n : Nearest(f, n)' = Nearest(f, n)
  BY DEF Nearest, Way, Nodes
<1>5. \A n : /\ TreeDomain(n)' = TreeDomain(n) /\ Registration(n)' = Registration(n)
             /\ Ranked(n)' = Ranked(n)
  BY <1>4 DEF TreeDomain, Registration, Ranked
<1>6. RankedSchedule' = RankedSchedule
  BY <1>1, <1>5 DEF RankedSchedule, NoDomain
<1> QED
  BY <1>1, <1>2, <1>3, <1>4, <1>5, <1>6

LEMMA SaidFrame ==
    ASSUME Said, UNCHANGED <<parent, kind, declared>>, stage # "script"
    PROVE  Said'
<1>1. /\ declared \in [Nodes -> Domains] /\ \A field \in Fields : System \in Given(field)
      /\ Fixed(declared[System])
  BY DEF Said
<1>2. declared' \in [Nodes' -> Domains]
  BY <1>1, Kept
<1>3. \A field \in Fields : System \in Given(field)'
  BY <1>1, Kept
<1> QED
  BY <1>1, <1>2, <1>3 DEF Said, Fixed, System, Fields, Domains

LEMMA ClockedFrame ==
    ASSUME isConfigured, Clocked, UNCHANGED <<parent, kind, declared, clock, main>>
    PROVE  Clocked'
BY Kept DEF Clocked

LEMMA Unnumbered ==
    ASSUME cpus' = <<>>, stage' \in {"script", "configuring", "configured", "refused"}
    PROVE  Numbered'
BY DEF Numbered

LEMMA ClockStart == DomainsInit => ClockInv
<1> SUFFICES ASSUME DomainsInit PROVE ClockInv
  OBVIOUS
<1>1. Nodes = {0}
  BY DEF DomainsInit, Nodes, System
<1>2. Shape
  BY <1>1 DEF DomainsInit, Shape
<1>3. TreeTypeOK
  BY <1>1, <1>2 DEF TreeTypeOK, DomainsInit, Domains, Phases, System
<1>4. Scripted
  BY <1>1, FrequencyAssumption DEF Scripted, DomainsInit, ClockedObjects, NoDomain, Fields, Fixed,
     System, None
<1>5. Said /\ Registering /\ Refused /\ Clocked
  BY DEF DomainsInit, Said, Registering, Refused, Clocked, isConfigured
<1>6. Numbered
  BY DEF DomainsInit, Numbered
<1> QED
  BY <1>3, <1>4, <1>5, <1>6 DEF ClockInv

------------------------------------------------------------------------------
(* The script *)

LEMMA ShapeGrows ==
    ASSUME Shape, NEW p \in Nodes, NEW k, NewNode(p, k)
    PROVE  Shape' /\ Nodes' = Nodes \union {Cardinality(Nodes)} /\ Cardinality(Nodes) \notin Nodes
<1>1. Len(parent) \in Nat /\ Cardinality(Nodes) = Len(parent) + 1
  BY FS_Interval DEF Shape
<1>2. Nodes' = Nodes \union {Len(parent) + 1} /\ parent' = Append(parent, p)
  BY <1>1 DEF NewNode, Nodes
<1>3. p \in Nat /\ p <= Len(parent)
  BY <1>1 DEF Shape
<1>4. parent' \in Seq(Nat) /\ Len(parent') = Len(parent) + 1
  BY <1>2, <1>3 DEF Shape
<1>5. Nodes' = 0 .. Len(parent')
  BY <1>1, <1>2, <1>4 DEF Shape
<1>6. \A i \in 1 .. Len(parent') : parent'[i] < i
  <2>1. ASSUME NEW i \in 1 .. Len(parent') PROVE parent'[i] < i
    <3>1. CASE i \in 1 .. Len(parent)
      BY <3>1, <1>1, <1>2, <1>3 DEF Shape
    <3>2. CASE i = Len(parent) + 1
      BY <3>2, <1>1, <1>2, <1>3 DEF Shape
    <3> QED
      BY <2>1, <3>1, <3>2, <1>1, <1>4
  <2> QED
    BY <2>1
<1> QED
  BY <1>1, <1>2, <1>4, <1>5, <1>6 DEF Shape

LEMMA NodeStep ==
    ASSUME ClockInv, NEW p \in Nodes, NEW k, NewNode(p, k)
    PROVE  ClockInv'
<1>1. /\ Shape' /\ Nodes' = Nodes \union {Cardinality(Nodes)} /\ Cardinality(Nodes) \notin Nodes
      /\ System \in Nodes
  BY ShapeGrows, Upwards DEF ClockInv, TreeTypeOK
<1>2. PICK n : n = Cardinality(Nodes)
  OBVIOUS
<1>3. /\ stage = "script" /\ stage' = "script" /\ phases' = phases /\ cpus' = cpus
      /\ kind' = [m \in Nodes \union {n} |-> IF m = n THEN k ELSE kind[m]]
      /\ domain' = [m \in Nodes \union {n} |-> IF m = n THEN NoDomain ELSE domain[m]]
      /\ isSet' = [m \in Nodes \union {n} |-> m # n /\ isSet[m]]
  BY <1>2 DEF NewNode, systemVars
<1>4. NoDomain \in Domains
  BY DEF NoDomain, Domains
<1>5. domain' \in [Nodes' -> Domains]
  BY <1>1, <1>2, <1>3, <1>4 DEF ClockInv, TreeTypeOK
<1>6. isSet' \in [Nodes' -> BOOLEAN]
  BY <1>1, <1>2, <1>3 DEF ClockInv, TreeTypeOK
<1>7. TreeTypeOK'
  BY <1>1, <1>3, <1>5, <1>6 DEF TreeTypeOK, Domains
<1>8. Scripted'
  <2>1. \A m \in Nodes' : isSet'[m] => m \in ClockedObjects' /\ domain'[m] # NoDomain
    BY <1>1, <1>2, <1>3 DEF ClockInv, Scripted, ClockedObjects
  <2>2. \A m \in Nodes' : ~isSet'[m] => domain'[m] = NoDomain
    BY <1>1, <1>2, <1>3 DEF ClockInv, Scripted
  <2>3. domain'[System] = domain[System]
    BY <1>1, <1>2, <1>3
  <2>4. \A field \in Fields : domain'[System][field] # NoDomain[field]
    BY <1>3, <2>3 DEF ClockInv, Scripted
  <2>5. Fixed(domain'[System]) /\ phases' = {}
    BY <1>3, <2>3 DEF ClockInv, Scripted
  <2> QED
    BY <2>1, <2>2, <2>4, <2>5 DEF Scripted, Fixed, System, Fields, NoDomain
<1>9. Numbered'
  BY <1>3, Unnumbered DEF ClockInv, Numbered
<1>10. Said' /\ Registering' /\ Refused' /\ Clocked'
  BY <1>3 DEF Said, Registering, Refused, Clocked, isConfigured
<1> QED
  BY <1>7, <1>8, <1>9, <1>10 DEF ClockInv

\* A setter that gives a value to an object, leaving its others.
LEMMA SetterStep ==
    ASSUME ClockInv, NEW n \in Nodes, NEW d \in Domains, setClockDomain(n, d),
           d # NoDomain,
           \A field \in Fields : domain[n][field] # NoDomain[field] => d[field] # NoDomain[field],
           n = System => Fixed(d) \/ System \in Movable
    PROVE  ClockInv'
<1>1. /\ stage \in {"script", "built", "finalized"} /\ n \in ClockedObjects
      /\ domain' = [domain EXCEPT ![n] = d] /\ isSet' = [isSet EXCEPT ![n] = TRUE]
      /\ UNCHANGED <<stage, parent, kind, declared, waiting, phases, clock, main, cpus>>
  BY DEF setClockDomain, treeVars, systemVars
<1>2. Nodes' = Nodes /\ Shape' /\ ClockedObjects' = ClockedObjects
  BY <1>1, Kept DEF ClockInv, TreeTypeOK
<1>3. TreeTypeOK'
  <2>1. domain' \in [Nodes -> Domains] /\ isSet' \in [Nodes -> BOOLEAN]
    BY <1>1 DEF ClockInv, TreeTypeOK
  <2> QED
    BY <1>1, <1>2, <2>1 DEF ClockInv, TreeTypeOK, Domains
<1>4. CASE stage = "script"
  <2>1. DOMAIN domain = Nodes /\ DOMAIN isSet = Nodes /\ System \in Nodes
    BY Upwards DEF ClockInv, TreeTypeOK
  <2>2. /\ \A m \in Nodes : isSet'[m] => m \in ClockedObjects /\ domain'[m] # NoDomain
        /\ \A m \in Nodes : ~isSet'[m] => domain'[m] = NoDomain
    BY <1>1, <1>4, <2>1 DEF ClockInv, Scripted
  <2>3. \A field \in Fields : domain'[System][field] # NoDomain[field]
    BY <1>1, <1>4, <2>1 DEF ClockInv, Scripted
  <2>4. Fixed(domain'[System])
    BY <1>1, <1>4, <2>1 DEF ClockInv, Scripted, Fixed
  <2>5. Scripted'
    BY <1>1, <1>2, <1>4, <2>2, <2>3, <2>4 DEF ClockInv, Scripted, Fixed, System, Fields, NoDomain
  <2>6. Numbered'
    BY <1>1, <1>4, Unnumbered DEF ClockInv, Numbered
  <2>7. Said' /\ Registering' /\ Refused' /\ Clocked'
    BY <1>1, <1>4 DEF Said, Registering, Refused, Clocked, isConfigured
  <2> QED
    BY <1>3, <2>5, <2>6, <2>7 DEF ClockInv
<1>5. CASE stage \in {"built", "finalized"}
  <2>1. Said' /\ Clocked'
    BY <1>1, <1>5, SaidFrame, ClockedFrame DEF ClockInv, isConfigured
  <2>2. Scripted' /\ Registering' /\ Refused'
    BY <1>1, <1>5 DEF Scripted, Registering, Refused
  <2>3. Numbered'
    BY <1>1, <1>5, Kept DEF ClockInv, Numbered, CpuNodes
  <2> QED
    BY <1>3, <2>1, <2>2, <2>3 DEF ClockInv
<1> QED
  BY <1>1, <1>4, <1>5

LEMMA ScriptStep ==
    ASSUME ClockInv, Script
    PROVE  ClockInv'
<1>1. ASSUME NEW p \in Nodes, NewObject(p) \/ NewTreeNode(p) \/ NewUnit(p)
      PROVE  ClockInv'
  BY <1>1, NodeStep DEF NewObject, NewTreeNode, NewUnit
<1>2. ASSUME NEW n \in Movable \intersect Nodes,
             \/ \E f \in Frequencies : setFrequency(n, f)
             \/ \E r \in RankNumbers : setRank(n, r)
             \/ \E q \in {"bound", "weave"} : setPhase(n, q)
      PROVE  ClockInv'
  <2>1. domain[n] \in Domains
    BY <1>2 DEF ClockInv, TreeTypeOK
  <2>2. PICK d : /\ setClockDomain(n, d) /\ d \in Domains /\ d # NoDomain
                 /\ \A field \in Fields : domain[n][field] # NoDomain[field] =>
                                             d[field] # NoDomain[field]
    <3>1. ASSUME NEW f \in Frequencies, setFrequency(n, f)
          PROVE  /\ setClockDomain(n, [domain[n] EXCEPT !.freq = f])
                 /\ [domain[n] EXCEPT !.freq = f] \in Domains
                 /\ [domain[n] EXCEPT !.freq = f] # NoDomain
                 /\ \A field \in Fields : domain[n][field] # NoDomain[field] =>
                                             [domain[n] EXCEPT !.freq = f][field] # NoDomain[field]
      BY <3>1, <2>1, FrequencyAssumption DEF setFrequency, Domains, NoDomain, None, Fields
    <3>2. ASSUME NEW r \in RankNumbers, setRank(n, r)
          PROVE  /\ setClockDomain(n, [domain[n] EXCEPT !.rank = r])
                 /\ [domain[n] EXCEPT !.rank = r] \in Domains
                 /\ [domain[n] EXCEPT !.rank = r] # NoDomain
                 /\ \A field \in Fields : domain[n][field] # NoDomain[field] =>
                                             [domain[n] EXCEPT !.rank = r][field] # NoDomain[field]
      BY <3>2, <2>1, RankAssumption DEF setRank, Domains, NoDomain, None, Fields
    <3>3. ASSUME NEW q \in {"bound", "weave"}, setPhase(n, q)
          PROVE  /\ setClockDomain(n, [domain[n] EXCEPT !.phase = q])
                 /\ [domain[n] EXCEPT !.phase = q] \in Domains
                 /\ [domain[n] EXCEPT !.phase = q] # NoDomain
                 /\ \A field \in Fields : domain[n][field] # NoDomain[field] =>
                                             [domain[n] EXCEPT !.phase = q][field] # NoDomain[field]
      BY <3>3, <2>1 DEF setPhase, Domains, NoDomain, Phases, Fields
    <3> QED
      BY <1>2, <3>1, <3>2, <3>3
  <2> QED
    BY <1>2, <2>2, SetterStep
<1> QED
  BY <1>1, <1>2 DEF Script

------------------------------------------------------------------------------
(* build *)

LEMMA EnterStep == ASSUME ClockInv, EnterConfiguring PROVE ClockInv'
<1>1. /\ stage = "script" /\ stage' = "configuring" /\ waiting' = Nodes /\ declared' = domain
      /\ UNCHANGED <<parent, kind, domain, isSet, phases, cpus>>
  BY DEF EnterConfiguring, treeVars, objectVars, systemVars
<1>2. Nodes' = Nodes /\ ClockedObjects' = ClockedObjects /\ Shape'
  BY <1>1 DEF Nodes, ClockedObjects, Shape, ClockInv, TreeTypeOK
<1>3. TreeTypeOK'
  BY <1>1, <1>2 DEF ClockInv, TreeTypeOK, Domains
<1>4. Said'
  <2>1. declared' \in [Nodes' -> Domains']
    BY <1>1, <1>2 DEF ClockInv, TreeTypeOK, Domains
  <2>2. ASSUME NEW field \in Fields PROVE System \in Given(field)'
    <3>1. System \in Nodes
      BY DEF ClockInv, TreeTypeOK, Shape, System
    <3>2. domain[System][field] # NoDomain[field]
      BY <1>1 DEF ClockInv, Scripted
    <3>3. System \in Nodes' /\ declared'[System][field] # NoDomain[field]
      BY <1>1, <1>2, <3>1, <3>2
    <3> QED
      BY <3>3 DEF Given, System, NoDomain
  <2>3. Fixed(declared'[System])
    BY <1>1 DEF ClockInv, Scripted
  <2> QED
    BY <2>1, <2>2, <2>3 DEF Said, Fixed, System, Fields
<1>5. Registering'
  <2>1. {m \in Nodes' \ waiting' : isSet'[m]} = {} /\ phases' = {}
    BY <1>1, <1>2 DEF ClockInv, Scripted
  <2>2. phases' = {Registration(n)' : n \in {m \in Nodes' \ waiting' : isSet'[m]}}
    BY <2>1
  <2>3. /\ \A n \in Nodes' : isSet'[n] => n \in ClockedObjects' /\ declared'[n] # NoDomain
        /\ \A n \in Nodes' : ~isSet'[n] => declared'[n] = NoDomain
    BY <1>1, <1>2 DEF ClockInv, Scripted
  <2>4. \A field \in Fields, n \in Nodes' :
           domain'[n][field] \in {declared'[n][field], Nearest(field, n)'}
    BY <1>1
  <2> QED
    BY <1>1, <1>2, <2>2, <2>3, <2>4 DEF Registering, NoDomain, Fields
<1>6. Numbered'
  BY <1>1, Unnumbered DEF ClockInv, Numbered
<1>7. Scripted' /\ Refused' /\ Clocked'
  BY <1>1 DEF Scripted, Refused, Clocked, isConfigured
<1> QED
  BY <1>3, <1>4, <1>5, <1>6, <1>7 DEF ClockInv

\* An object that registers keeps, and registers, what the tree says.
LEMMA KeepsTree ==
    ASSUME ClockInv, stage = "configuring", NEW n \in Nodes
    PROVE  getDomain(n) = TreeDomain(n)
<1>1. ASSUME NEW field \in Fields PROVE Get(field, n) = Nearest(field, n)
  <2>1. Inherited(field)[n] = Nearest(field, n)
    BY Inherits DEF ClockInv, TreeTypeOK, Said, Registering
  <2> QED
    BY <2>1 DEF Get, isConfigured
<1> QED
  BY <1>1 DEF getDomain, TreeDomain, Fields

LEMMA RegisterStep ==
    ASSUME ClockInv, NEW n \in Nodes, onConfiguring(n)
    PROVE  ClockInv'
<1>1. /\ stage = "configuring" /\ n \in waiting /\ waiting' = waiting \ {n}
      /\ UNCHANGED <<parent, kind, isSet, declared, clock, main, cpus>>
  BY DEF onConfiguring, treeVars, scriptVars
<1>2. /\ Shape /\ Nodes' = Nodes /\ Shape' /\ ClockedObjects' = ClockedObjects
      /\ RankedSchedule' = RankedSchedule
  BY <1>1, Kept DEF ClockInv, TreeTypeOK
<1>3. Said' /\ Numbered' /\ Scripted' /\ Clocked'
  <2>1. stage' \in {"configuring", "refused"}
    BY <1>1 DEF onConfiguring, registerClockDomain
  <2>2. Said'
    BY <1>1, SaidFrame DEF ClockInv
  <2>3. Numbered'
    BY <1>1, <2>1, Unnumbered DEF ClockInv, Numbered
  <2> QED
    BY <2>1, <2>2, <2>3 DEF Scripted, Clocked, isConfigured
<1>4. /\ \A field \in Fields : System \in Given(field)
      /\ declared \in [Nodes -> Domains]
  BY <1>1 DEF ClockInv, Said
<1>5. TreeDomain(n) \in Domains
  <2>1. ASSUME NEW field \in Fields
        PROVE  \E m \in Nodes : Nearest(field, n) = declared[m][field]
    BY <1>2, <1>4, NearestOf
  <2>2. PICK a \in Domains : Nearest("phase", n) = a.phase
    BY <2>1, <1>4 DEF Fields
  <2>3. PICK b \in Domains : Nearest("rank", n) = b.rank
    BY <2>1, <1>4 DEF Fields
  <2>4. PICK c \in Domains : Nearest("freq", n) = c.freq
    BY <2>1, <1>4 DEF Fields
  <2> QED
    BY <2>2, <2>3, <2>4 DEF TreeDomain, Domains
<1>6. CASE ~isSet[n]
  <2>1. UNCHANGED <<stage, domain, phases>>
    BY <1>6 DEF onConfiguring
  <2>2. TreeTypeOK'
    BY <1>1, <1>2, <2>1 DEF ClockInv, TreeTypeOK, Domains
  <2>3. {m \in Nodes' \ waiting' : isSet'[m]} = {m \in Nodes \ waiting : isSet[m]}
    BY <1>1, <1>2, <1>6
  <2>4. phases' = {Registration(m)' : m \in {k \in Nodes' \ waiting' : isSet'[k]}}
    BY <1>1, <2>1, <2>3, Kept DEF ClockInv, Registering
  <2>5. \A m \in Nodes' \ waiting' : isSet'[m] => ~Ranked(m)'
    BY <1>1, <1>2, <1>6, Kept DEF ClockInv, Registering
  <2>6. \A field \in Fields, m \in Nodes' :
           domain'[m][field] \in {declared'[m][field], Nearest(field, m)'}
    BY <1>1, <1>2, <2>1, Kept DEF ClockInv, Registering
  <2>7. Registering'
    BY <1>1, <1>2, <2>4, <2>5, <2>6 DEF ClockInv, Registering, NoDomain, Fields
  <2> QED
    BY <1>1, <1>3, <2>1, <2>2, <2>7 DEF ClockInv, Refused
<1>7. CASE isSet[n]
  <2>1. /\ domain' = [domain EXCEPT ![n] = TreeDomain(n)]
        /\ registerClockDomain(n, TreeDomain(n))
    BY <1>1, <1>7, KeepsTree DEF onConfiguring
  <2>2. domain' \in [Nodes -> Domains]
    BY <1>5, <2>1 DEF ClockInv, TreeTypeOK
  <2>3. CASE Ranked(n)
    <3>1. stage' = "refused" /\ n \in RankedSchedule
      BY <1>1, <1>7, <2>1, <2>3 DEF Ranked, registerClockDomain, TreeDomain, RankedSchedule,
         ClockInv, Registering
    <3>2. TreeTypeOK'
      BY <1>1, <1>2, <2>2, <3>1 DEF ClockInv, TreeTypeOK, Domains
    <3> QED
      BY <1>2, <1>3, <3>1, <3>2 DEF ClockInv, Refused, Registering
  <2>4. CASE ~Ranked(n)
    <3>1. stage' = "configuring" /\ phases' = phases \union {Registration(n)}
      BY <1>1, <2>1, <2>4 DEF Ranked, registerClockDomain, TreeDomain, Registration
    <3>2. TreeTypeOK'
      BY <1>1, <1>2, <2>2, <3>1 DEF ClockInv, TreeTypeOK, Domains
    <3>3. {m \in Nodes' \ waiting' : isSet'[m]} = {m \in Nodes \ waiting : isSet[m]} \union {n}
      BY <1>1, <1>2, <1>7
    <3>4. phases' = {Registration(m)' : m \in {k \in Nodes' \ waiting' : isSet'[k]}}
      <4>1. phases = {Registration(m) : m \in {k \in Nodes \ waiting : isSet[k]}}
        BY <1>1 DEF ClockInv, Registering
      <4>2. phases' = {Registration(m) : m \in {k \in Nodes' \ waiting' : isSet'[k]}}
        BY <3>1, <3>3, <4>1
      <4> QED
        BY <1>1, <4>2, Kept
    <3>5. \A m \in Nodes' \ waiting' : isSet'[m] => ~Ranked(m)'
      BY <1>1, <1>2, <2>4, Kept DEF ClockInv, Registering
    <3>6. \A field \in Fields, m \in Nodes' :
             domain'[m][field] \in {declared'[m][field], Nearest(field, m)'}
      <4>1. ASSUME NEW field \in Fields, NEW m \in Nodes
            PROVE  domain'[m][field] \in {declared[m][field], Nearest(field, m)}
        <5>1. CASE m = n
          BY <5>1, <2>1, <2>2 DEF TreeDomain, Fields
        <5>2. CASE m # n
          BY <5>2, <1>1, <2>1 DEF ClockInv, Registering, TreeTypeOK
        <5> QED
          BY <5>1, <5>2
      <4> QED
        BY <4>1, <1>1, <1>2, Kept
    <3>7. Registering'
      BY <1>1, <1>2, <3>4, <3>5, <3>6 DEF ClockInv, Registering, NoDomain, Fields
    <3> QED
      BY <1>3, <3>1, <3>2, <3>7 DEF ClockInv, Refused
  <2> QED
    BY <2>3, <2>4
<1> QED
  BY <1>6, <1>7 DEF ClockInv, TreeTypeOK

LEMMA BuildClocksStep == ASSUME ClockInv, buildClockDomains PROVE ClockInv'
<1>1. /\ stage = "configuring" /\ waiting = {} /\ stage' = "configured"
      /\ clock' = [n \in ClockedNodes |-> RankClock(n)] /\ main' = <<"schedule", 0>>
      /\ UNCHANGED <<parent, kind, domain, isSet, declared, cpus>>
  BY DEF buildClockDomains, treeVars, objectVars, scriptVars
<1>2. /\ phases = {Registration(n) : n \in {m \in Nodes : isSet[m]}}
      /\ \A n \in Nodes : isSet[n] <=> declared[n] # NoDomain
      /\ \A n \in Nodes : isSet[n] => ~Ranked(n)
  BY <1>1 DEF ClockInv, Registering
<1>3. \A n : Registration(n)[4] = n
  BY DEF Registration
<1>4. ClockedNodes = {n \in Nodes : declared[n] # NoDomain}
  BY <1>2, <1>3 DEF ClockedNodes
<1>5. ASSUME NEW n \in ClockedNodes PROVE RankClock(n) = TreeDomain(n)
  <2>1. Registration(n) \in phases /\ \A e \in phases : e[4] = n => e = Registration(n)
    BY <1>2, <1>3, <1>4, <1>5
  <2>2. (CHOOSE e \in phases : e[4] = n) = Registration(n)
    BY <2>1, <1>3
  <2>3. PICK r : r = Registration(n)
    OBVIOUS
  <2>4. r[1] = Nearest("phase", n) /\ r[2] = Nearest("rank", n) /\ r[3] = Nearest("freq", n)
    BY <2>3 DEF Registration
  <2>5. RankClock(n) = [phase |-> r[1], rank |-> r[2], freq |-> r[3]]
    BY <2>2, <2>3 DEF RankClock
  <2> QED
    BY <2>4, <2>5 DEF TreeDomain
<1>6. RankedSchedule = {}
  BY <1>2 DEF RankedSchedule, TreeDomain, Ranked, ClockedObjects
<1>7. /\ Nodes' = Nodes /\ Shape' /\ RankedSchedule' = {} /\ \A n : TreeDomain(n)' = TreeDomain(n)
  BY <1>1, <1>6, Kept DEF ClockInv, TreeTypeOK
<1>8. Clocked'
  BY <1>1, <1>4, <1>5, <1>7 DEF Clocked, NoDomain
<1>9. TreeTypeOK'
  BY <1>1, <1>7 DEF ClockInv, TreeTypeOK, Domains
<1>10. Said'
  BY <1>1, SaidFrame DEF ClockInv
<1>11. Numbered'
  BY <1>1, Unnumbered DEF ClockInv, Numbered
<1>12. Scripted' /\ Registering' /\ Refused'
  BY <1>1 DEF Scripted, Registering, Refused
<1> QED
  BY <1>8, <1>9, <1>10, <1>11, <1>12 DEF ClockInv

\* A step after the clocks are made, which leaves them and the tree alone.
LEMMA LaterFrame ==
    ASSUME ClockInv, isConfigured, isConfigured',
           UNCHANGED <<treeVars, objectVars, scriptVars, clock, main>>, Numbered'
    PROVE  ClockInv'
<1>1. UNCHANGED <<parent, kind, domain, isSet, declared, clock, main>>
  BY DEF treeVars, objectVars, scriptVars
<1>2. Nodes' = Nodes /\ Shape'
  BY <1>1, Kept DEF ClockInv, TreeTypeOK
<1>3. TreeTypeOK'
  BY <1>1, <1>2 DEF ClockInv, TreeTypeOK, Domains, isConfigured
<1>4. Said' /\ Clocked'
  BY <1>1, SaidFrame, ClockedFrame DEF ClockInv, isConfigured
<1>5. Scripted' /\ Registering' /\ Refused'
  BY DEF isConfigured, Scripted, Registering, Refused
<1> QED
  BY <1>3, <1>4, <1>5 DEF ClockInv

LEMMA AllClocked ==
    ASSUME ClockInv, isConfigured
    PROVE  \A n \in Nodes : ClockOf[n] = TreeDomain(n)
BY ClocksInherit DEF ClockInv, TreeTypeOK, Said, Clocked, isConfigured

LEMMA FreqType ==
    ASSUME ClockInv, stage # "script", NEW n \in Nodes
    PROVE  TreeDomain(n).freq \in Int
<1>1. /\ Shape /\ System \in Given("freq") /\ declared \in [Nodes -> Domains]
  BY DEF ClockInv, TreeTypeOK, Said, Fields
<1>2. PICK m \in Nodes : Nearest("freq", n) = declared[m]["freq"]
  BY <1>1, NearestOf
<1>3. declared[m].freq \in Int
  <2>1. declared[m].freq \in Frequencies \union {SystemFreq, None}
    BY <1>1 DEF Domains
  <2>2. Frequencies \union {SystemFreq, None} \subseteq Int
    BY FrequencyAssumption DEF None
  <2> QED
    BY <2>1, <2>2
<1> QED
  BY <1>2, <1>3 DEF TreeDomain

LEMMA EnterFinalizedStep == ASSUME ClockInv, EnterFinalized PROVE ClockInv'
<1>1. /\ stage = "configured" /\ stage' = "finalizing" /\ waiting' = Units
      /\ UNCHANGED <<parent, kind, declared, cpus>>
      /\ UNCHANGED <<treeVars, objectVars, scriptVars, clock, main>>
  BY DEF EnterFinalized, treeVars, scriptVars, systemVars, Units
<1>2. cpus' = <<>> /\ CpuNodes' = {}
  BY <1>1 DEF ClockInv, Numbered, CpuNodes
<1>3. Numbered'
  BY <1>1, <1>2, Kept DEF Numbered
<1> QED
  BY <1>1, <1>3, LaterFrame DEF isConfigured

LEMMA RegisterCPUStep ==
    ASSUME ClockInv, NEW n \in Nodes, registerCPU(n)
    PROVE  ClockInv'
<1>1. /\ stage = "finalizing" /\ stage' = "finalizing" /\ n \in waiting
      /\ waiting' = waiting \ {n}
      /\ UNCHANGED <<parent, kind, declared>>
      /\ UNCHANGED <<treeVars, objectVars, scriptVars, clock, main>>
  BY DEF registerCPU, treeVars, scriptVars
<1>2. PICK f : f = TreeDomain(n).freq
  OBVIOUS
<1>3. cpus' = Append(cpus, [node |-> n, freq |-> f])
  BY <1>1, <1>2, AllClocked DEF registerCPU, isConfigured
<1>4. n \in Nat /\ f \in Int
  BY <1>1, <1>2, FreqType, Upwards DEF ClockInv, TreeTypeOK
<1>5. /\ cpus \in Seq([node : Nat, freq : Int])
      /\ \A i, j \in DOMAIN cpus : cpus[i].node = cpus[j].node => i = j
      /\ \A i \in DOMAIN cpus : cpus[i].freq = TreeDomain(cpus[i].node).freq
      /\ Units = waiting \union CpuNodes /\ waiting \intersect CpuNodes = {}
  BY <1>1 DEF ClockInv, Numbered
<1>6. /\ cpus' \in Seq([node : Nat, freq : Int])
      /\ Len(cpus') = Len(cpus) + 1 /\ Len(cpus) \in Nat
      /\ DOMAIN cpus = 1 .. Len(cpus) /\ DOMAIN cpus' = 1 .. Len(cpus')
      /\ \A i \in 1 .. Len(cpus) : cpus'[i] = cpus[i]
      /\ cpus'[Len(cpus')].node = n /\ cpus'[Len(cpus')].freq = f
  BY <1>3, <1>4, <1>5
<1>7. \A i \in DOMAIN cpus : cpus[i].node # n
  BY <1>1, <1>5 DEF CpuNodes
<1>8. CpuNodes' = CpuNodes \union {n}
  <2>1. DOMAIN cpus' = DOMAIN cpus \union {Len(cpus')}
    BY <1>6
  <2>2. \A i \in DOMAIN cpus : cpus'[i].node = cpus[i].node
    BY <1>6
  <2>3. CpuNodes = {cpus'[i].node : i \in DOMAIN cpus}
    BY <2>2 DEF CpuNodes
  <2>4. cpus'[Len(cpus')].node = n
    BY <1>6
  <2>5. CpuNodes' = {cpus'[i].node : i \in DOMAIN cpus'}
    BY DEF CpuNodes
  <2> QED
    BY <2>1, <2>3, <2>4, <2>5
<1>9. \A i, j \in DOMAIN cpus' : cpus'[i].node = cpus'[j].node => i = j
  <2>1. ASSUME NEW i \in DOMAIN cpus', NEW j \in DOMAIN cpus', cpus'[i].node = cpus'[j].node
        PROVE  i = j
    <3>1. CASE i \in 1 .. Len(cpus) /\ j \in 1 .. Len(cpus)
      BY <2>1, <3>1, <1>5, <1>6
    <3>2. CASE i \in 1 .. Len(cpus) /\ j \notin 1 .. Len(cpus)
      <4>1. j = Len(cpus')
        BY <3>2, <2>1, <1>6
      <4> QED
        BY <4>1, <2>1, <3>2, <1>6, <1>7
    <3>3. CASE i \notin 1 .. Len(cpus) /\ j \in 1 .. Len(cpus)
      <4>1. i = Len(cpus')
        BY <3>3, <2>1, <1>6
      <4> QED
        BY <4>1, <2>1, <3>3, <1>6, <1>7
    <3>4. CASE i \notin 1 .. Len(cpus) /\ j \notin 1 .. Len(cpus)
      BY <2>1, <3>4, <1>6
    <3> QED
      BY <3>1, <3>2, <3>3, <3>4
  <2> QED
    BY <2>1
<1>10. \A i \in DOMAIN cpus' : cpus'[i].freq = TreeDomain(cpus'[i].node).freq
  <2>1. ASSUME NEW i \in DOMAIN cpus' PROVE cpus'[i].freq = TreeDomain(cpus'[i].node).freq
    <3>1. CASE i = Len(cpus')
      BY <3>1, <1>2, <1>6
    <3>2. CASE i \in 1 .. Len(cpus)
      BY <3>2, <1>5, <1>6
    <3> QED
      BY <3>1, <3>2, <1>6
  <2> QED
    BY <2>1
<1>11. (\A i \in DOMAIN cpus : cpus[i].freq = TreeDomain(cpus[i].node).freq)'
  <2>1. \A m : TreeDomain(m)' = TreeDomain(m)
    BY <1>1, Kept
  <2>2. ASSUME NEW i \in DOMAIN cpus' PROVE (cpus[i].freq = TreeDomain(cpus[i].node).freq)'
    <3>1. PICK m : m = cpus'[i].node
      OBVIOUS
    <3>2. cpus'[i].freq = TreeDomain(m)'.freq
      BY <3>1, <2>1, <2>2, <1>10
    <3> QED
      BY <3>1, <3>2 DEF TreeDomain, Nearest
  <2> QED
    BY <2>2
<1>12. Units' = waiting' \union CpuNodes' /\ waiting' \intersect CpuNodes' = {}
  <2>1. Units' = Units
    BY <1>1, Kept
  <2> QED
    BY <2>1, <1>1, <1>5, <1>7, <1>8 DEF CpuNodes
<1>13. Numbered'
  BY <1>1, <1>6, <1>9, <1>11, <1>12 DEF Numbered
<1> QED
  BY <1>1, <1>13, LaterFrame DEF isConfigured

LEMMA LaterStep ==
    ASSUME ClockInv, Built \/ Finalize
    PROVE  ClockInv'
<1>1. /\ isConfigured /\ isConfigured' /\ stage' \in {"built", "finalized"}
      /\ UNCHANGED <<parent, kind, declared, cpus>>
      /\ UNCHANGED <<treeVars, objectVars, scriptVars, clock, main>>
  BY DEF Built, Finalize, isConfigured, treeVars, scriptVars, systemVars
<1>2. (stage = "finalizing" /\ waiting = {}) \/ stage \in {"built", "finalized"}
  BY DEF Built, Finalize
<1>3. Units = CpuNodes
  BY <1>2 DEF ClockInv, Numbered
<1>4. Units' = Units /\ CpuNodes' = CpuNodes /\ \A n : TreeDomain(n)' = TreeDomain(n)
  BY <1>1, Kept DEF CpuNodes
<1>5. Numbered'
  <2>1. (\A i \in DOMAIN cpus : cpus[i].freq = TreeDomain(cpus[i].node).freq)'
    <3>1. ASSUME NEW i \in DOMAIN cpus PROVE cpus[i].freq = TreeDomain(cpus[i].node)'.freq
      BY <3>1, <1>1, <1>4 DEF ClockInv, Numbered
    <3> QED
      BY <1>1, <3>1
  <2> QED
    BY <1>1, <1>3, <1>4, <2>1 DEF ClockInv, Numbered
<1> QED
  BY <1>1, <1>5, LaterFrame

LEMMA ClockStutter == ASSUME ClockInv, UNCHANGED domainVars PROVE ClockInv'
<1>1. /\ UNCHANGED <<parent, kind, declared>>
      /\ UNCHANGED <<stage, domain, isSet, waiting, phases, clock, main, cpus>>
  BY DEF domainVars, treeVars, objectVars, scriptVars, systemVars
<1>2. /\ Nodes' = Nodes /\ ClockedObjects' = ClockedObjects /\ Units' = Units /\ Shape'
      /\ CpuNodes' = CpuNodes
  BY <1>1, Kept DEF ClockInv, TreeTypeOK, CpuNodes
<1>3. TreeTypeOK' /\ Scripted'
  BY <1>1, <1>2 DEF ClockInv, TreeTypeOK, Scripted, Domains, Fixed, Fields, NoDomain, System
<1>4. Said'
  BY <1>1, SaidFrame DEF ClockInv, Said
<1>5. Clocked' /\ Refused'
  BY <1>1, ClockedFrame, Kept DEF ClockInv, Clocked, Refused, isConfigured
<1>6. Registering'
  <2>1. {m \in Nodes' \ waiting' : isSet'[m]} = {m \in Nodes \ waiting : isSet[m]}
    BY <1>1, <1>2
  <2>2. ASSUME stage = "configuring"
        PROVE  phases' = {Registration(m)' : m \in {k \in Nodes' \ waiting' : isSet'[k]}}
    BY <2>1, <2>2, <1>1, Kept DEF ClockInv, Registering
  <2>3. ASSUME stage = "configuring"
        PROVE  \A field \in Fields, m \in Nodes' :
                  domain'[m][field] \in {declared'[m][field], Nearest(field, m)'}
    BY <2>3, <1>1, <1>2, Kept DEF ClockInv, Registering
  <2>4. ASSUME stage = "configuring"
        PROVE  \A m \in Nodes' \ waiting' : isSet'[m] => ~Ranked(m)'
    BY <2>4, <1>1, <1>2, Kept DEF ClockInv, Registering
  <2> QED
    BY <2>2, <2>3, <2>4, <1>1, <1>2 DEF ClockInv, Registering, NoDomain, Fields
<1>7. Numbered'
  <2>1. \A n : TreeDomain(n)' = TreeDomain(n)
    BY <1>1, Kept
  <2>2. (\A i \in DOMAIN cpus : cpus[i].freq = TreeDomain(cpus[i].node).freq)'
    <3>1. ASSUME NEW i \in DOMAIN cpus PROVE cpus[i].freq = TreeDomain(cpus[i].node)'.freq
      BY <3>1, <1>1, <2>1 DEF ClockInv, Numbered
    <3> QED
      BY <1>1, <3>1
  <2> QED
    BY <1>1, <1>2, <2>2 DEF ClockInv, Numbered
<1> QED
  BY <1>3, <1>4, <1>5, <1>6, <1>7 DEF ClockInv

LEMMA ClockStep == ClockInv /\ [DomainsNext]_domainVars => ClockInv'
<1> SUFFICES ASSUME ClockInv, [DomainsNext]_domainVars PROVE ClockInv'
  OBVIOUS
<1>1. CASE Script
  BY <1>1, ScriptStep
<1>2. CASE EnterConfiguring
  BY <1>2, EnterStep
<1>3. CASE buildClockDomains
  BY <1>3, BuildClocksStep
<1>4. CASE EnterFinalized
  BY <1>4, EnterFinalizedStep
<1>5. CASE Built \/ Finalize
  BY <1>5, LaterStep
<1>6. ASSUME NEW n \in Nodes, onConfiguring(n) PROVE ClockInv'
  BY <1>6, RegisterStep
<1>7. ASSUME NEW n \in Nodes, registerCPU(n) PROVE ClockInv'
  BY <1>7, RegisterCPUStep
<1>8. CASE UNCHANGED domainVars
  BY <1>8, ClockStutter
<1> QED
  BY <1>1, <1>2, <1>3, <1>4, <1>5, <1>6, <1>7, <1>8 DEF DomainsNext, BuildStep

THEOREM ClockInvariant == DomainsSpec => []ClockInv
BY ClockStart, ClockStep, PTL DEF DomainsSpec

\* Where the script leaves the system's own phase and rank alone: whatever the order in
\* which build comes to the objects, it refuses exactly the trees with a ranked
\* schedule, and every node's clock is that of what the nodes above it were given.
THEOREM ClocksFollow ==
    ASSUME System \notin Movable
    PROVE  DomainsSpec => []ClockFollowsTree
<1>1. ASSUME ClockInv, isConfigured PROVE <<ClockOf[System].phase, ClockOf[System].rank>> = main
  <2>1. Shape /\ System \in Nodes /\ Fixed(declared[System])
        /\ \A field \in Fields : System \in Given(field)
    BY <1>1, Upwards DEF ClockInv, TreeTypeOK, Said, isConfigured, Shape, System
  <2>2. Nearest("phase", System) = declared[System].phase
        /\ Nearest("rank", System) = declared[System].rank
    BY <2>1, NearestOf DEF Fields
  <2>3. ClockOf[System] = TreeDomain(System)
    BY <1>1, <2>1, AllClocked
  <2> QED
    BY <1>1, <2>1, <2>2, <2>3 DEF Fixed, TreeDomain, ClockInv, Clocked
<1>2. ClockInv => ClockFollowsTree
  BY <1>1, AllClocked DEF ClockInv, Refused, Clocked, ClockFollowsTree
<1> QED
  BY <1>2, ClockInvariant, PTL

\* Whatever the script does, the harts are the units of the tree, one number each, and a
\* CPU's frequency is that of its clock.
THEOREM HartsFollow == DomainsSpec => []HartsClocked
<1>1. ClockInv => HartsClocked
  BY DEF ClockInv, Numbered, HartsClocked, Units, CpuNodes
<1> QED
  BY <1>1, ClockInvariant, PTL

=============================================================================
