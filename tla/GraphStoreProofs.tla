--------------------------- MODULE GraphStoreProofs ---------------------------
(***************************************************************************)
(* Proofs about GraphStore, for any graphs, nodes, clients and bounds.     *)
(* First what the operators on maps and sequences return, then what each   *)
(* edit of a graph keeps, then the invariant of the registry, the file and *)
(* the saves under way.                                                    *)
(***************************************************************************)
EXTENDS GraphStore, FiniteSetTheorems, FunctionTheorems, WellFoundedInduction, TLAPS

-----------------------------------------------------------------------------
(* Least elements: what stands in for induction on the length of a vector. *)

Less == {p \in Nat \X Nat : p[1] < p[2]}

\* The order of the naturals as a set of pairs is well-founded.
LEMMA LessWellFounded == IsWellFoundedOn(Less, Nat)
BY NatLessThanWellFounded, Zenon DEF OpToRel, Less

\* Membership in that set of pairs is the order itself.
LEMMA InLess == ASSUME NEW a \in Nat, NEW b \in Nat, a < b PROVE <<a, b>> \in Less
<1>1. <<a, b>> \in Nat \X Nat /\ <<a, b>>[1] = a /\ <<a, b>>[2] = b  OBVIOUS
<1>. QED  BY <1>1 DEF Less

\* A non-empty set of naturals has a least element.
LEMMA LeastElement ==
    ASSUME NEW T, T \subseteq Nat, T # {}
    PROVE  \E m \in T : \A y \in T : m <= y
<1>1. \E m \in T : \A y \in T : ~(<<y, m>> \in Less)  BY LessWellFounded, WFMin
<1>2. PICK m \in T : \A y \in T : ~(<<y, m>> \in Less)  BY <1>1
<1>3. \A y \in T : ~(y < m)  BY <1>2, InLess
<1>. QED  BY <1>2, <1>3

-----------------------------------------------------------------------------
(* Maps and vectors.                                                       *)

\* The empty map has any type.
LEMMA EmptyMap == ASSUME NEW S, NEW T PROVE IsMap(NoFun, S, T)
BY DEF IsMap, NoFun

\* An insertion keeps the type of a map and adds one key.
LEMMA PutMap ==
    ASSUME NEW S, NEW T, NEW f, IsMap(f, S, T), NEW k \in S, NEW v \in T
    PROVE  IsMap(Put(f, k, v), S, T) /\ DOMAIN Put(f, k, v) = DOMAIN f \cup {k}
BY DEF IsMap, Put

\* A removal keeps the type of a map and takes one key away.
LEMMA DropMap ==
    ASSUME NEW S, NEW T, NEW f, IsMap(f, S, T), NEW k
    PROVE  IsMap(Drop(f, k), S, T) /\ DOMAIN Drop(f, k) = DOMAIN f \ {k}
BY DEF IsMap, Drop

\* So does a renaming of a key.
LEMMA RenameMap ==
    ASSUME NEW S, NEW T, NEW f, IsMap(f, S, T), NEW old \in DOMAIN f, NEW new \in S
    PROVE  /\ IsMap(Rename(f, old, new), S, T)
           /\ DOMAIN Rename(f, old, new) = (DOMAIN f \ {old}) \cup {new}
<1>1. IsMap(Drop(f, old), S, T) /\ DOMAIN Drop(f, old) = DOMAIN f \ {old}  BY DropMap
<1>2. f[old] \in T  BY DEF IsMap
<1>3. IsMap(Put(Drop(f, old), new, f[old]), S, T)  BY <1>1, <1>2, PutMap
<1>4. DOMAIN Put(Drop(f, old), new, f[old]) = DOMAIN Drop(f, old) \cup {new}  BY DEF Put
<1>. QED  BY <1>1, <1>3, <1>4 DEF Rename

\* Vec::remove takes one element out and moves the later ones up.
LEMMA WithoutSeq ==
    ASSUME NEW T, NEW s \in Seq(T), NEW i \in DOMAIN s
    PROVE  /\ Without(s, i) \in Seq(T) /\ Len(Without(s, i)) = Len(s) - 1
           /\ DOMAIN Without(s, i) = 1..(Len(s) - 1)
           /\ \A j \in 1..(Len(s) - 1) :
                 Without(s, i)[j] = IF j < i THEN s[j] ELSE s[j + 1]
<1>1. Len(s) \in Nat /\ DOMAIN s = 1..Len(s) /\ i \in 1..Len(s)  OBVIOUS
<1>2. Len(s) - 1 \in Nat  BY <1>1
<1>3. \A j \in 1..(Len(s) - 1) : (IF j < i THEN s[j] ELSE s[j + 1]) \in T  BY <1>1
<1>4. Without(s, i) \in [1..(Len(s) - 1) -> T]  BY <1>3 DEF Without
<1>. QED  BY <1>2, <1>4 DEF Without

\* The positions of a vector and how many they are.
LEMMA FirstNumbers ==
    ASSUME NEW n \in Nat
    PROVE  IsFiniteSet(1..n) /\ Cardinality(1..n) = n
<1>1. 1 \in Int /\ n \in Int  OBVIOUS
<1>2. IsFiniteSet(1..n) /\ Cardinality(1..n) = IF 1 > n THEN 0 ELSE n - 1 + 1
  BY <1>1, FS_Interval
<1>. QED  BY <1>2

\* The positions a retained element may come from: those of its rank.
LEMMA RankExists ==
    ASSUME NEW n \in Nat, NEW K, K \subseteq 1..n, NEW j \in 1..Cardinality(K)
    PROVE  \E i \in K : Cardinality(Upto(K, i)) = j
<1>0. \A h \in K : h \in Nat /\ 1 <= h /\ h <= n  OBVIOUS
<1>1. IsFiniteSet(K) /\ Cardinality(K) \in Nat
  <2>1. IsFiniteSet(1..n)  BY FirstNumbers
  <2>2. IsFiniteSet(K)  BY <2>1, FS_Subset
  <2>. QED  BY <2>2, FS_CardinalityType
<1>2. \A i : Upto(K, i) \in SUBSET K  BY DEF Upto
<1>3. \A i : IsFiniteSet(Upto(K, i)) /\ Cardinality(Upto(K, i)) \in Nat
  BY <1>1, <1>2, FS_Subset, FS_CardinalityType
<1> DEFINE T == {i \in Nat : Cardinality(Upto(K, i)) >= j}
<1>4. n \in T
  <2>1. Upto(K, n) = K  BY <1>0 DEF Upto
  <2>. QED  BY <1>1, <2>1
<1>5. PICK m \in T : \A y \in T : m <= y
  <2>1. T \subseteq Nat /\ T # {}  BY <1>4
  <2> HIDE DEF T
  <2>. QED  BY <2>1, LeastElement
<1>6. m # 0
  <2>1. \A h \in K : ~(h <= 0)  BY <1>0
  <2>2. Upto(K, 0) = {}  BY <2>1 DEF Upto
  <2>. QED  BY <2>2, FS_EmptySet
<1>7. m - 1 \in Nat /\ Cardinality(Upto(K, m - 1)) < j
  <2>1. m - 1 \in Nat /\ m - 1 \notin T  BY <1>5, <1>6
  <2>. QED  BY <2>1, <1>3
<1>8. Upto(K, m) = IF m \in K THEN Upto(K, m - 1) \cup {m} ELSE Upto(K, m - 1)
  <2>1. \A h \in K : h <= m <=> h <= m - 1 \/ h = m  BY <1>0, <1>7
  <2>. QED  BY <2>1 DEF Upto
<1>9. m \in K /\ Cardinality(Upto(K, m)) = Cardinality(Upto(K, m - 1)) + 1
  <2>1. CASE m \in K
    <3>1. m \notin Upto(K, m - 1)  BY DEF Upto
    <3>. QED  BY <1>3, <1>8, <2>1, <3>1, FS_AddElement
  <2>2. CASE m \notin K  BY <1>5, <1>7, <1>8, <2>2
  <2>. QED  BY <2>1, <2>2
<1>10. Cardinality(Upto(K, m)) >= j  BY <1>5
<1>. QED  BY <1>3, <1>7, <1>9, <1>10

\* Where the j-th retained element was before.
Origin(K, j) == CHOOSE i \in K : Cardinality(Upto(K, i)) = j

\* Vec::retain leaves the elements at the given positions, each of them once.
LEMMA RetainSeq ==
    ASSUME NEW T, NEW s \in Seq(T), NEW K, K \subseteq DOMAIN s
    PROVE  /\ Cardinality(K) \in Nat /\ Cardinality(K) <= Len(s)
           /\ Retain(s, K) \in Seq(T) /\ Len(Retain(s, K)) = Cardinality(K)
           /\ DOMAIN Retain(s, K) = 1..Cardinality(K)
           /\ \A j \in 1..Cardinality(K) :
                 Origin(K, j) \in K /\ Retain(s, K)[j] = s[Origin(K, j)]
           /\ \A j, h \in 1..Cardinality(K) : Origin(K, j) = Origin(K, h) => j = h
<1>1. Len(s) \in Nat /\ DOMAIN s = 1..Len(s)  OBVIOUS
<1>2. Cardinality(K) \in Nat /\ Cardinality(K) <= Len(s)
  <2>1. IsFiniteSet(1..Len(s)) /\ Cardinality(1..Len(s)) = Len(s)  BY <1>1, FirstNumbers
  <2>2. IsFiniteSet(K) /\ Cardinality(K) <= Len(s)  BY <1>1, <2>1, FS_Subset
  <2>. QED  BY <2>2, FS_CardinalityType
<1>3. \A j \in 1..Cardinality(K) :
         Origin(K, j) \in K /\ Cardinality(Upto(K, Origin(K, j))) = j
  BY <1>1, RankExists DEF Origin
<1>4. Retain(s, K) = [j \in 1..Cardinality(K) |-> s[Origin(K, j)]]  BY DEF Retain, Origin
<1>5. \A j \in 1..Cardinality(K) : s[Origin(K, j)] \in T  BY <1>1, <1>3
<1>6. Retain(s, K) \in [1..Cardinality(K) -> T]  BY <1>4, <1>5
<1>. QED  BY <1>2, <1>3, <1>4, <1>6

-----------------------------------------------------------------------------
(* Graphs with one part replaced.                                          *)

\* A graph with other nodes is a graph, and only its nodes differ.
LEMMA WithNodes ==
    ASSUME NEW g, IsGraph(g), NEW f, IsMap(f, Nodes, NodeSpec), NEW h,
           h = [g EXCEPT !.nodes = f]
    PROVE  IsGraph(h) /\ h.nodes = f /\ h.edges = g.edges /\ h.name = g.name
<1>1. /\ h.name = g.name /\ h.nodes = f /\ h.edges = g.edges /\ h.inports = g.inports
      /\ h.outports = g.outports /\ h.groups = g.groups
      /\ h = [name |-> h.name, nodes |-> h.nodes, edges |-> h.edges, inports |-> h.inports,
              outports |-> h.outports, groups |-> h.groups]
  BY DEF IsGraph
<1>. QED  BY <1>1 DEF IsGraph

\* A graph with other edges is a graph, and only its edges differ.
LEMMA WithEdges ==
    ASSUME NEW g, IsGraph(g), NEW s \in Seq(EdgeSpec), NEW h, h = [g EXCEPT !.edges = s]
    PROVE  IsGraph(h) /\ h.nodes = g.nodes /\ h.edges = s /\ h.name = g.name
<1>1. /\ h.name = g.name /\ h.nodes = g.nodes /\ h.edges = s /\ h.inports = g.inports
      /\ h.outports = g.outports /\ h.groups = g.groups
      /\ h = [name |-> h.name, nodes |-> h.nodes, edges |-> h.edges, inports |-> h.inports,
              outports |-> h.outports, groups |-> h.groups]
  BY DEF IsGraph
<1>. QED  BY <1>1 DEF IsGraph

\* A graph with other exported inports is a graph with the same nodes and edges.
LEMMA WithInports ==
    ASSUME NEW g, IsGraph(g), NEW f, IsMap(f, Public, Nodes), NEW h,
           h = [g EXCEPT !.inports = f]
    PROVE  IsGraph(h) /\ h.nodes = g.nodes /\ h.edges = g.edges
<1>1. /\ h.name = g.name /\ h.nodes = g.nodes /\ h.edges = g.edges /\ h.inports = f
      /\ h.outports = g.outports /\ h.groups = g.groups
      /\ h = [name |-> h.name, nodes |-> h.nodes, edges |-> h.edges, inports |-> h.inports,
              outports |-> h.outports, groups |-> h.groups]
  BY DEF IsGraph
<1>. QED  BY <1>1 DEF IsGraph

\* A graph with other exported outports is a graph with the same nodes and edges.
LEMMA WithOutports ==
    ASSUME NEW g, IsGraph(g), NEW f, IsMap(f, Public, Nodes), NEW h,
           h = [g EXCEPT !.outports = f]
    PROVE  IsGraph(h) /\ h.nodes = g.nodes /\ h.edges = g.edges
<1>1. /\ h.name = g.name /\ h.nodes = g.nodes /\ h.edges = g.edges /\ h.inports = g.inports
      /\ h.outports = f /\ h.groups = g.groups
      /\ h = [name |-> h.name, nodes |-> h.nodes, edges |-> h.edges, inports |-> h.inports,
              outports |-> h.outports, groups |-> h.groups]
  BY DEF IsGraph
<1>. QED  BY <1>1 DEF IsGraph

\* A graph with other groups is a graph with the same nodes and edges.
LEMMA WithGroups ==
    ASSUME NEW g, IsGraph(g), NEW s \in Seq(GroupSpec), NEW h, h = [g EXCEPT !.groups = s]
    PROVE  IsGraph(h) /\ h.nodes = g.nodes /\ h.edges = g.edges
<1>1. /\ h.name = g.name /\ h.nodes = g.nodes /\ h.edges = g.edges /\ h.inports = g.inports
      /\ h.outports = g.outports /\ h.groups = s
      /\ h = [name |-> h.name, nodes |-> h.nodes, edges |-> h.edges, inports |-> h.inports,
              outports |-> h.outports, groups |-> h.groups]
  BY DEF IsGraph
<1>. QED  BY <1>1 DEF IsGraph

\* A new graph is an empty graph.
LEMMA NewGraph ==
    ASSUME NEW n \in Names
    PROVE  IsGraph(Graph_new(n)) /\ DOMAIN Graph_new(n).nodes = {} /\ Graph_new(n).edges = <<>>
<1> DEFINE g == Graph_new(n)
<1>1. /\ g.name = n /\ g.nodes = NoFun /\ g.edges = <<>> /\ g.inports = NoFun
      /\ g.outports = NoFun /\ g.groups = <<>>
      /\ g = [name |-> g.name, nodes |-> g.nodes, edges |-> g.edges, inports |-> g.inports,
              outports |-> g.outports, groups |-> g.groups]
  BY DEF Graph_new
<1>2. IsMap(NoFun, Nodes, NodeSpec) /\ IsMap(NoFun, Public, Nodes)  BY EmptyMap
<1>3. <<>> \in Seq(EdgeSpec) /\ <<>> \in Seq(GroupSpec)  OBVIOUS
<1>4. DOMAIN NoFun = {}  BY DEF NoFun
<1> HIDE DEF g
<1>5. IsGraph(g) /\ DOMAIN g.nodes = {} /\ g.edges = <<>>  BY <1>1, <1>2, <1>3, <1>4 DEF IsGraph
<1>. QED  BY <1>5 DEF g

-----------------------------------------------------------------------------
(* Loose edges: those with an end that is no node of the graph.            *)

Loose(g) == DOMAIN g.edges \ Anchored(g)

\* DanglingOnlyByAdd counts the loose edges.
LEMMA LooseCount ==
    ASSUME NEW g, IsGraph(g)
    PROVE  /\ IsFiniteSet(Loose(g)) /\ Cardinality(Loose(g)) \in Nat
           /\ Cardinality(Loose(g)) = Len(g.edges) - Cardinality(Anchored(g))
<1>1. Len(g.edges) \in Nat /\ DOMAIN g.edges = 1..Len(g.edges)  BY DEF IsGraph
<1>2. IsFiniteSet(DOMAIN g.edges) /\ Cardinality(DOMAIN g.edges) = Len(g.edges)
  BY <1>1, FirstNumbers
<1>3. DOMAIN g.edges \cap Anchored(g) = Anchored(g)  BY DEF Anchored
<1>4. /\ IsFiniteSet(Loose(g))
      /\ Cardinality(Loose(g)) = Cardinality(DOMAIN g.edges)
                                    - Cardinality(DOMAIN g.edges \cap Anchored(g))
  BY <1>2, FS_Difference DEF Loose
<1>. QED  BY <1>2, <1>3, <1>4, FS_CardinalityType

\* If the loose edges of h are loose in g there are no more of them.
LEMMA LooseSubset ==
    ASSUME NEW g, IsGraph(g), NEW h, Loose(h) \subseteq Loose(g)
    PROVE  Cardinality(Loose(h)) <= Cardinality(Loose(g))
BY LooseCount, FS_Subset

\* Nor if each loose edge of h was a loose edge of g at a place of its own.
LEMMA LooseMoved ==
    ASSUME NEW g, IsGraph(g), NEW h, NEW m \in [Loose(h) -> Loose(g)],
           \A i, j \in Loose(h) : m[i] = m[j] => i = j
    PROVE  Cardinality(Loose(h)) <= Cardinality(Loose(g))
<1>1. m \in Injection(Loose(h), Loose(g))  BY Fun_IsInj
<1>. QED  BY <1>1, LooseCount, FS_Injection

\* A graph with the same ends of edges and no node fewer has no more of them.
LEMMA SameEnds ==
    ASSUME NEW g, IsGraph(g), NEW h, DOMAIN h.edges = DOMAIN g.edges,
           DOMAIN g.nodes \subseteq DOMAIN h.nodes,
           \A i \in DOMAIN g.edges :
              h.edges[i].src = g.edges[i].src /\ h.edges[i].tgt = g.edges[i].tgt
    PROVE  Cardinality(Loose(h)) <= Cardinality(Loose(g))
<1>1. Loose(h) \subseteq Loose(g)  BY DEF Loose, Anchored
<1>. QED  BY <1>1, LooseSubset

-----------------------------------------------------------------------------
(* What every edit of graph.rs keeps.                                      *)

EditKeeps(g, to, h) ==
    /\ IsGraph(h)
    /\ DOMAIN h.nodes \subseteq DOMAIN g.nodes \/ to = g.name
    /\ Len(h.edges) <= Len(g.edges) => Cardinality(Loose(h)) <= Cardinality(Loose(g))

\* An edit that leaves nodes and edges alone keeps all of it.
LEMMA KeepsElsewhere ==
    ASSUME NEW g, IsGraph(g), NEW h, IsGraph(h), h.nodes = g.nodes, h.edges = g.edges, NEW to
    PROVE  EditKeeps(g, to, h)
<1>1. Cardinality(Loose(h)) <= Cardinality(Loose(g))  BY SameEnds
<1>. QED  BY <1>1 DEF EditKeeps

\* add_node.
LEMMA AddNodeKeeps ==
    ASSUME NEW g, IsGraph(g), NEW to, NEW h \in add_node(g, to)
    PROVE  EditKeeps(g, to, h)
<1>1. PICK n \in Nodes \ DOMAIN g.nodes, k \in Component, x \in BOOLEAN :
         h = [g EXCEPT !.nodes = Put(@, n, [component |-> k, x |-> x, px |-> x])]
  BY DEF add_node
<1>2. to = g.name  BY DEF add_node
<1> DEFINE f == Put(g.nodes, n, [component |-> k, x |-> x, px |-> x])
<1>3. IsMap(f, Nodes, NodeSpec)
  <2>1. [component |-> k, x |-> x, px |-> x] \in NodeSpec  BY DEF NodeSpec
  <2>2. IsMap(g.nodes, Nodes, NodeSpec)  BY DEF IsGraph
  <2>. QED  BY <2>1, <2>2, PutMap
<1>4. DOMAIN f = DOMAIN g.nodes \cup {n}  BY DEF Put
<1>5. h = [g EXCEPT !.nodes = f]  BY <1>1
<1> HIDE DEF f
<1>6. IsGraph(h) /\ h.nodes = f /\ h.edges = g.edges  BY <1>3, <1>5, WithNodes
<1>7. Cardinality(Loose(h)) <= Cardinality(Loose(g))  BY <1>4, <1>6, SameEnds
<1>. QED  BY <1>2, <1>6, <1>7 DEF EditKeeps

\* remove_node: an edge that stays loose was loose before, since it is not
\* one of the removed node.
LEMMA RemoveNodeKeeps ==
    ASSUME NEW g, IsGraph(g), NEW to, NEW h \in remove_node(g, to)
    PROVE  EditKeeps(g, to, h)
<1>1. PICK n \in DOMAIN g.nodes :
         h = [g EXCEPT !.nodes = Drop(@, n), !.edges = Retain(@, DOMAIN @ \ EdgesAt(g, n))]
  BY DEF remove_node
<1>2. to = g.name  BY DEF remove_node
<1> DEFINE f == Drop(g.nodes, n)
           K == DOMAIN g.edges \ EdgesAt(g, n)
           s == Retain(g.edges, K)
           g1 == [g EXCEPT !.nodes = f]
<1>3. IsMap(f, Nodes, NodeSpec) /\ DOMAIN f = DOMAIN g.nodes \ {n}
  <2>1. IsMap(g.nodes, Nodes, NodeSpec)  BY DEF IsGraph
  <2>. QED  BY <2>1, DropMap
<1>4. g.edges \in Seq(EdgeSpec) /\ K \subseteq DOMAIN g.edges  BY DEF IsGraph
<1>5. IsGraph(g1) /\ g1.nodes = f /\ g1.edges = g.edges
  <2> HIDE DEF f
  <2>. QED  BY <1>3, WithNodes
<1>6. h = [g1 EXCEPT !.edges = s]  BY <1>1, <1>5
<1>7. /\ s \in Seq(EdgeSpec) /\ Len(s) = Cardinality(K) /\ DOMAIN s = 1..Cardinality(K)
      /\ \A j \in 1..Cardinality(K) : Origin(K, j) \in K /\ s[j] = g.edges[Origin(K, j)]
      /\ \A j, i \in 1..Cardinality(K) : Origin(K, j) = Origin(K, i) => j = i
  <2> HIDE DEF K
  <2>. QED  BY <1>4, RetainSeq
<1>8. IsGraph(h) /\ h.nodes = f /\ h.edges = s
  <2> HIDE DEF g1, s
  <2>. QED  BY <1>5, <1>6, <1>7, WithEdges
<1> DEFINE m == [j \in Loose(h) |-> Origin(K, j)]
<1>9. ASSUME NEW j \in Loose(h) PROVE Origin(K, j) \in Loose(g)
  <2>1. j \in 1..Cardinality(K) /\ Origin(K, j) \in K /\ h.edges[j] = g.edges[Origin(K, j)]
    BY <1>7, <1>8 DEF Loose
  <2>2. PICK e \in {h.edges[j].src, h.edges[j].tgt} \ {NoNode} : e \notin DOMAIN f
    BY <1>8 DEF Loose, Anchored
  <2>3. e # n  BY <2>1, <2>2 DEF EdgesAt
  <2>4. e \notin DOMAIN g.nodes  BY <1>3, <2>2, <2>3
  <2>. QED  BY <2>1, <2>2, <2>4 DEF Loose, Anchored
<1>10. Loose(h) \subseteq 1..Cardinality(K)  BY <1>7, <1>8 DEF Loose
<1>11. Cardinality(Loose(h)) <= Cardinality(Loose(g))
  <2>1. m \in [Loose(h) -> Loose(g)]  BY <1>9
  <2>2. \A i, j \in Loose(h) : m[i] = m[j] => i = j  BY <1>7, <1>10
  <2> HIDE DEF m
  <2>. QED  BY <2>1, <2>2, LooseMoved
<1>. QED  BY <1>2, <1>8, <1>11 DEF EditKeeps

\* rename_node: the edges of the node move with it.
LEMMA RenameNodeKeeps ==
    ASSUME NEW g, IsGraph(g), NEW to, NEW h \in rename_node(g, to)
    PROVE  EditKeeps(g, to, h)
<1>1. PICK old \in DOMAIN g.nodes, new \in Nodes \ DOMAIN g.nodes :
         h = Renamed(g, old, new)
  BY DEF rename_node
<1>2. to = g.name  BY DEF rename_node
<1> DEFINE f == Rename(g.nodes, old, new)
           s == MoveEnds(g.edges, old, new)
           g1 == [g EXCEPT !.nodes = f]
<1>3. IsMap(f, Nodes, NodeSpec) /\ DOMAIN f = (DOMAIN g.nodes \ {old}) \cup {new}
  <2>1. IsMap(g.nodes, Nodes, NodeSpec)  BY DEF IsGraph
  <2>2. IsMap(f, Nodes, NodeSpec)  BY <2>1, RenameMap
  <2>3. DOMAIN f = (DOMAIN g.nodes \ {old}) \cup {new}  BY <2>1, RenameMap
  <2>. QED  BY <2>2, <2>3
<1>4. IsGraph(g1) /\ g1.nodes = f /\ g1.edges = g.edges
  <2> HIDE DEF f
  <2>. QED  BY <1>3, WithNodes
<1>5. h = [g1 EXCEPT !.edges = s]  BY <1>1, <1>4 DEF Renamed
<1>6. g.edges \in Seq(EdgeSpec) /\ Len(g.edges) \in Nat /\ DOMAIN g.edges = 1..Len(g.edges)
  BY DEF IsGraph
<1>7. ASSUME NEW i \in DOMAIN g.edges
      PROVE  /\ s[i] \in EdgeSpec
             /\ s[i].src = Moved(g.edges[i].src, old, new)
             /\ s[i].tgt = Moved(g.edges[i].tgt, old, new)
  <2>1. g.edges[i] \in EdgeSpec  BY <1>6
  <2>2. Moved(g.edges[i].src, old, new) \in Ids /\ Moved(g.edges[i].tgt, old, new) \in Nodes
    BY <2>1 DEF EdgeSpec, Ids, Moved
  <2>. QED  BY <2>1, <2>2 DEF EdgeSpec, MoveEnds
<1>8. s \in Seq(EdgeSpec) /\ DOMAIN s = DOMAIN g.edges
  <2>1. s = [i \in 1..Len(g.edges) |-> s[i]]  BY <1>6 DEF MoveEnds
  <2>2. \A i \in 1..Len(g.edges) : s[i] \in EdgeSpec  BY <1>6, <1>7
  <2> HIDE DEF s
  <2>3. s \in [1..Len(g.edges) -> EdgeSpec]  BY <2>1, <2>2
  <2>. QED  BY <2>3, <1>6
<1>9. IsGraph(h) /\ h.nodes = f /\ h.edges = s
  <2> HIDE DEF g1, s
  <2>. QED  BY <1>4, <1>5, <1>8, WithEdges
<1>10. Loose(h) \subseteq Loose(g)
  <2>1. NoNode \notin Nodes  BY GraphStoreAssumption
  <2>2. DOMAIN g.nodes \subseteq Nodes  BY DEF IsGraph, IsMap
  <2> HIDE DEF s, f
  <2>. QED  BY <1>3, <1>7, <1>8, <1>9, <2>1, <2>2 DEF Loose, Anchored, Moved
<1>11. Cardinality(Loose(h)) <= Cardinality(Loose(g))  BY <1>10, LooseSubset
<1>. QED  BY <1>2, <1>9, <1>11 DEF EditKeeps

\* change_node.
LEMMA ChangeNodeKeeps ==
    ASSUME NEW g, IsGraph(g), NEW to, NEW h \in change_node(g, to)
    PROVE  EditKeeps(g, to, h)
<1>1. PICK n \in DOMAIN g.nodes, x \in BOOLEAN :
         h = [g EXCEPT !.nodes = Put(@, n, Positioned(@[n], x))]
  BY DEF change_node
<1> DEFINE v == Positioned(g.nodes[n], x)
           f == Put(g.nodes, n, v)
<1>2. IsMap(g.nodes, Nodes, NodeSpec) /\ n \in Nodes /\ g.nodes[n] \in NodeSpec
  BY DEF IsGraph, IsMap
<1>3. v \in NodeSpec
  <2>1. (g.nodes[n].x \/ x) \in BOOLEAN  OBVIOUS
  <2>. QED  BY <1>2, <2>1 DEF NodeSpec, Positioned
<1>4. h = [g EXCEPT !.nodes = f]  BY <1>1
<1> HIDE DEF v
<1>5. IsMap(f, Nodes, NodeSpec)  BY <1>2, <1>3, PutMap
<1>6. DOMAIN f = DOMAIN g.nodes  BY DEF Put
<1> HIDE DEF f
<1>7. IsGraph(h) /\ h.nodes = f /\ h.edges = g.edges  BY <1>4, <1>5, WithNodes
<1>8. Cardinality(Loose(h)) <= Cardinality(Loose(g))  BY <1>6, <1>7, SameEnds
<1>. QED  BY <1>6, <1>7, <1>8 DEF EditKeeps

\* An appended edge makes the graph longer; nothing is said of its ends.
LEMMA AppendKeeps ==
    ASSUME NEW g, IsGraph(g), NEW to, NEW e \in EdgeSpec, NEW h,
           h = [g EXCEPT !.edges = Append(@, e)]
    PROVE  EditKeeps(g, to, h)
<1>1. g.edges \in Seq(EdgeSpec) /\ Len(g.edges) \in Nat  BY DEF IsGraph
<1> DEFINE s == Append(g.edges, e)
<1>2. s \in Seq(EdgeSpec) /\ Len(s) = Len(g.edges) + 1  BY <1>1
<1>3. h = [g EXCEPT !.edges = s]  OBVIOUS
<1> HIDE DEF s
<1>4. IsGraph(h) /\ h.nodes = g.nodes /\ h.edges = s
  <2>1. IsGraph(h)  BY <1>2, <1>3, WithEdges
  <2>2. h.nodes = g.nodes /\ h.edges = s  BY <1>3 DEF IsGraph
  <2>. QED  BY <2>1, <2>2
<1>. QED  BY <1>1, <1>2, <1>4 DEF EditKeeps

\* A removed edge leaves the others as they were.
LEMMA RemovalKeeps ==
    ASSUME NEW g, IsGraph(g), NEW to, NEW k \in DOMAIN g.edges, NEW h,
           h = [g EXCEPT !.edges = Without(@, k)]
    PROVE  EditKeeps(g, to, h)
<1>1. g.edges \in Seq(EdgeSpec) /\ Len(g.edges) \in Nat /\ DOMAIN g.edges = 1..Len(g.edges)
  BY DEF IsGraph
<1> DEFINE s == Without(g.edges, k)
<1>2. /\ s \in Seq(EdgeSpec) /\ DOMAIN s = 1..(Len(g.edges) - 1)
      /\ \A j \in 1..(Len(g.edges) - 1) : s[j] = IF j < k THEN g.edges[j] ELSE g.edges[j + 1]
  BY <1>1, WithoutSeq
<1>3. h = [g EXCEPT !.edges = s]  OBVIOUS
<1> HIDE DEF s
<1>4. IsGraph(h) /\ h.nodes = g.nodes /\ h.edges = s
  <2>1. IsGraph(h)  BY <1>2, <1>3, WithEdges
  <2>2. h.nodes = g.nodes /\ h.edges = s  BY <1>3 DEF IsGraph
  <2>. QED  BY <2>1, <2>2
<1> DEFINE m == [j \in Loose(h) |-> IF j < k THEN j ELSE j + 1]
<1>5. Loose(h) \subseteq 1..(Len(g.edges) - 1)  BY <1>2, <1>4 DEF Loose
<1>6. ASSUME NEW j \in Loose(h) PROVE (IF j < k THEN j ELSE j + 1) \in Loose(g)
  <2>1. j \in 1..(Len(g.edges) - 1)  BY <1>5
  <2>2. (IF j < k THEN j ELSE j + 1) \in DOMAIN g.edges  BY <1>1, <2>1
  <2>3. h.edges[j] = g.edges[IF j < k THEN j ELSE j + 1]  BY <1>2, <1>4, <2>1
  <2>. QED  BY <1>4, <2>2, <2>3 DEF Loose, Anchored
<1>7. m \in [Loose(h) -> Loose(g)]  BY <1>6
<1>8. \A i, j \in Loose(h) : m[i] = m[j] => i = j
  <2>1. k \in Nat  BY <1>1
  <2>. QED  BY <1>5, <2>1
<1>9. Cardinality(Loose(h)) <= Cardinality(Loose(g))
  <2> HIDE DEF m
  <2>. QED  BY <1>7, <1>8, LooseMoved
<1>. QED  BY <1>4, <1>9 DEF EditKeeps

\* add_edge.
LEMMA AddEdgeKeeps ==
    ASSUME NEW g, IsGraph(g), NEW to, NEW h \in add_edge(g, to)
    PROVE  EditKeeps(g, to, h)
<1>1. PICK s \in Nodes, t \in Nodes : h = [g EXCEPT !.edges = Append(@, Edge(s, t))]
  BY DEF add_edge
<1>2. Edge(s, t) \in EdgeSpec  BY DEF Edge, EdgeSpec, Ids
<1>. QED  BY <1>1, <1>2, AppendKeeps

\* add_initialip.
LEMMA AddInitialKeeps ==
    ASSUME NEW g, IsGraph(g), NEW to, NEW h \in add_initialip(g)
    PROVE  EditKeeps(g, to, h)
<1>1. PICK d \in Data \cup {NoData}, t \in Nodes : h = [g EXCEPT !.edges = Append(@, Iip(d, t))]
  BY DEF add_initialip
<1>2. Iip(d, t) \in EdgeSpec  BY DEF Iip, EdgeSpec, Ids
<1>. QED  BY <1>1, <1>2, AppendKeeps

\* remove_edge.
LEMMA RemoveEdgeKeeps ==
    ASSUME NEW g, IsGraph(g), NEW to, NEW h \in remove_edge(g, to)
    PROVE  EditKeeps(g, to, h)
<1>1. PICK s \in Nodes, t \in Nodes :
         h \in {[g EXCEPT !.edges = Without(@, i)] : i \in First(EdgesBetween(g, s, t))}
  BY DEF remove_edge
<1>2. PICK k \in First(EdgesBetween(g, s, t)) : h = [g EXCEPT !.edges = Without(@, k)]  BY <1>1
<1>3. k \in DOMAIN g.edges  BY DEF First, EdgesBetween
<1>. QED  BY <1>2, <1>3, RemovalKeeps

\* remove_initialip.
LEMMA RemoveInitialKeeps ==
    ASSUME NEW g, IsGraph(g), NEW to, NEW h \in remove_initialip(g)
    PROVE  EditKeeps(g, to, h)
<1>1. PICK ds \in AskedData, t \in Nodes :
         h \in {[g EXCEPT !.edges = Without(@, i)] :
                   i \in First({j \in IipsTo(g, t) : g.edges[j].data \in ds})}
  BY DEF remove_initialip
<1>2. PICK k \in First({j \in IipsTo(g, t) : g.edges[j].data \in ds}) :
         h = [g EXCEPT !.edges = Without(@, k)]
  BY <1>1
<1>3. k \in DOMAIN g.edges  BY DEF First, IipsTo
<1>. QED  BY <1>2, <1>3, RemovalKeeps

\* change_edge.
LEMMA ChangeEdgeKeeps ==
    ASSUME NEW g, IsGraph(g), NEW to, NEW h \in change_edge(g, to)
    PROVE  EditKeeps(g, to, h)
<1>1. PICK s \in Nodes, t \in Nodes :
         h \in {[g EXCEPT !.edges[i].meta = TRUE] : i \in First(EdgesBetween(g, s, t))}
  BY DEF change_edge
<1>2. PICK k \in First(EdgesBetween(g, s, t)) : h = [g EXCEPT !.edges[k].meta = TRUE]  BY <1>1
<1>3. k \in DOMAIN g.edges  BY DEF First, EdgesBetween
<1> DEFINE q == [g.edges EXCEPT ![k].meta = TRUE]
<1>4. h = [g EXCEPT !.edges = q]  BY <1>2
<1>5. g.edges \in Seq(EdgeSpec)  BY DEF IsGraph
<1>6. /\ q \in Seq(EdgeSpec) /\ DOMAIN q = DOMAIN g.edges
      /\ \A i \in DOMAIN g.edges : q[i].src = g.edges[i].src /\ q[i].tgt = g.edges[i].tgt
  <2>1. g.edges[k] \in EdgeSpec  BY <1>3, <1>5
  <2>2. [g.edges[k] EXCEPT !.meta = TRUE] \in EdgeSpec  BY <2>1 DEF EdgeSpec
  <2>. QED  BY <1>3, <1>5, <2>1, <2>2 DEF EdgeSpec
<1> HIDE DEF q
<1>7. IsGraph(h) /\ h.nodes = g.nodes /\ h.edges = q  BY <1>4, <1>6, WithEdges
<1>8. Cardinality(Loose(h)) <= Cardinality(Loose(g))  BY <1>6, <1>7, SameEnds
<1>. QED  BY <1>7, <1>8 DEF EditKeeps

\* The exported ports keep their type.
LEMMA PortsKeep ==
    ASSUME NEW ports, IsMap(ports, Public, Nodes),
           NEW f, f \in add_port(ports) \/ f \in remove_port(ports) \/ f \in rename_port(ports)
    PROVE  IsMap(f, Public, Nodes)
<1>1. CASE f \in add_port(ports)
  <2>1. PICK p \in Public \ DOMAIN ports, n \in Nodes : f = Put(ports, p, n)
    BY <1>1 DEF add_port
  <2>. QED  BY <2>1, PutMap
<1>2. CASE f \in remove_port(ports)
  <2>1. PICK p \in DOMAIN ports : f = Drop(ports, p)  BY <1>2 DEF remove_port
  <2>. QED  BY <2>1, DropMap
<1>3. CASE f \in rename_port(ports)
  <2>1. PICK old \in DOMAIN ports, new \in Public \ DOMAIN ports : f = Rename(ports, old, new)
    BY <1>3 DEF rename_port
  <2>. QED  BY <2>1, RenameMap
<1>. QED  BY <1>1, <1>2, <1>3

\* The groups keep their type, and their edits leave nodes and edges alone.
LEMMA GroupsKeep ==
    ASSUME NEW g, IsGraph(g), NEW to,
           NEW h, \/ h \in add_group(g, to) \/ h \in remove_group(g, to)
                  \/ h \in rename_group(g, to) \/ h \in change_group(g, to)
    PROVE  EditKeeps(g, to, h)
<1>1. g.groups \in Seq(GroupSpec) /\ \A i \in DOMAIN g.groups : g.groups[i] \in GroupSpec
  BY DEF IsGraph
<1>2. SUFFICES \E s \in Seq(GroupSpec) : h = [g EXCEPT !.groups = s]
  <2>1. PICK s \in Seq(GroupSpec) : h = [g EXCEPT !.groups = s]  BY <1>2
  <2>2. IsGraph(h)  BY <2>1, WithGroups
  <2>3. h.nodes = g.nodes /\ h.edges = g.edges  BY <2>1, WithGroups
  <2>. QED  BY <2>2, <2>3, KeepsElsewhere
<1>3. CASE h \in add_group(g, to)
  <2>1. PICK new \in [name : Group, nodes : SUBSET Nodes, meta : {FALSE}] :
           h = [g EXCEPT !.groups = Append(@, new)]
    BY <1>3 DEF add_group
  <2>2. new \in GroupSpec  BY DEF GroupSpec
  <2>3. Append(g.groups, new) \in Seq(GroupSpec)  BY <1>1, <2>2
  <2>. QED  BY <2>1, <2>3
<1>4. CASE h \in remove_group(g, to)
  <2>1. PICK n \in Group :
           h \in {[g EXCEPT !.groups = Without(@, i)] : i \in First(GroupsNamed(g, n))}
    BY <1>4 DEF remove_group
  <2>2. PICK i \in First(GroupsNamed(g, n)) : h = [g EXCEPT !.groups = Without(@, i)]  BY <2>1
  <2>3. i \in DOMAIN g.groups  BY DEF First, GroupsNamed
  <2>4. Without(g.groups, i) \in Seq(GroupSpec)  BY <1>1, <2>3, WithoutSeq
  <2>. QED  BY <2>2, <2>4
<1>5. CASE h \in rename_group(g, to)
  <2>1. PICK old \in Group, new \in Group :
           h \in {[g EXCEPT !.groups[i].name = new] : i \in First(GroupsNamed(g, old))}
    BY <1>5 DEF rename_group
  <2>2. PICK i \in First(GroupsNamed(g, old)) : h = [g EXCEPT !.groups[i].name = new]  BY <2>1
  <2>3. i \in DOMAIN g.groups  BY DEF First, GroupsNamed
  <2>4. [g.groups[i] EXCEPT !.name = new] \in GroupSpec  BY <1>1, <2>3 DEF GroupSpec
  <2>5. [g.groups EXCEPT ![i] = [@ EXCEPT !.name = new]] \in Seq(GroupSpec)  BY <1>1, <2>3, <2>4
  <2>. QED  BY <2>2, <2>5
<1>6. CASE h \in change_group(g, to)
  <2>1. PICK n \in Group :
           h \in {[g EXCEPT !.groups[i].meta = TRUE] : i \in First(GroupsNamed(g, n))}
    BY <1>6 DEF change_group
  <2>2. PICK i \in First(GroupsNamed(g, n)) : h = [g EXCEPT !.groups[i].meta = TRUE]  BY <2>1
  <2>3. i \in DOMAIN g.groups  BY DEF First, GroupsNamed
  <2>4. [g.groups[i] EXCEPT !.meta = TRUE] \in GroupSpec  BY <1>1, <2>3 DEF GroupSpec
  <2>5. [g.groups EXCEPT ![i] = [@ EXCEPT !.meta = TRUE]] \in Seq(GroupSpec)  BY <1>1, <2>3, <2>4
  <2>. QED  BY <2>2, <2>5
<1>. QED  BY <1>3, <1>4, <1>5, <1>6

\* What a handler that edits a graph does, whichever edit it is.
EditStep(c) ==
    \E h : /\ EditKeeps(Target(c), pc[c].to, h)
           /\ pc[c].at = "found" /\ CanWriteGraph(pc[c].obj) /\ Room
           /\ store' = [store EXCEPT ![pc[c].obj] = h]
           /\ pc' = [pc EXCEPT ![c] = Idle]
           /\ edits' = edits + 1
           /\ UNCHANGED <<graphs, fallback, graph, running, tracing, wedged, file,
                          edit_waits, up>>

\* One handler of an edit.
LEMMA EditIsStep ==
    ASSUME NEW c, NEW results, Edit(c, results),
           \A h \in results : EditKeeps(Target(c), pc[c].to, h)
    PROVE  EditStep(c)
BY DEF Edit, EditStep

\* All of them: every edit of a well-formed graph keeps what it should.
LEMMA EditsAreSteps ==
    ASSUME TypeOK, NEW c \in Clients, EditGraph(c)
    PROVE  EditStep(c)
<1> DEFINE g == Target(c)
           to == pc[c].to
<1>1. pc[c].at = "found"
  BY DEF EditGraph, Edit, AddNode, RemoveNode, RenameNode, ChangeNode, AddEdge, RemoveEdge,
         ChangeEdge, AddInitial, RemoveInitial, AddInport, RemoveInport, RenameInport,
         AddOutport, RemoveOutport, RenameOutport, AddGroup, RemoveGroup, RenameGroup,
         ChangeGroup
<1>2. IsGraph(g)
  <2>1. IsState(pc[c])  BY DEF TypeOK
  <2>2. pc[c].obj \in Names  BY <1>1, <2>1 DEF IsState, Idle
  <2>. QED  BY <2>2 DEF TypeOK, Target
<1>3. IsMap(g.inports, Public, Nodes) /\ IsMap(g.outports, Public, Nodes)  BY <1>2 DEF IsGraph
<1>4. \A f : IsMap(f, Public, Nodes) => EditKeeps(g, to, [g EXCEPT !.inports = f])
  <2> SUFFICES ASSUME NEW f, IsMap(f, Public, Nodes), NEW h, h = [g EXCEPT !.inports = f]
               PROVE  EditKeeps(g, to, h)
    OBVIOUS
  <2> HIDE DEF g, to
  <2>1. IsGraph(h)  BY <1>2, WithInports
  <2>2. h.nodes = g.nodes /\ h.edges = g.edges  BY <1>2, WithInports
  <2>. QED  BY <1>2, <2>1, <2>2, KeepsElsewhere
<1>5. \A f : IsMap(f, Public, Nodes) => EditKeeps(g, to, [g EXCEPT !.outports = f])
  <2> SUFFICES ASSUME NEW f, IsMap(f, Public, Nodes), NEW h, h = [g EXCEPT !.outports = f]
               PROVE  EditKeeps(g, to, h)
    OBVIOUS
  <2> HIDE DEF g, to
  <2>1. IsGraph(h)  BY <1>2, WithOutports
  <2>2. h.nodes = g.nodes /\ h.edges = g.edges  BY <1>2, WithOutports
  <2>. QED  BY <1>2, <2>1, <2>2, KeepsElsewhere
<1>6. CASE AddNode(c)
  <2>1. \A h \in add_node(g, to) : EditKeeps(g, to, h)  BY <1>2, AddNodeKeeps
  <2>. QED  BY <1>6, <2>1, EditIsStep DEF AddNode
<1>7. CASE RemoveNode(c)
  <2>1. \A h \in remove_node(g, to) : EditKeeps(g, to, h)  BY <1>2, RemoveNodeKeeps
  <2>. QED  BY <1>7, <2>1, EditIsStep DEF RemoveNode
<1>8. CASE RenameNode(c)
  <2>1. \A h \in rename_node(g, to) : EditKeeps(g, to, h)  BY <1>2, RenameNodeKeeps
  <2>. QED  BY <1>8, <2>1, EditIsStep DEF RenameNode
<1>9. CASE ChangeNode(c)
  <2>1. \A h \in change_node(g, to) : EditKeeps(g, to, h)  BY <1>2, ChangeNodeKeeps
  <2>. QED  BY <1>9, <2>1, EditIsStep DEF ChangeNode
<1>10. CASE AddEdge(c)
  <2>1. \A h \in add_edge(g, to) : EditKeeps(g, to, h)  BY <1>2, AddEdgeKeeps
  <2>. QED  BY <1>10, <2>1, EditIsStep DEF AddEdge
<1>11. CASE RemoveEdge(c)
  <2>1. \A h \in remove_edge(g, to) : EditKeeps(g, to, h)  BY <1>2, RemoveEdgeKeeps
  <2>. QED  BY <1>11, <2>1, EditIsStep DEF RemoveEdge
<1>12. CASE ChangeEdge(c)
  <2>1. \A h \in change_edge(g, to) : EditKeeps(g, to, h)  BY <1>2, ChangeEdgeKeeps
  <2>. QED  BY <1>12, <2>1, EditIsStep DEF ChangeEdge
<1>13. CASE AddInitial(c)
  <2>1. \A h \in add_initialip(g) : EditKeeps(g, to, h)  BY <1>2, AddInitialKeeps
  <2>. QED  BY <1>13, <2>1, EditIsStep DEF AddInitial
<1>14. CASE RemoveInitial(c)
  <2>1. \A h \in remove_initialip(g) : EditKeeps(g, to, h)  BY <1>2, RemoveInitialKeeps
  <2>. QED  BY <1>14, <2>1, EditIsStep DEF RemoveInitial
<1>15. CASE AddInport(c)
  <2>1. \A f \in add_port(g.inports) : IsMap(f, Public, Nodes)  BY <1>3, PortsKeep
  <2>2. \A h \in {[g EXCEPT !.inports = f] : f \in add_port(g.inports)} : EditKeeps(g, to, h)
    BY <1>4, <2>1
  <2>. QED  BY <1>15, <2>2, EditIsStep DEF AddInport
<1>16. CASE RemoveInport(c)
  <2>1. \A f \in remove_port(g.inports) : IsMap(f, Public, Nodes)  BY <1>3, PortsKeep
  <2>2. \A h \in {[g EXCEPT !.inports = f] : f \in remove_port(g.inports)} : EditKeeps(g, to, h)
    BY <1>4, <2>1
  <2>. QED  BY <1>16, <2>2, EditIsStep DEF RemoveInport
<1>17. CASE RenameInport(c)
  <2>1. \A f \in rename_port(g.inports) : IsMap(f, Public, Nodes)  BY <1>3, PortsKeep
  <2>2. \A h \in {[g EXCEPT !.inports = f] : f \in rename_port(g.inports)} : EditKeeps(g, to, h)
    BY <1>4, <2>1
  <2>. QED  BY <1>17, <2>2, EditIsStep DEF RenameInport
<1>18. CASE AddOutport(c)
  <2>1. \A f \in add_port(g.outports) : IsMap(f, Public, Nodes)  BY <1>3, PortsKeep
  <2>2. \A h \in {[g EXCEPT !.outports = f] : f \in add_port(g.outports)} : EditKeeps(g, to, h)
    BY <1>5, <2>1
  <2>. QED  BY <1>18, <2>2, EditIsStep DEF AddOutport
<1>19. CASE RemoveOutport(c)
  <2>1. \A f \in remove_port(g.outports) : IsMap(f, Public, Nodes)  BY <1>3, PortsKeep
  <2>2. \A h \in {[g EXCEPT !.outports = f] : f \in remove_port(g.outports)} : EditKeeps(g, to, h)
    BY <1>5, <2>1
  <2>. QED  BY <1>19, <2>2, EditIsStep DEF RemoveOutport
<1>20. CASE RenameOutport(c)
  <2>1. \A f \in rename_port(g.outports) : IsMap(f, Public, Nodes)  BY <1>3, PortsKeep
  <2>2. \A h \in {[g EXCEPT !.outports = f] : f \in rename_port(g.outports)} : EditKeeps(g, to, h)
    BY <1>5, <2>1
  <2>. QED  BY <1>20, <2>2, EditIsStep DEF RenameOutport
<1>21. CASE AddGroup(c)
  <2>1. \A h \in add_group(g, to) : EditKeeps(g, to, h)  BY <1>2, GroupsKeep
  <2>. QED  BY <1>21, <2>1, EditIsStep DEF AddGroup
<1>22. CASE RemoveGroup(c)
  <2>1. \A h \in remove_group(g, to) : EditKeeps(g, to, h)  BY <1>2, GroupsKeep
  <2>. QED  BY <1>22, <2>1, EditIsStep DEF RemoveGroup
<1>23. CASE RenameGroup(c)
  <2>1. \A h \in rename_group(g, to) : EditKeeps(g, to, h)  BY <1>2, GroupsKeep
  <2>. QED  BY <1>23, <2>1, EditIsStep DEF RenameGroup
<1>24. CASE ChangeGroup(c)
  <2>1. \A h \in change_group(g, to) : EditKeeps(g, to, h)  BY <1>2, GroupsKeep
  <2>. QED  BY <1>24, <2>1, EditIsStep DEF ChangeGroup
<1>. QED
  BY <1>6, <1>7, <1>8, <1>9, <1>10, <1>11, <1>12, <1>13, <1>14, <1>15, <1>16, <1>17, <1>18,
     <1>19, <1>20, <1>21, <1>22, <1>23, <1>24 DEF EditGraph

-----------------------------------------------------------------------------
(* The inductive invariant.  FallbackReachable makes the registry that a   *)
(* save encodes non-empty, so that it finds an active graph in it;        *)
(* SavesStartable carries that from the snapshot of a save to its write,   *)
(* SavesCurrent the snapshot itself, which the locks protect.              *)

SavesStartable ==
    \A c \in Clients \cup {Main} :
        pc[c].at = "saving" => pc[c].set.active \in DOMAIN pc[c].set.graphs

SavesCurrent ==
    up => \A c \in Clients \cup {Main} : pc[c].at = "saving" =>
        \A k \in DOMAIN pc[c].set.graphs \cap DOMAIN graphs :
            graphs[k] = fallback => pc[c].set.graphs[k] = Serialized(store[fallback])

GraphStoreInv ==
    TypeOK /\ FallbackReachable /\ SavedActiveExists /\ SavesStartable /\ SavesCurrent

\* What is saved of a graph is a graph.
LEMMA SerializedGraph == ASSUME NEW g, IsGraph(g) PROVE IsGraph(Serialized(g))
<1> DEFINE f == [n \in DOMAIN g.nodes |-> [g.nodes[n] EXCEPT !.px = FALSE]]
<1>1. IsMap(g.nodes, Nodes, NodeSpec) /\ DOMAIN f = DOMAIN g.nodes  BY DEF IsGraph
<1>2. \A n \in DOMAIN g.nodes : [g.nodes[n] EXCEPT !.px = FALSE] \in NodeSpec
  BY <1>1 DEF IsMap, NodeSpec
<1>3. IsMap(f, Nodes, NodeSpec)  BY <1>1, <1>2 DEF IsMap
<1>4. Serialized(g) = [g EXCEPT !.nodes = f]  BY DEF Serialized
<1> HIDE DEF f
<1>. QED  BY <1>3, <1>4, WithNodes

\* The snapshot of a save is a set of graphs that can be started from, and
\* holds each registered graph as it is.
LEMMA Snapshot ==
    ASSUME TypeOK, FallbackReachable, up, NEW set \in GraphSets
    PROVE  /\ IsGraphSet(set) /\ set.active \in DOMAIN set.graphs
           /\ DOMAIN set.graphs = DOMAIN graphs
           /\ \A k \in DOMAIN graphs : set.graphs[k] = Serialized(store[graphs[k]])
<1> DEFINE saved == [k \in DOMAIN graphs |-> Serialized(store[graphs[k]])]
<1>1. DOMAIN saved = DOMAIN graphs /\ DOMAIN graphs \subseteq Names  BY DEF TypeOK, IsMap
<1>2. DOMAIN graphs # {}  BY DEF FallbackReachable
<1>3. SavedGraphs = saved  BY <1>2 DEF SavedGraphs
<1>4. \A k \in DOMAIN graphs : IsGraph(saved[k])
  <2> SUFFICES ASSUME NEW k \in DOMAIN graphs PROVE IsGraph(Serialized(store[graphs[k]]))
    OBVIOUS
  <2>1. IsGraph(store[graphs[k]])  BY DEF TypeOK, IsMap
  <2>. QED  BY <2>1, SerializedGraph
<1>5. saved = [k \in DOMAIN saved |-> saved[k]]  OBVIOUS
<1>6. \A k \in DOMAIN graphs : saved[k] = Serialized(store[graphs[k]])  OBVIOUS
<1> HIDE DEF saved
<1>7. PICK active \in ActiveKeys(saved, graph) :
         set = [kind |-> "whole", graphs |-> saved, active |-> active]
  BY <1>3 DEF GraphSets
<1>8. active \in DOMAIN saved  BY DEF ActiveKeys
<1>. QED  BY <1>1, <1>4, <1>5, <1>6, <1>7, <1>8 DEF IsGraphSet

\* The default graph is a graph.
LEMMA DefaultGraph == IsGraph(create_default_graph)
<1> DEFINE f == [n \in {Chain[1], Chain[2]} |-> [component |-> Repeat, x |-> TRUE, px |-> TRUE]]
           s == <<Edge(Chain[1], Chain[2])>>
           i == Put(NoFun, GraphIn, Chain[1])
           o == Put(NoFun, GraphOut, Chain[2])
<1>1. Chain[1] \in Nodes /\ Chain[2] \in Nodes /\ Repeat \in Component  BY GraphStoreAssumption
<1>2. IsMap(f, Nodes, NodeSpec)  BY <1>1 DEF IsMap, NodeSpec
<1>3. IsMap(i, Public, Nodes) /\ IsMap(o, Public, Nodes)
  <2>1. IsMap(NoFun, Public, Nodes)  BY EmptyMap
  <2>2. IsMap(i, Public, Nodes)  BY <1>1, <2>1, GraphStoreAssumption, PutMap
  <2>3. IsMap(o, Public, Nodes)  BY <1>1, <2>1, GraphStoreAssumption, PutMap
  <2>. QED  BY <2>2, <2>3
<1>4. s \in Seq(EdgeSpec)
  <2>1. Edge(Chain[1], Chain[2]) \in EdgeSpec  BY <1>1 DEF Edge, EdgeSpec, Ids
  <2>. QED  BY <2>1
<1>5. IsGraph(Graph_new(MainGraph))  BY GraphStoreAssumption, NewGraph
<1> DEFINE g1 == [Graph_new(MainGraph) EXCEPT !.nodes = f]
           g2 == [g1 EXCEPT !.edges = s]
           g3 == [g2 EXCEPT !.inports = i]
           g4 == [g3 EXCEPT !.outports = o]
<1>6. create_default_graph = g4  BY DEF create_default_graph
<1> HIDE DEF f, s, i, o
<1>7. IsGraph(g1)  BY <1>2, <1>5, WithNodes
<1> HIDE DEF g1
<1>8. IsGraph(g2)  BY <1>4, <1>7, WithEdges
<1> HIDE DEF g2
<1>9. IsGraph(g3)  BY <1>3, <1>8, WithInports
<1> HIDE DEF g3
<1>10. IsGraph(g4)  BY <1>3, <1>9, WithOutports
<1>. QED  BY <1>6, <1>10

\* A process that starts from a set of graphs has a well-formed registry
\* in which the graph it gives to the server is found.
LEMMA BootsWell ==
    ASSUME TypeOK, NEW saved, NEW active \in DOMAIN saved, DOMAIN saved \subseteq Names,
           \A k \in DOMAIN saved : IsGraph(saved[k]),
           Booted(saved, active), UNCHANGED <<file, edits>>
    PROVE  TypeOK' /\ FallbackReachable' /\ SavesStartable' /\ SavesCurrent'
<1> DEFINE all == IF MainGraph \in DOMAIN saved THEN saved
                  ELSE Put(saved, MainGraph, Graph_new(MainGraph))
<1>1. MainGraph \in Names /\ \A k \in Names : IsGraph(Graph_new(k))
  BY GraphStoreAssumption, NewGraph
<1>2. DOMAIN all = DOMAIN saved \cup {MainGraph}  BY DEF Put
<1>3. \A k \in DOMAIN all : IsGraph(all[k])  BY <1>1 DEF Put
<1>4. /\ store' = [k \in Names |-> IF k \in DOMAIN all THEN all[k] ELSE Graph_new(k)]
      /\ graphs' = [k \in DOMAIN all |-> k]
      /\ fallback' = active /\ graph' = active
      /\ running' = FALSE /\ tracing' = FALSE /\ wedged' = "no" /\ up' = TRUE
      /\ pc' = [c \in Clients \cup {Main} |-> Idle] /\ edit_waits' = FALSE
      /\ file' = file /\ edits' = edits
  BY DEF Booted
<1> HIDE DEF all
<1>5. store' = [k \in Names |-> store'[k]] /\ \A k \in Names : IsGraph(store'[k])
  BY <1>1, <1>3, <1>4
<1>6. IsMap(graphs', Names, Names) /\ active \in DOMAIN graphs' /\ graphs'[active] = active
  BY <1>1, <1>2, <1>4 DEF IsMap
<1>7. /\ pc' = [c \in Clients \cup {Main} |-> pc'[c]]
      /\ \A c \in Clients \cup {Main} : pc'[c] = Idle /\ IsState(pc'[c])
  BY <1>4 DEF IsState
<1>8. TypeOK'  BY <1>4, <1>5, <1>6, <1>7 DEF TypeOK
<1>9. FallbackReachable'  BY <1>4, <1>6 DEF FallbackReachable
<1>10. \A c \in Clients \cup {Main} : pc'[c].at # "saving"  BY <1>7 DEF Idle
<1>. QED  BY <1>8, <1>9, <1>10 DEF SavesStartable, SavesCurrent

\* One handler moves, the others stay where they are.
LEMMA HandlerMoves ==
    ASSUME TypeOK, NEW c \in Clients \cup {Main}, NEW v, IsState(v), pc' = [pc EXCEPT ![c] = v]
    PROVE  /\ pc' = [d \in Clients \cup {Main} |-> pc'[d]]
           /\ \A d \in Clients \cup {Main} : IsState(pc'[d])
           /\ \A d \in Clients \cup {Main} : pc'[d] = IF d = c THEN v ELSE pc[d]
<1>1. pc = [d \in Clients \cup {Main} |-> pc[d]] /\ \A d \in Clients \cup {Main} : IsState(pc[d])
  BY DEF TypeOK
<1>2. pc' = [d \in Clients \cup {Main} |-> IF d = c THEN v ELSE pc[d]]  BY <1>1
<1>. QED  BY <1>1, <1>2

\* The states a handler moves to are states of a handler.
LEMMA HandlerStates ==
    /\ IsState(Idle) /\ Idle.at = "idle"
    /\ \A n, o \in Names : IsState([at |-> "found", to |-> n, obj |-> o])
    /\ \A o \in Names : IsState([at |-> "hung", obj |-> o])
    /\ IsState([at |-> "locked"])
    /\ \A f : IsGraphSet(f) => IsState([at |-> "saving", set |-> f])
BY DEF IsState, Idle

\* A step that moves one handler, to a state in which it does not save, and
\* leaves graphs, registry and file alone keeps the invariant.
LEMMA QuietMove ==
    ASSUME GraphStoreInv, NEW c \in Clients \cup {Main}, NEW v, IsState(v), v.at # "saving",
           pc' = [pc EXCEPT ![c] = v],
           UNCHANGED <<store, graphs, fallback, file, edit_waits, up>>, edits' \in 0..MaxEdits,
           graph' \in Names, running' \in BOOLEAN, tracing' \in BOOLEAN,
           wedged' \in {"no", "poisoned", "held"}
    PROVE  GraphStoreInv'
<1>1. /\ pc' = [d \in Clients \cup {Main} |-> pc'[d]]
      /\ \A d \in Clients \cup {Main} : IsState(pc'[d])
      /\ \A d \in Clients \cup {Main} : pc'[d] = IF d = c THEN v ELSE pc[d]
  BY HandlerMoves DEF GraphStoreInv
<1>2. TypeOK'  BY <1>1 DEF GraphStoreInv, TypeOK
<1>3. FallbackReachable' /\ SavedActiveExists'
  BY DEF GraphStoreInv, FallbackReachable, SavedActiveExists
<1>4. SavesStartable'  BY <1>1 DEF GraphStoreInv, SavesStartable
<1>5. SavesCurrent'  BY <1>1 DEF GraphStoreInv, SavesCurrent
<1>. QED  BY <1>2, <1>3, <1>4, <1>5 DEF GraphStoreInv

\* So does a step that moves no handler; it may end the process.
LEMMA QuietStay ==
    ASSUME GraphStoreInv, UNCHANGED <<store, graphs, fallback, graph, file, pc, edits>>,
           edit_waits' \in BOOLEAN,
           up' \in BOOLEAN, up' => up, running' \in BOOLEAN, tracing' \in BOOLEAN,
           wedged' \in {"no", "poisoned", "held"}
    PROVE  GraphStoreInv'
<1>1. TypeOK'  BY DEF GraphStoreInv, TypeOK
<1>2. FallbackReachable' /\ SavedActiveExists' /\ SavesStartable'
  BY DEF GraphStoreInv, FallbackReachable, SavedActiveExists, SavesStartable
<1>3. SavesCurrent'  BY DEF GraphStoreInv, SavesCurrent
<1>. QED  BY <1>1, <1>2, <1>3 DEF GraphStoreInv

\* An edit keeps the invariant: the lock of the fallback graph keeps it from
\* changing under a save.
LEMMA EditKeepsInv ==
    ASSUME GraphStoreInv, NEW c \in Clients, EditStep(c)
    PROVE  GraphStoreInv'
<1>1. PICK h : /\ EditKeeps(Target(c), pc[c].to, h)
               /\ pc[c].at = "found" /\ CanWriteGraph(pc[c].obj) /\ Room
               /\ store' = [store EXCEPT ![pc[c].obj] = h]
               /\ pc' = [pc EXCEPT ![c] = Idle]
               /\ edits' = edits + 1
               /\ UNCHANGED <<graphs, fallback, graph, running, tracing, wedged, file,
                              edit_waits, up>>
  BY DEF EditStep
<1>2. pc[c].obj \in Names
  <2>1. IsState(pc[c])  BY DEF GraphStoreInv, TypeOK
  <2>. QED  BY <1>1, <2>1 DEF IsState, Idle
<1>3. IsState(Idle) /\ Idle.at = "idle"  BY HandlerStates
<1>4. /\ pc' = [d \in Clients \cup {Main} |-> pc'[d]]
      /\ \A d \in Clients \cup {Main} : IsState(pc'[d])
      /\ \A d \in Clients \cup {Main} : pc'[d] = IF d = c THEN Idle ELSE pc[d]
  BY <1>1, <1>3, HandlerMoves DEF GraphStoreInv
<1>5. store = [o \in Names |-> store[o]] /\ \A o \in Names : IsGraph(store[o])
  BY DEF GraphStoreInv, TypeOK
<1>6. store' = [o \in Names |-> IF o = pc[c].obj THEN h ELSE store[o]]  BY <1>1, <1>2, <1>5
<1>7. IsGraph(h)  BY <1>1 DEF EditKeeps
<1>8. edits' \in 0..MaxEdits
  BY <1>1, GraphStoreAssumption DEF Room, GraphStoreInv, TypeOK
<1>9. TypeOK'
  <2>1. store' = [o \in Names |-> store'[o]] /\ \A o \in Names : IsGraph(store'[o])
    BY <1>5, <1>6, <1>7
  <2>. QED  BY <1>1, <1>4, <1>8, <2>1 DEF GraphStoreInv, TypeOK
<1>10. FallbackReachable' /\ SavedActiveExists'
  BY <1>1 DEF GraphStoreInv, FallbackReachable, SavedActiveExists
<1>11. SavesStartable'  BY <1>3, <1>4 DEF GraphStoreInv, SavesStartable
<1>12. SavesCurrent'
  <2>1. CASE pc[c].obj = fallback
    <3>1. \A d \in Clients \cup {Main} : pc[d].at # "saving"
      BY <1>1, <2>1 DEF CanWriteGraph, Saving
    <3>. QED  BY <1>3, <1>4, <3>1 DEF SavesCurrent
  <2>2. CASE pc[c].obj # fallback
    <3>1. store'[fallback] = store[fallback]  BY <1>6, <2>2 DEF GraphStoreInv, TypeOK
    <3>. QED  BY <1>1, <1>3, <1>4, <3>1 DEF GraphStoreInv, SavesCurrent
  <2>. QED  BY <2>1, <2>2
<1>. QED  BY <1>9, <1>10, <1>11, <1>12 DEF GraphStoreInv

\* graph:clear keeps it: it files the fallback graph under its new name.
LEMMA ClearKeepsInv ==
    ASSUME GraphStoreInv, NEW c \in Clients, NEW name \in Names, Clear(c, name)
    PROVE  GraphStoreInv'
<1> DEFINE rest == IF graph # name THEN Drop(graphs, graph) ELSE graphs
<1>1. /\ store' = [store EXCEPT ![fallback] = Graph_new(name)]
      /\ graphs' = Put(rest, name, fallback) /\ graph' = name /\ edits' = edits + 1
      /\ UNCHANGED <<fallback, running, tracing, wedged, file, pc, edit_waits, up>>
      /\ Saving = {} /\ Room
  BY DEF Clear, clear, CanWriteRuntime
<1>2. fallback \in Names /\ IsMap(graphs, Names, Names)  BY DEF GraphStoreInv, TypeOK
<1>3. IsMap(rest, Names, Names)  BY <1>2, DropMap
<1> HIDE DEF rest
<1>4. IsMap(graphs', Names, Names)  BY <1>1, <1>2, <1>3, PutMap
<1>5. name \in DOMAIN graphs' /\ graphs'[name] = fallback  BY <1>1 DEF Put
<1>6. store = [o \in Names |-> store[o]] /\ \A o \in Names : IsGraph(store[o])
  BY DEF GraphStoreInv, TypeOK
<1>7. IsGraph(Graph_new(name))  BY NewGraph
<1>8. store' = [o \in Names |-> IF o = fallback THEN Graph_new(name) ELSE store[o]]
  BY <1>1, <1>2, <1>6
<1>9. edits' \in 0..MaxEdits
  BY <1>1, GraphStoreAssumption DEF Room, GraphStoreInv, TypeOK
<1>10. TypeOK'
  <2>1. store' = [o \in Names |-> store'[o]] /\ \A o \in Names : IsGraph(store'[o])
    BY <1>6, <1>7, <1>8
  <2>. QED  BY <1>1, <1>4, <1>9, <2>1 DEF GraphStoreInv, TypeOK
<1>11. FallbackReachable'  BY <1>1, <1>5 DEF FallbackReachable
<1>12. SavedActiveExists' /\ SavesStartable'
  BY <1>1 DEF GraphStoreInv, SavedActiveExists, SavesStartable
<1>13. SavesCurrent'
  <2>1. \A d \in Clients \cup {Main} : pc'[d].at # "saving"  BY <1>1 DEF Saving
  <2>. QED  BY <2>1 DEF SavesCurrent
<1>. QED  BY <1>10, <1>11, <1>12, <1>13 DEF GraphStoreInv

\* The first half of a save keeps it: the snapshot is taken under the locks.
LEMMA OpenFileKeepsInv ==
    ASSUME GraphStoreInv, NEW c \in Clients \cup {Main}, OpenFile(c)
    PROVE  GraphStoreInv'
<1>1. PICK set \in GraphSets :
         /\ pc' = [pc EXCEPT ![c] = [at |-> "saving", set |-> set]]
         /\ file' = Torn /\ up
         /\ UNCHANGED <<store, graphs, fallback, graph, running, tracing, wedged, edit_waits,
                        up, edits>>
  BY DEF OpenFile
<1> DEFINE v == [at |-> "saving", set |-> set]
<1>2. /\ IsGraphSet(set) /\ set.active \in DOMAIN set.graphs
      /\ DOMAIN set.graphs = DOMAIN graphs
      /\ \A k \in DOMAIN graphs : set.graphs[k] = Serialized(store[graphs[k]])
  BY <1>1, Snapshot DEF GraphStoreInv
<1>3. IsState(v) /\ v.at = "saving" /\ v.set = set
  <2> HIDE DEF v
  <2>1. IsState([at |-> "saving", set |-> set])  BY <1>2, HandlerStates
  <2>. QED  BY <2>1 DEF v
<1>4. pc' = [pc EXCEPT ![c] = v]  BY <1>1
<1> HIDE DEF v
<1>5. /\ pc' = [d \in Clients \cup {Main} |-> pc'[d]]
      /\ \A d \in Clients \cup {Main} : IsState(pc'[d])
      /\ \A d \in Clients \cup {Main} : pc'[d] = IF d = c THEN v ELSE pc[d]
  BY <1>3, <1>4, HandlerMoves DEF GraphStoreInv
<1>6. TypeOK'  BY <1>1, <1>5 DEF GraphStoreInv, TypeOK
<1>7. FallbackReachable'  BY <1>1 DEF GraphStoreInv, FallbackReachable
<1>8. SavedActiveExists'  BY <1>1 DEF SavedActiveExists, Torn
<1>9. SavesStartable'  BY <1>2, <1>3, <1>5 DEF GraphStoreInv, SavesStartable
<1>10. SavesCurrent'
  <2> SUFFICES ASSUME NEW d \in Clients \cup {Main}, pc'[d].at = "saving",
                      NEW k \in DOMAIN pc'[d].set.graphs \cap DOMAIN graphs,
                      graphs[k] = fallback
               PROVE  pc'[d].set.graphs[k] = Serialized(store[fallback])
    BY <1>1 DEF SavesCurrent
  <2>1. CASE d = c  BY <1>2, <1>3, <1>5, <2>1
  <2>2. CASE d # c  BY <1>1, <1>5, <2>2 DEF GraphStoreInv, SavesCurrent
  <2>. QED  BY <2>1, <2>2
<1>. QED  BY <1>6, <1>7, <1>8, <1>9, <1>10 DEF GraphStoreInv

\* The second half too: what is written is the snapshot, or it is torn.
LEMMA WriteFileKeepsInv ==
    ASSUME GraphStoreInv, NEW c \in Clients \cup {Main}, WriteFile(c)
    PROVE  GraphStoreInv'
<1>1. /\ pc[c].at = "saving" /\ pc' = [pc EXCEPT ![c] = Idle]
      /\ file' = pc[c].set \/ file' = Torn
      /\ edit_waits' \in BOOLEAN
      /\ UNCHANGED <<store, graphs, fallback, graph, running, tracing, wedged, up, edits>>
  BY DEF WriteFile, Written, GraphStoreInv, TypeOK
<1>2. IsState(Idle) /\ Idle.at = "idle"  BY HandlerStates
<1>3. /\ pc' = [d \in Clients \cup {Main} |-> pc'[d]]
      /\ \A d \in Clients \cup {Main} : IsState(pc'[d])
      /\ \A d \in Clients \cup {Main} : pc'[d] = IF d = c THEN Idle ELSE pc[d]
  BY <1>1, <1>2, HandlerMoves DEF GraphStoreInv
<1>4. IsGraphSet(pc[c].set)
  <2>1. IsState(pc[c])  BY DEF GraphStoreInv, TypeOK
  <2>. QED  BY <1>1, <2>1 DEF IsState, Idle
<1>5. file' \in {Torn, Absent} \/ IsGraphSet(file')  BY <1>1, <1>4
<1>6. TypeOK'  BY <1>1, <1>3, <1>5 DEF GraphStoreInv, TypeOK
<1>7. FallbackReachable'  BY <1>1 DEF GraphStoreInv, FallbackReachable
<1>8. SavedActiveExists'
  <2>1. CASE file' = Torn  BY <2>1 DEF SavedActiveExists, Torn
  <2>2. CASE file' = pc[c].set  BY <1>1, <2>2 DEF GraphStoreInv, SavesStartable, SavedActiveExists
  <2>. QED  BY <1>1, <2>1, <2>2
<1>9. SavesStartable'  BY <1>2, <1>3 DEF GraphStoreInv, SavesStartable
<1>10. SavesCurrent'  BY <1>1, <1>2, <1>3 DEF GraphStoreInv, SavesCurrent
<1>. QED  BY <1>6, <1>7, <1>8, <1>9, <1>10 DEF GraphStoreInv

\* And the start of the process, from a whole file or without one.
LEMMA BootKeepsInv ==
    ASSUME GraphStoreInv, Boot
    PROVE  GraphStoreInv'
<1>1. UNCHANGED <<file, edits>> /\ file.kind # "torn"  BY DEF Boot
<1>2. SavedActiveExists'  BY <1>1 DEF GraphStoreInv, SavedActiveExists
<1>3. TypeOK' /\ FallbackReachable' /\ SavesStartable' /\ SavesCurrent'
  <2>1. CASE file.kind = "whole"
    <3>1. IsGraphSet(file)  BY <2>1 DEF GraphStoreInv, TypeOK, Torn, Absent
    <3>2. PICK active \in ActiveKeys(file.graphs, file.active) : Booted(file.graphs, active)
      BY <2>1 DEF Boot
    <3>3. active \in DOMAIN file.graphs  BY DEF ActiveKeys
    <3>4. /\ DOMAIN file.graphs \subseteq Names
          /\ \A k \in DOMAIN file.graphs : IsGraph(file.graphs[k])
      BY <3>1 DEF IsGraphSet
    <3>. QED  BY <1>1, <3>2, <3>3, <3>4, BootsWell DEF GraphStoreInv
  <2>2. CASE file.kind # "whole"
    <3> DEFINE saved == Put(NoFun, MainGraph, create_default_graph)
    <3>1. Booted(saved, MainGraph)  BY <2>2 DEF Boot
    <3>2. DOMAIN saved = {MainGraph} /\ saved[MainGraph] = create_default_graph
      BY DEF Put, NoFun
    <3> HIDE DEF saved
    <3>3. MainGraph \in DOMAIN saved /\ DOMAIN saved \subseteq Names
      BY <3>2, GraphStoreAssumption
    <3>4. \A k \in DOMAIN saved : IsGraph(saved[k])  BY <3>2, DefaultGraph
    <3>. QED  BY <1>1, <3>1, <3>3, <3>4, BootsWell DEF GraphStoreInv
  <2>. QED  BY <2>1, <2>2
<1>. QED  BY <1>2, <1>3 DEF GraphStoreInv

\* The invariant holds before the process first starts.
LEMMA InitInv == Init => GraphStoreInv
<1> SUFFICES ASSUME Init PROVE GraphStoreInv  OBVIOUS
<1>1. MainGraph \in Names /\ MaxEdits \in Nat  BY GraphStoreAssumption
<1>2. \A k \in Names : IsGraph(Graph_new(k))  BY NewGraph
<1>3. IsMap(graphs, Names, Names)  BY EmptyMap DEF Init
<1>4. \A c \in Clients \cup {Main} : pc[c] = Idle /\ IsState(pc[c]) /\ pc[c].at # "saving"
  BY HandlerStates DEF Init
<1>5. TypeOK
  <2>1. store = [o \in Names |-> store[o]] /\ \A o \in Names : IsGraph(store[o])
    BY <1>2 DEF Init
  <2>2. pc = [c \in Clients \cup {Main} |-> pc[c]]  BY DEF Init
  <2>3. /\ fallback \in Names /\ graph \in Names /\ running \in BOOLEAN
        /\ tracing \in BOOLEAN /\ up \in BOOLEAN /\ wedged \in {"no", "poisoned", "held"}
        /\ edit_waits \in BOOLEAN
    BY <1>1 DEF Init
  <2>4. edits \in 0..MaxEdits  BY <1>1 DEF Init
  <2>5. file \in {Torn, Absent}  BY DEF Init
  <2>. QED  BY <1>3, <1>4, <2>1, <2>2, <2>3, <2>4, <2>5 DEF TypeOK
<1>6. FallbackReachable /\ SavedActiveExists
  BY DEF Init, FallbackReachable, SavedActiveExists, Absent
<1>7. SavesStartable /\ SavesCurrent  BY <1>4 DEF SavesStartable, SavesCurrent
<1>. QED  BY <1>5, <1>6, <1>7 DEF GraphStoreInv

\* Every step keeps it.
LEMMA StepInv ==
    ASSUME GraphStoreInv, [Next]_vars
    PROVE  GraphStoreInv'
<1>1. /\ graph \in Names /\ running \in BOOLEAN /\ tracing \in BOOLEAN /\ up \in BOOLEAN
      /\ wedged \in {"no", "poisoned", "held"} /\ fallback \in Names
      /\ edit_waits \in BOOLEAN /\ edits \in 0..MaxEdits
      /\ \A c \in Clients \cup {Main} : IsState(pc[c])
  BY DEF GraphStoreInv, TypeOK
<1>2. ASSUME NEW c \in Clients, pc[c].at = "found"
      PROVE  pc[c].to \in Names /\ pc[c].obj \in Names
  <2>1. IsState(pc[c])  BY <1>1
  <2>. QED  BY <1>2, <2>1 DEF IsState, Idle
<1>3. IsState(Idle) /\ Idle.at # "saving"  BY HandlerStates
<1>4. ASSUME NEW c \in Clients, NEW name \in Names, Resolve(c, name)
      PROVE  GraphStoreInv'
  <2>1. PICK o \in get_graph_by_name(name) :
           pc' = [pc EXCEPT ![c] = [at |-> "found", to |-> name, obj |-> o]]
    BY <1>4 DEF Resolve
  <2>2. o \in Names
    BY <1>1 DEF get_graph_by_name, GraphStoreInv, TypeOK, IsMap
  <2> DEFINE v == [at |-> "found", to |-> name, obj |-> o]
  <2>3. IsState(v) /\ v.at # "saving"  BY <2>2, HandlerStates
  <2> HIDE DEF v
  <2>4. pc' = [pc EXCEPT ![c] = v]  BY <2>1 DEF v
  <2>. QED  BY <1>1, <1>4, <2>3, <2>4, QuietMove DEF Resolve
<1>5. ASSUME NEW c \in Clients, Refuse(c) PROVE GraphStoreInv'
  BY <1>1, <1>3, <1>5, QuietMove DEF Refuse
<1>6. ASSUME NEW c \in Clients, Start(c) PROVE GraphStoreInv'
  <2>1. graph' \in Names  BY <1>2, <1>6 DEF Start
  <2>2. running' \in BOOLEAN  BY <1>1, <1>6 DEF Start
  <2>3. wedged' \in {"no", "poisoned", "held"}  BY <1>1, <1>6 DEF Start
  <2>4. PICK v : pc' = [pc EXCEPT ![c] = v] /\ (v = Idle \/ v = [at |-> "hung", obj |-> pc[c].obj])
    BY <1>6 DEF Start
  <2>5. IsState(v) /\ v.at # "saving"
    BY <1>2, <1>3, <1>6, <2>4, HandlerStates DEF Start
  <2>. QED  BY <1>1, <1>6, <2>1, <2>2, <2>3, <2>4, <2>5, QuietMove DEF Start
<1>7. ASSUME NEW c \in Clients, SelectGraph(c) PROVE GraphStoreInv'
  <2>1. graph' \in Names  BY <1>1, <1>2, <1>7 DEF SelectGraph
  <2>. QED  BY <1>1, <1>3, <1>7, <2>1, QuietMove DEF SelectGraph
<1>8. ASSUME NEW c \in Clients, StartTrace(c) PROVE GraphStoreInv'
  BY <1>1, <1>8, QuietStay DEF StartTrace
<1>9. ASSUME NEW c \in Clients, StopTrace(c) PROVE GraphStoreInv'
  BY <1>1, <1>9, QuietStay DEF StopTrace
<1>10. ASSUME Stop PROVE GraphStoreInv'
  BY <1>1, <1>10, QuietStay DEF Stop
<1>11. ASSUME Crash PROVE GraphStoreInv'
  BY <1>1, <1>11, QuietStay DEF Crash
<1>12. ASSUME NEW c \in Clients, EditGraph(c) PROVE GraphStoreInv'
  BY <1>12, EditsAreSteps, EditKeepsInv DEF GraphStoreInv
<1>13. ASSUME EditWaits \/ UNCHANGED vars PROVE GraphStoreInv'
  <2>1. CASE EditWaits
    <3>1. edit_waits' \in BOOLEAN  BY <2>1 DEF EditWaits
    <3>. QED  BY <1>1, <2>1, <3>1, QuietStay DEF EditWaits
  <2>2. CASE UNCHANGED vars  BY <1>1, <2>2, QuietStay DEF vars
  <2>. QED  BY <1>13, <2>1, <2>2
<1>14. ASSUME NEW c \in Clients \cup {Main}, LockForSave(c) PROVE GraphStoreInv'
  <2> DEFINE v == [at |-> "locked"]
  <2>1. edits' \in 0..MaxEdits
    BY <1>1, <1>14, GraphStoreAssumption DEF LockForSave, Room
  <2>2. IsState(v) /\ v.at # "saving"  BY HandlerStates
  <2>3. pc' = [pc EXCEPT ![c] = v]  BY <1>14 DEF LockForSave
  <2> HIDE DEF v
  <2>. QED  BY <1>1, <1>14, <2>1, <2>2, <2>3, QuietMove DEF LockForSave
<1>. QED
  BY <1>4, <1>5, <1>6, <1>7, <1>8, <1>9, <1>10, <1>11, <1>12, <1>13, <1>14,
     ClearKeepsInv, OpenFileKeepsInv, WriteFileKeepsInv, BootKeepsInv DEF Next

\* Hence it holds in every behaviour.
LEMMA InvHolds == Spec => []GraphStoreInv
BY InitInv, StepInv, PTL DEF Spec

-----------------------------------------------------------------------------
(* The theorems.                                                           *)

\* Graphs, registry, file and handlers have their types through any sequence
\* of edits, clears, saves, crashes and restarts.
THEOREM TypeCorrect == Spec => []TypeOK
<1>1. GraphStoreInv => TypeOK  BY DEF GraphStoreInv
<1>. QED  BY <1>1, InvHolds, PTL

\* The graph the server was started with stays registered.
THEOREM FallbackStaysReachable == Spec => []FallbackReachable
<1>1. GraphStoreInv => FallbackReachable  BY DEF GraphStoreInv
<1>. QED  BY <1>1, InvHolds, PTL

\* A whole file names one of its own graphs as the active one, the one the next
\* boot gives to the server.
THEOREM SavedFileStartable == Spec => []SavedActiveExists
<1>1. GraphStoreInv => SavedActiveExists  BY DEF GraphStoreInv
<1>. QED  BY <1>1, InvHolds, PTL

\* An answered save wrote the server's graph as it still is.
THEOREM SavesAreCurrent == Spec => AckedSaveIsCurrent
<1>1. GraphStoreInv /\ [Next]_vars =>
        [\A c \in Clients \cup {Main} :
            (pc[c].at = "saving" /\ pc'[c] = Idle /\ up /\ up') =>
                \A k \in DOMAIN pc[c].set.graphs \cap DOMAIN graphs :
                    graphs[k] = fallback =>
                        pc[c].set.graphs[k] = Serialized(store[fallback])]_vars
  BY DEF GraphStoreInv, SavesCurrent
<1>. QED  BY <1>1, InvHolds, PTL DEF Spec, AckedSaveIsCurrent

\* While the process runs, a step changes no graph, edits the one a handler
\* found, or empties the server's own.
LEMMA StoreSteps ==
    ASSUME GraphStoreInv, Next, up
    PROVE  \/ UNCHANGED store
           \/ \E c \in Clients : EditStep(c)
           \/ \E name \in Names : store' = [store EXCEPT ![fallback] = Graph_new(name)]
<1>1. ASSUME NEW c \in Clients, EditGraph(c) PROVE EditStep(c)
  BY <1>1, EditsAreSteps DEF GraphStoreInv
<1>2. ASSUME NEW c \in Clients, NEW name \in Names, Clear(c, name)
      PROVE  store' = [store EXCEPT ![fallback] = Graph_new(name)]
  BY <1>2 DEF Clear, clear
<1>3. ASSUME NEW c \in Clients, NEW name \in Names, Resolve(c, name) PROVE UNCHANGED store
  BY <1>3 DEF Resolve
<1>4. ASSUME NEW c \in Clients,
             Refuse(c) \/ Start(c) \/ SelectGraph(c) \/ StartTrace(c) \/ StopTrace(c)
      PROVE  UNCHANGED store
  BY <1>4 DEF Refuse, Start, SelectGraph, StartTrace, StopTrace
<1>5. ASSUME NEW c \in Clients \cup {Main}, LockForSave(c) \/ OpenFile(c) \/ WriteFile(c)
      PROVE  UNCHANGED store
  BY <1>5 DEF LockForSave, OpenFile, WriteFile
<1>6. ASSUME EditWaits \/ Stop \/ Crash PROVE UNCHANGED store
  BY <1>6 DEF EditWaits, Stop, Crash
<1>7. ~Boot  BY DEF Boot
<1>. QED  BY <1>1, <1>2, <1>3, <1>4, <1>5, <1>6, <1>7 DEF Next

\* What an edit does to each graph object.
LEMMA EditedGraphs ==
    ASSUME GraphStoreInv, NEW c \in Clients, EditStep(c), NEW o \in Names
    PROVE  \/ store'[o] = store[o]
           \/ /\ pc[c].at = "found" /\ pc[c].obj = o
              /\ EditKeeps(store[o], pc[c].to, store'[o])
<1>1. PICK h : /\ EditKeeps(Target(c), pc[c].to, h) /\ pc[c].at = "found"
               /\ store' = [store EXCEPT ![pc[c].obj] = h]
  BY DEF EditStep
<1>2. DOMAIN store = Names  BY DEF GraphStoreInv, TypeOK
<1>. QED  BY <1>1, <1>2 DEF Target

\* What a clear does to each graph object.
LEMMA ClearedGraphs ==
    ASSUME GraphStoreInv, NEW o \in Names, NEW name \in Names,
           store' = [store EXCEPT ![fallback] = Graph_new(name)]
    PROVE  store'[o] = store[o] \/ store'[o] = Graph_new(name)
<1>1. DOMAIN store = Names /\ fallback \in Names  BY DEF GraphStoreInv, TypeOK
<1>. QED  BY <1>1

\* A node enters only the graph its client addressed by its present name.
THEOREM NodesEnterByName == Spec => NodesEnterAddressedGraph
<1>1. GraphStoreInv /\ [Next]_vars =>
        [up => \A o \in Names :
            ~(DOMAIN store'[o].nodes \subseteq DOMAIN store[o].nodes) =>
                \E c \in Clients : pc[c].at = "found" /\ pc[c].obj = o /\ pc[c].to = store[o].name]_vars
  <2> SUFFICES ASSUME GraphStoreInv, Next, up, NEW o \in Names,
                      ~(DOMAIN store'[o].nodes \subseteq DOMAIN store[o].nodes)
               PROVE  \E c \in Clients :
                         pc[c].at = "found" /\ pc[c].obj = o /\ pc[c].to = store[o].name
    OBVIOUS
  <2>1. ASSUME NEW name \in Names, store' = [store EXCEPT ![fallback] = Graph_new(name)]
        PROVE  FALSE
    <3>1. DOMAIN Graph_new(name).nodes = {}  BY NewGraph
    <3>. QED  BY <2>1, <3>1, ClearedGraphs
  <2>2. PICK c \in Clients : EditStep(c)  BY <2>1, StoreSteps
  <2>3. /\ pc[c].at = "found" /\ pc[c].obj = o
        /\ EditKeeps(store[o], pc[c].to, store'[o])
    BY <2>2, EditedGraphs
  <2>. QED  BY <2>3 DEF EditKeeps
<1>. QED  BY <1>1, InvHolds, PTL DEF Spec, NodesEnterAddressedGraph

\* Only the edit that adds an edge can leave one without its nodes.
THEOREM DanglingEdgesAreAdded == Spec => DanglingOnlyByAdd
<1>1. GraphStoreInv /\ [Next]_vars =>
        [up => \A o \in Names :
            Len(store'[o].edges) <= Len(store[o].edges) =>
                Len(store'[o].edges) - Cardinality(Anchored(store'[o]))
                    <= Len(store[o].edges) - Cardinality(Anchored(store[o]))]_vars
  <2> SUFFICES ASSUME GraphStoreInv, Next, up, NEW o \in Names,
                      Len(store'[o].edges) <= Len(store[o].edges)
               PROVE  Len(store'[o].edges) - Cardinality(Anchored(store'[o]))
                         <= Len(store[o].edges) - Cardinality(Anchored(store[o]))
    OBVIOUS
  <2> DEFINE g == store[o]
             h == store'[o]
  <2>1. IsGraph(g)  BY DEF GraphStoreInv, TypeOK
  <2>2. IsGraph(h)
    <3>1. GraphStoreInv'  BY StepInv
    <3>. QED  BY <3>1 DEF GraphStoreInv, TypeOK
  <2>3. Cardinality(Loose(h)) <= Cardinality(Loose(g))
    <3>1. h = g \/ (\E c \in Clients : EditKeeps(g, pc[c].to, h)) \/ (\E name \in Names : h = Graph_new(name))
      BY StoreSteps, EditedGraphs, ClearedGraphs
    <3>2. ASSUME NEW name \in Names, h = Graph_new(name) PROVE Loose(h) \subseteq Loose(g)
      <4>1. h.edges = <<>>  BY <3>2, NewGraph
      <4>. QED  BY <4>1 DEF Loose
    <3>3. CASE h = g
      <4>1. Cardinality(Loose(g)) \in Nat  BY <2>1, LooseCount
      <4>. QED  BY <3>3, <4>1
    <3>4. ASSUME NEW c \in Clients, EditKeeps(g, pc[c].to, h)
          PROVE  Cardinality(Loose(h)) <= Cardinality(Loose(g))
      BY <3>4 DEF EditKeeps
    <3>. QED  BY <2>1, <3>1, <3>2, <3>3, <3>4, LooseSubset
  <2>4. /\ Cardinality(Loose(g)) = Len(g.edges) - Cardinality(Anchored(g))
        /\ Cardinality(Loose(h)) = Len(h.edges) - Cardinality(Anchored(h))
    BY <2>1, <2>2, LooseCount
  <2>. QED  BY <2>3, <2>4
<1>. QED  BY <1>1, InvHolds, PTL DEF Spec, DanglingOnlyByAdd
=============================================================================
