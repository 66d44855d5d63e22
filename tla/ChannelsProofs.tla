---------------------------- MODULE ChannelsProofs ----------------------------
(***************************************************************************)
(* Proofs about Channels, for any tree of channels, any configuration of   *)
(* them and any jobs: the capacity of the channels is held, jobs flow from *)
(* channel to channel and none is lost, sequential channels keep to their  *)
(* order, and no wakeup is lost.                                           *)
(*                                                                         *)
(* The tree is handled by two inductions, from the root (FromRoot) and     *)
(* from the leaves (FromLeaves).  IInv says where each job is: it Flows    *)
(* through the channels on its Path, and is where its row says when the    *)
(* runner has read it.  QuietInv says what a sweep leaves behind.          *)
(***************************************************************************)
EXTENDS Channels, FiniteSetTheorems, TLAPS

-----------------------------------------------------------------------------
(* Induction, with a set in the place of a predicate *)

\* A set of numbers that is not empty has a least one.
LEMMA NatLeast ==
  ASSUME NEW T \in SUBSET Nat, T # {}
  PROVE  \E n \in T : \A m \in T : n <= m
<1>1. \A x, y \in Nat : y < x => <<y, x>> \in OpToRel(<, Nat)
  BY DEF OpToRel
<1>2. PICK n \in T : \A m \in T : ~(<<m, n>> \in OpToRel(<, Nat))
  BY NatLessThanWellFounded, WFMin
<1>3. \A m \in T : m \in Nat /\ n \in Nat
  OBVIOUS
<1>4. \A m \in T : ~(m < n)
  BY <1>1, <1>2, <1>3, Zenon
<1> QED
  BY <1>3, <1>4

\* A set that has 0 and, with each number, the next one has them all.
LEMMA NatInduct ==
  ASSUME NEW T, 0 \in T, \A n \in Nat : n \in T => n + 1 \in T
  PROVE  \A n \in Nat : n \in T
<1> SUFFICES ASSUME \E n \in Nat : n \notin T PROVE FALSE
  OBVIOUS
<1> DEFINE U == {n \in Nat : n \notin T}
<1>1. PICK n \in U : \A m \in U : n <= m
  BY NatLeast
<1>2. n # 0 /\ n - 1 \in Nat /\ n - 1 \notin U
  BY <1>1
<1> QED
  BY <1>1, <1>2

-----------------------------------------------------------------------------

\* Dots in the names of the channels.
IsDepth(depth) ==
  /\ depth \in [Tree -> 0 .. Cardinality(Tree)]
  /\ \A c \in Tree \ {Root} : depth[ParentOf[c]] < depth[c]

\* The channels have a depth that grows with each dot, and each but the root a parent.
LEMMA HasDepth ==
  /\ \E depth : IsDepth(depth)
  /\ Root \in Tree /\ \A c \in Tree \ {Root} : ParentOf[c] \in Tree
  /\ Cardinality(Tree) \in Nat
BY ChannelsAssumption, FS_CardinalityType DEF IsDepth

\* Induction from the root: what the root has, and with its parent each channel, all
\* channels have.
LEMMA FromRoot ==
  ASSUME NEW T \in SUBSET Tree, Root \in T, \A c \in Tree \ {Root} : ParentOf[c] \in T => c \in T
  PROVE  T = Tree
<1> SUFFICES ASSUME Tree \ T # {} PROVE FALSE
  OBVIOUS
<1>1. PICK depth : IsDepth(depth)
  BY HasDepth
<1> DEFINE U == {depth[c] : c \in Tree \ T}
<1>2. U \in SUBSET Nat /\ U # {}
  BY <1>1 DEF IsDepth
<1>3. PICK c \in Tree \ T : \A d \in Tree \ T : depth[c] <= depth[d]
  <2>1. PICK n \in U : \A m \in U : n <= m
    BY <1>2, NatLeast
  <2> QED
    BY <2>1
<1>4. c \in Tree \ {Root} /\ ParentOf[c] \in Tree \ T
  BY <1>3, HasDepth
<1>5. depth[ParentOf[c]] < depth[c] /\ depth[ParentOf[c]] \in Int /\ depth[c] \in Int
  BY <1>1, <1>4 DEF IsDepth
<1> QED
  BY <1>3, <1>4, <1>5

\* Induction from the leaves: what each channel has if its children have it, all
\* channels have.
LEMMA FromLeaves ==
  ASSUME NEW T \in SUBSET Tree, \A c \in Tree : (\A d \in Children(c) : d \in T) => c \in T
  PROVE  T = Tree
<1> SUFFICES ASSUME Tree \ T # {} PROVE FALSE
  OBVIOUS
<1>1. PICK depth : IsDepth(depth)
  BY HasDepth
<1> DEFINE N == Cardinality(Tree)
           U == {N - depth[c] : c \in Tree \ T}
<1>2. \A c \in Tree : depth[c] \in Nat /\ depth[c] <= N /\ N \in Nat
  BY <1>1, HasDepth DEF IsDepth
<1> HIDE DEF N
<1>3. U \in SUBSET Nat /\ U # {}
  BY <1>2
<1>4. PICK c \in Tree \ T : \A d \in Tree \ T : N - depth[c] <= N - depth[d]
  <2>1. PICK n \in U : \A m \in U : n <= m
    BY <1>3, NatLeast
  <2> QED
    BY <2>1
<1>5. PICK d \in Children(c) : d \notin T
  BY <1>4
<1>6. d \in Tree \ {Root} /\ ParentOf[d] = c
  BY DEF Children
<1>7. depth[c] < depth[d]
  BY <1>1, <1>6 DEF IsDepth
<1> QED
  BY <1>2, <1>4, <1>5, <1>6, <1>7

-----------------------------------------------------------------------------
(* Paths                                                                   *)

\* A path, which is defined from the root, exists.
LEMMA PathExists ==
  \E g \in [Tree -> SUBSET Tree] :
    g = [c \in Tree |-> {c} \cup IF c = Root THEN {} ELSE g[ParentOf[c]]]
<1>1. PICK depth : IsDepth(depth)
  BY HasDepth
<1>2. \A c \in Tree : depth[c] \in Nat /\ depth[c] <= Cardinality(Tree)
  BY <1>1, HasDepth DEF IsDepth
<1>3. \A c \in Tree \ {Root} : ParentOf[c] \in Tree /\ depth[ParentOf[c]] < depth[c]
  BY <1>1, HasDepth DEF IsDepth
<1> DEFINE Step(g, c) == {c} \cup IF c = Root THEN {} ELSE g[ParentOf[c]]
           Good(g, n) == \A c \in Tree : depth[c] <= n => g[c] = Step(g, c)
           T == {n \in Nat : \E g \in [Tree -> SUBSET Tree] : Good(g, n)}
<1>4. \A g \in [Tree -> SUBSET Tree] : \A c \in Tree : Step(g, c) \in SUBSET Tree
  BY <1>3
<1>5. 0 \in T
  <2> DEFINE g == [c \in Tree |-> {c}]
  <2>1. \A c \in Tree : depth[c] <= 0 => c = Root
    BY <1>2, <1>3
  <2>2. g \in [Tree -> SUBSET Tree] /\ Good(g, 0)
    BY <2>1
  <2> QED
    BY <2>2
<1>6. \A n \in Nat : n \in T => n + 1 \in T
  <2> SUFFICES ASSUME NEW n \in Nat, n \in T
               PROVE  n + 1 \in Nat /\ \E h \in [Tree -> SUBSET Tree] : Good(h, n + 1)
    BY Zenon
  <2>1. PICK g \in [Tree -> SUBSET Tree] : Good(g, n)
    OBVIOUS
  <2> DEFINE h == [c \in Tree |-> IF depth[c] <= n THEN g[c] ELSE Step(g, c)]
  <2>2. h \in [Tree -> SUBSET Tree]
    BY <1>4, <2>1
  <2>3. ASSUME NEW c \in Tree, depth[c] <= n + 1 PROVE h[c] = Step(h, c)
    <3>1. h[c] = Step(g, c)
      BY <2>1
    <3>2. c # Root => h[ParentOf[c]] = g[ParentOf[c]]
      BY <1>2, <1>3, <2>3
    <3> QED
      BY <3>1, <3>2
  <2> HIDE DEF h, Step
  <2> QED
    BY <2>2, <2>3
<1>7. Cardinality(Tree) \in T
  <2> HIDE DEF T
  <2> QED
    BY <1>5, <1>6, NatInduct, HasDepth
<1>8. PICK g \in [Tree -> SUBSET Tree] : Good(g, Cardinality(Tree))
  BY <1>7
<1>9. \A c \in Tree : g[c] = Step(g, c)
  BY <1>2, <1>8
<1>10. g = [c \in Tree |-> Step(g, c)]
  BY <1>9
<1> QED
  BY <1>10

\* A path leads from a channel over its parent to the root.
LEMMA PathIs ==
  /\ PathOf \in [Tree -> SUBSET Tree]
  /\ \A c \in Tree : Path(c) = {c} \cup IF c = Root THEN {} ELSE Path(ParentOf[c])
<1> DEFINE Step(g, c) == {c} \cup IF c = Root THEN {} ELSE g[ParentOf[c]]
<1> DEFINE path == CHOOSE g : g = [c \in Tree |-> Step(g, c)]
<1>1. PathOf = [c \in Tree |-> path[c]]
  BY DEF PathOf
<1>2. path = [c \in Tree |-> Step(path, c)]
  BY PathExists
<1> HIDE DEF path
<1>3. \A c \in Tree : PathOf[c] = Step(PathOf, c)
  <2>1. \A c \in Tree : Step(path, c) = Step(PathOf, c)
    BY <1>1, HasDepth
  <2> HIDE DEF Step
  <2>2. \A c \in Tree : path[c] = Step(path, c)
    BY <1>2
  <2> QED
    BY <1>1, <2>1, <2>2
<1> HIDE DEF Step
<1>4. \A c \in Tree : PathOf[c] \in SUBSET Tree
  <2> DEFINE T == {c \in Tree : PathOf[c] \in SUBSET Tree}
  <2>1. T = Tree
    <3>1. Root \in T
      BY <1>3, HasDepth DEF Step
    <3>2. \A c \in Tree \ {Root} : ParentOf[c] \in T => c \in T
      BY <1>3, HasDepth DEF Step
    <3> HIDE DEF T
    <3>3. T \in SUBSET Tree
      BY DEF T
    <3> QED
      BY <3>1, <3>2, <3>3, FromRoot
  <2> QED
    BY <2>1
<1>5. PathOf \in [Tree -> SUBSET Tree]
  BY <1>1, <1>4
<1> QED
  BY <1>3, <1>5 DEF Path, Step

\* The channels on a path: the root is one, and so is the parent of each other one.
LEMMA OnPath ==
  \A x \in Tree :
    /\ x \in Path(x) /\ Root \in Path(x) /\ Path(x) \subseteq Tree
    /\ \A c \in Path(x) : Path(c) \subseteq Path(x)
    /\ \A c \in Path(x) \ {Root} : ParentOf[c] \in Path(x)
<1>1. \A x \in Tree : x \in Path(x) /\ Path(x) \subseteq Tree
  BY PathIs DEF Path
<1> DEFINE Good(x) == /\ Root \in Path(x)
                      /\ \A c \in Path(x) : Path(c) \subseteq Path(x)
                      /\ \A c \in Path(x) \ {Root} : ParentOf[c] \in Path(x)
           T == {x \in Tree : Good(x)}
<1>2. Root \in T
  <2>1. Path(Root) = {Root}
    BY PathIs, HasDepth
  <2> QED
    BY <2>1, HasDepth
<1>3. ASSUME NEW x \in Tree \ {Root}, ParentOf[x] \in T PROVE x \in T
  <2>1. Path(x) = {x} \cup Path(ParentOf[x])
    BY PathIs
  <2>2. ParentOf[x] \in Path(ParentOf[x])
    BY <1>1, HasDepth
  <2> QED
    BY <1>3, <2>1, <2>2
<1>4. T = Tree
  <2> HIDE DEF T
  <2>1. T \in SUBSET Tree
    BY DEF T
  <2> QED
    BY <1>2, <1>3, <2>1, FromRoot
<1> QED
  BY <1>1, <1>4

\* A path does not come back to a channel, and does not split.
LEMMA PathIsALine ==
  \A x \in Tree :
    /\ x # Root => x \notin Path(ParentOf[x])
    /\ \A c \in Path(x) \ {Root} : ParentOf[c] # x
    /\ \A c, d \in Path(x) \ {Root} : ParentOf[c] = ParentOf[d] => c = d
<1>1. PICK depth : IsDepth(depth)
  BY HasDepth
<1>2. \A c \in Tree : depth[c] \in Int
  BY <1>1 DEF IsDepth
<1>3. \A c \in Tree \ {Root} : ParentOf[c] \in Tree /\ depth[ParentOf[c]] < depth[c]
  BY <1>1, HasDepth DEF IsDepth
<1>4. \A x \in Tree : \A c \in Path(x) : depth[c] <= depth[x]
  <2> DEFINE T == {x \in Tree : \A c \in Path(x) : depth[c] <= depth[x]}
  <2>1. Root \in T
    BY PathIs, HasDepth, <1>2
  <2>2. ASSUME NEW x \in Tree \ {Root}, ParentOf[x] \in T PROVE x \in T
    <3>1. Path(x) = {x} \cup Path(ParentOf[x])
      BY PathIs
    <3>2. \A c \in Path(ParentOf[x]) : c \in Tree
      BY <1>3, OnPath
    <3> QED
      BY <1>2, <1>3, <2>2, <3>1, <3>2
  <2>3. T = Tree
    <3> HIDE DEF T
    <3>1. T \in SUBSET Tree
      BY DEF T
    <3> QED
      BY <2>1, <2>2, <3>1, FromRoot
  <2> QED
    BY <2>3
<1>5. \A x \in Tree \ {Root} : x \notin Path(ParentOf[x])
  BY <1>2, <1>3, <1>4
<1>6. \A x \in Tree : \A c \in Path(x) \ {Root} : ParentOf[c] # x
  <2> SUFFICES ASSUME NEW x \in Tree, NEW c \in Path(x) \ {Root}, ParentOf[c] = x PROVE FALSE
    OBVIOUS
  <2>1. c \in Tree /\ depth[c] <= depth[x] /\ depth[x] < depth[c]
    BY <1>3, <1>4, OnPath
  <2> QED
    BY <1>2, <2>1
<1> DEFINE T == {x \in Tree : \A c, d \in Path(x) \ {Root} : ParentOf[c] = ParentOf[d] => c = d}
<1>7. Root \in T
  BY PathIs, HasDepth
<1>8. ASSUME NEW x \in Tree \ {Root}, ParentOf[x] \in T PROVE x \in T
  <2>1. Path(x) = {x} \cup Path(ParentOf[x])
    BY PathIs
  <2>2. \A c \in Path(ParentOf[x]) \ {Root} : ParentOf[c] # ParentOf[x]
    BY <1>3, <1>6
  <2> QED
    BY <1>8, <2>1, <2>2
<1>9. T = Tree
  <2> HIDE DEF T
  <2>1. T \in SUBSET Tree
    BY DEF T
  <2> QED
    BY <1>7, <1>8, <2>1, FromRoot
<1> QED
  BY <1>5, <1>6, <1>9
-----------------------------------------------------------------------------
(* The sweep                                                               *)

\* Types of the variables the invariants are about.
Types ==
  /\ state \in [Jobs -> States]
  /\ queued \in [Tree -> SUBSET Jobs]
  /\ running \in [Tree -> SUBSET Jobs]
  /\ failed \in [Tree -> SUBSET Jobs]
  /\ notified \subseteq Jobs

\* Only jobs of the queue leave it.
LEMMA TakenIs ==
  ASSUME NEW c, NEW js
  PROVE  Taken(c, js) \subseteq js
BY DEF Taken, First, Due

\* A function that is defined from the leaves, each channel adding to its own what its
\* children pass,
IsFromLeaves(g, base, pass) ==
  g = [c \in Tree |-> base[c] \cup UNION {pass[d][g[d]] : d \in Children(c)}]

\* exists.
LEMMA FromLeavesExists ==
  ASSUME NEW V, NEW base \in [Tree -> SUBSET V],
         NEW pass \in [Tree -> [SUBSET V -> SUBSET V]]
  PROVE  \E g \in [Tree -> SUBSET V] : IsFromLeaves(g, base, pass)
<1>1. PICK depth : IsDepth(depth)
  BY HasDepth
<1> DEFINE N == Cardinality(Tree)
           over(c) == N - depth[c]
<1>2. \A c \in Tree : over(c) \in Nat /\ over(c) <= N
  BY <1>1, HasDepth DEF IsDepth
<1>3. \A c \in Tree : \A d \in Children(c) : d \in Tree /\ over(d) < over(c)
  <2> SUFFICES ASSUME NEW c \in Tree, NEW d \in Children(c) PROVE d \in Tree /\ over(d) < over(c)
    OBVIOUS
  <2>1. d \in Tree /\ depth[c] < depth[d]
    BY <1>1 DEF Children, IsDepth
  <2>2. depth[c] \in Int /\ depth[d] \in Int /\ N \in Int
    BY <1>1, <2>1, HasDepth DEF IsDepth
  <2> QED
    BY <2>1, <2>2
<1> HIDE DEF over
<1> DEFINE Step(g, c) == base[c] \cup UNION {pass[d][g[d]] : d \in Children(c)}
           Good(g, n) == \A c \in Tree : over(c) <= n => g[c] = Step(g, c)
           T == {n \in Nat : \E g \in [Tree -> SUBSET V] : Good(g, n)}
<1>4. \A g \in [Tree -> SUBSET V] : \A c \in Tree : Step(g, c) \in SUBSET V
  <2> SUFFICES ASSUME NEW g \in [Tree -> SUBSET V], NEW c \in Tree
               PROVE  Step(g, c) \in SUBSET V
    OBVIOUS
  <2>1. \A d \in Children(c) : pass[d][g[d]] \subseteq V
    BY <1>3
  <2> QED
    BY <2>1
<1>5. 0 \in T
  <2>1. \A c \in Tree : over(c) <= 0 => Children(c) = {}
    <3> SUFFICES ASSUME NEW c \in Tree, over(c) <= 0, NEW d \in Children(c) PROVE FALSE
      OBVIOUS
    <3>1. d \in Tree /\ over(d) < over(c)
      BY <1>3
    <3> QED
      BY <1>2, <3>1
  <2>2. Good(base, 0)
    BY <2>1
  <2> QED
    BY <2>2
<1>6. \A n \in Nat : n \in T => n + 1 \in T
  <2> SUFFICES ASSUME NEW n \in Nat, n \in T
               PROVE  n + 1 \in Nat /\ \E h \in [Tree -> SUBSET V] : Good(h, n + 1)
    BY Zenon
  <2>1. PICK g \in [Tree -> SUBSET V] : Good(g, n)
    OBVIOUS
  <2> DEFINE h == [c \in Tree |-> IF over(c) <= n THEN g[c] ELSE Step(g, c)]
  <2>2. h \in [Tree -> SUBSET V]
    BY <1>4, <2>1
  <2>3. ASSUME NEW c \in Tree, over(c) <= n + 1 PROVE h[c] = Step(h, c)
    <3>1. h[c] = Step(g, c)
      BY <2>1
    <3>2. \A d \in Children(c) : h[d] = g[d]
      <4> SUFFICES ASSUME NEW d \in Children(c) PROVE h[d] = g[d]
        OBVIOUS
      <4>1. d \in Tree /\ over(d) <= n
        BY <1>2, <1>3, <2>3
      <4> QED
        BY <4>1
    <3> HIDE DEF h
    <3> QED
      BY <3>1, <3>2
  <2> HIDE DEF h, Step
  <2> QED
    BY <2>2, <2>3
<1>7. N \in T
  <2> HIDE DEF T
  <2> QED
    BY <1>5, <1>6, NatInduct, HasDepth
<1>8. PICK g \in [Tree -> SUBSET V] : Good(g, N)
  BY <1>7
<1>9. \A c \in Tree : g[c] = Step(g, c)
  BY <1>2, <1>8
<1>10. g = [c \in Tree |-> Step(g, c)]
  BY <1>9
<1> QED
  BY <1>10 DEF IsFromLeaves

\* What the sweep makes of the queues is such a function.
LEMMA FullExists ==
  ASSUME Types
  PROVE  \E g : g = [c \in Tree |-> queued[c] \cup UNION {Taken(d, g[d]) : d \in Children(c)}]
<1> DEFINE pass == [d \in Tree |-> [js \in SUBSET Jobs |-> Taken(d, js)]]
<1>1. pass \in [Tree -> [SUBSET Jobs -> SUBSET Jobs]]
  BY TakenIs
<1>2. queued \in [Tree -> SUBSET Jobs]
  BY DEF Types
<1>3. \A g \in [Tree -> SUBSET Jobs] : \A d \in Tree : pass[d][g[d]] = Taken(d, g[d])
  OBVIOUS
<1> HIDE DEF pass
<1>4. PICK g \in [Tree -> SUBSET Jobs] : IsFromLeaves(g, queued, pass)
  BY <1>1, <1>2, FromLeavesExists
<1>5. \A c \in Tree : {pass[d][g[d]] : d \in Children(c)} = {Taken(d, g[d]) : d \in Children(c)}
  BY <1>3 DEF Children
<1>6. g = [c \in Tree |-> queued[c] \cup UNION {Taken(d, g[d]) : d \in Children(c)}]
  BY <1>4, <1>5 DEF IsFromLeaves
<1> QED
  BY <1>6

\* The queue of a channel when it is swept has its own jobs and what its children pass.
LEMMA FullIs ==
  ASSUME Types
  PROVE  \A c \in Tree :
           Full[c] = queued[c] \cup UNION {Taken(d, Full[d]) : d \in Children(c)}
<1> DEFINE Step(g, c) == queued[c] \cup UNION {Taken(d, g[d]) : d \in Children(c)}
<1>1. Full = CHOOSE g : g = [c \in Tree |-> Step(g, c)]
  BY DEF Full
<1>2. \E g : g = [c \in Tree |-> Step(g, c)]
  BY FullExists
<1>3. Full = [c \in Tree |-> Step(Full, c)]
  BY <1>1, <1>2
<1> HIDE DEF Step
<1>4. \A c \in Tree : Full[c] = Step(Full, c)
  BY <1>3
<1> QED
  BY <1>4 DEF Step
\* There are only jobs in the queues.
LEMMA FullIn ==
  ASSUME Types
  PROVE  HandedOut \subseteq Jobs /\ \A c \in Tree : Full[c] \subseteq Jobs
<1> DEFINE T == {c \in Tree : Full[c] \subseteq Jobs}
<1>1. ASSUME NEW c \in Tree, \A d \in Children(c) : d \in T PROVE c \in T
  BY <1>1, FullIs, TakenIs DEF Types
<1>2. T = Tree
  <2> HIDE DEF T
  <2>1. T \in SUBSET Tree
    BY DEF T
  <2> QED
    BY <1>1, <2>1, FromLeaves
<1> QED
  BY <1>2, TakenIs, HasDepth DEF HandedOut

\* The first n of some jobs are n at most: each has another number of jobs before it.
LEMMA FirstAreFew ==
  ASSUME NEW js \in SUBSET Jobs, NEW n \in Nat
  PROVE  IsFiniteSet(First(js, n)) /\ Cardinality(First(js, n)) <= n
<1> DEFINE Before(j) == {i \in js : Rank[i] < Rank[j]}
           F == First(js, n)
           f == [j \in F |-> Cardinality(Before(j))]
<1>1. \A j \in js : Before(j) \in SUBSET js /\ IsFiniteSet(Before(j)) /\ Cardinality(Before(j)) \in Nat
  <2>1. IsFiniteSet(js)
    BY FS_Subset, ChannelsAssumption
  <2> QED
    BY <2>1, FS_Subset, FS_CardinalityType
<1>2. \A j \in F : j \in js /\ Cardinality(Before(j)) < n
  BY DEF First
<1>3. \A i \in js : Rank[i] \in Int
  BY ChannelsAssumption
<1>4. ASSUME NEW j \in js, NEW k \in js, Rank[j] < Rank[k]
      PROVE  Cardinality(Before(j)) # Cardinality(Before(k))
  <2>1. Before(j) \in SUBSET Before(k) /\ j \in Before(k) /\ j \notin Before(j)
    BY <1>3, <1>4
  <2> HIDE DEF Before
  <2> QED
    BY <1>1, <2>1, FS_Subset
<1>5. \A j, k \in js : Cardinality(Before(j)) = Cardinality(Before(k)) => j = k
  <2>1. \A j, k \in js : Rank[j] < Rank[k] \/ Rank[k] < Rank[j] \/ j = k
    BY <1>3, ChannelsAssumption
  <2> HIDE DEF Before
  <2> QED
    BY <1>4, <2>1
<1>6. f \in Injection(F, 0..(n - 1))
  <2> HIDE DEF Before, F
  <2> QED
    BY <1>1, <1>2, <1>5 DEF Injection, IsInjective
<1>7. IsFiniteSet(0..(n - 1)) /\ Cardinality(0..(n - 1)) = n
  BY FS_Interval
<1> HIDE DEF f
<1>8. IsFiniteSet(F) /\ Cardinality(F) <= Cardinality(0..(n - 1))
  BY <1>6, <1>7, FS_Injection
<1> QED
  BY <1>7, <1>8

\* A part of what fits, fits.
LEMMA FewerFit ==
  ASSUME NEW few, NEW all, NEW n \in Int, few \subseteq all, all \subseteq Jobs,
         Cardinality(all) <= n
  PROVE  Cardinality(few) <= n
<1>1. IsFiniteSet(all)
  BY FS_Subset, ChannelsAssumption
<1>2. IsFiniteSet(few) /\ Cardinality(few) <= Cardinality(all)
  BY <1>1, FS_Subset
<1>3. Cardinality(few) \in Nat /\ Cardinality(all) \in Nat
  BY <1>1, <1>2, FS_CardinalityType
<1> QED
  BY <1>2, <1>3

\* A channel does not take more jobs than it has capacity for.
LEMMA TakenFit ==
  ASSUME Types, NEW c \in Tree, Capacity[c] # 0, NEW js \in SUBSET Jobs,
         Cardinality(running[c]) <= Capacity[c]
  PROVE  Cardinality(running[c] \cup Taken(c, js)) <= Capacity[c]
<1>1. /\ IsFiniteSet(running[c]) /\ Cardinality(running[c]) \in Nat
      /\ Capacity[c] \in Nat /\ Throttle[c] \in Nat
  BY FS_Subset, FS_CardinalityType, ChannelsAssumption DEF Types
<1>2. CASE Taken(c, js) = {}
  <2>1. running[c] \cup Taken(c, js) = running[c]
    BY <1>2
  <2> QED
    BY <2>1
<1>3. CASE Taken(c, js) # {}
  <2>1. Taken(c, js) = First(Due(js), Room(c)) /\ HasCapacity(c)
    BY <1>3 DEF Taken, Open
  <2>2. Room(c) \in Nat /\ Room(c) <= Capacity[c] - Cardinality(running[c])
    BY <1>1, <2>1 DEF HasCapacity, Room
  <2>3. Due(js) \in SUBSET Jobs
    BY DEF Due
  <2> DEFINE t == Taken(c, js)
  <2>4. IsFiniteSet(t) /\ Cardinality(t) <= Room(c)
    BY <2>1, <2>2, <2>3, FirstAreFew
  <2> HIDE DEF t
  <2>5. Cardinality(t) \in Nat /\ Cardinality(running[c] \cap t) \in Nat
    BY <1>1, <2>4, FS_CardinalityType, FS_Intersection
  <2>6. Cardinality(running[c] \cup t)
          = Cardinality(running[c]) + Cardinality(t) - Cardinality(running[c] \cap t)
    BY <1>1, <2>4, FS_Union
  <2>7. Cardinality(running[c] \cup t) <= Capacity[c]
    BY <1>1, <2>2, <2>4, <2>5, <2>6
  <2> QED
    BY <2>7 DEF t
<1> QED
  BY <1>2, <1>3
-----------------------------------------------------------------------------
(* Jobs in the channels                                                    *)

\* A job is at one place at most in each channel on its way down, with which it
\* takes capacity in all the channels it has passed.
Flows(p, j) ==
  /\ \A c \in Tree :
       /\ j \in p.queued[c] \cup p.running[c] \cup p.failed[c] => c \in Path(ChannelOf[j])
       /\ j \in p.queued[c] => j \notin p.running[c] \cup p.failed[c]
       /\ j \in p.failed[c] => j \notin p.running[c] /\ c = ChannelOf[j]
  /\ \A c \in Path(ChannelOf[j]) \ {Root} :
       j \in p.running[c] <=> j \in p.queued[ParentOf[c]] \cup p.running[ParentOf[c]]

\* A job lies where a manager that was told state s puts it.
Lies(p, j, s) ==
  \A c \in Tree :
    /\ j \in p.queued[c] <=> s = "pending" /\ c = ChannelOf[j]
    /\ j \in p.running[c] <=> s = "running" /\ c \in Path(ChannelOf[j])
    /\ j \in p.failed[c] <=> s = "failed" /\ c = ChannelOf[j]

\* A job is where its state, which is s, says.
Known(p, j, s) ==
  /\ s = "running" <=> j \in p.running[Root]
  /\ s = "pending" <=> \E c \in Path(ChannelOf[j]) : j \in p.queued[c]
  /\ s = "failed" <=> j \in p.failed[ChannelOf[j]]

\* The channel of a job is one of the tree.
LEMMA OwnChannel ==
  \A j \in Jobs :
    /\ ChannelOf[j] \in Tree /\ ChannelOf[j] \in Path(ChannelOf[j])
    /\ Root \in Tree /\ Root \in Path(ChannelOf[j]) /\ Path(ChannelOf[j]) \subseteq Tree
BY OnPath, ChannelsAssumption

\* A job that was just put somewhere flows and is where its state says.
LEMMA LiesFlows ==
  ASSUME NEW p, NEW j \in Jobs, NEW s, Lies(p, j, s)
  PROVE  Flows(p, j) /\ Known(p, j, s)
<1>1. Known(p, j, s)
  BY OwnChannel DEF Lies, Known
<1>2. \A c \in Path(ChannelOf[j]) \ {Root} :
        c \in Tree /\ ParentOf[c] \in Tree /\ ParentOf[c] \in Path(ChannelOf[j]) /\ ParentOf[c] # ChannelOf[j]
  BY OnPath, PathIsALine, OwnChannel
<1>3. \A c \in Path(ChannelOf[j]) \ {Root} :
        j \in p.running[c] <=> j \in p.queued[ParentOf[c]] \cup p.running[ParentOf[c]]
  BY <1>2 DEF Lies
<1>4. \A c \in Tree :
        /\ j \in p.queued[c] \cup p.running[c] \cup p.failed[c] => c \in Path(ChannelOf[j])
        /\ j \in p.queued[c] => j \notin p.running[c] \cup p.failed[c]
        /\ j \in p.failed[c] => j \notin p.running[c] /\ c = ChannelOf[j]
  BY OwnChannel DEF Lies
<1> QED
  BY <1>1, <1>3, <1>4 DEF Flows

\* Where a job does not take capacity, it has not come further either.
LEMMA NotFurther ==
  ASSUME NEW p, NEW j \in Jobs, Flows(p, j), NEW x \in Path(ChannelOf[j]), j \notin p.running[x]
  PROVE  \A c \in Path(x) \ {x} : j \notin p.queued[c] \cup p.running[c]
<1> DEFINE T == {y \in Tree : y \in Path(ChannelOf[j]) /\ j \notin p.running[y] =>
                   \A c \in Path(y) \ {y} : j \notin p.queued[c] \cup p.running[c]}
<1>1. Root \in T
  BY PathIs, HasDepth
<1>2. ASSUME NEW y \in Tree \ {Root}, ParentOf[y] \in T PROVE y \in T
  <2> SUFFICES ASSUME y \in Path(ChannelOf[j]), j \notin p.running[y],
                      NEW c \in Path(y) \ {y}
               PROVE  j \notin p.queued[c] \cup p.running[c]
    OBVIOUS
  <2>1. j \notin p.queued[ParentOf[y]] \cup p.running[ParentOf[y]]
    BY DEF Flows
  <2>2. ParentOf[y] \in Path(ChannelOf[j])
    BY OnPath, OwnChannel
  <2>3. c \in Path(ParentOf[y])
    BY PathIs
  <2>4. c # ParentOf[y] => j \notin p.queued[c] \cup p.running[c]
    BY <1>2, <2>1, <2>2, <2>3
  <2> QED
    BY <2>1, <2>4
<1>3. T = Tree
  <2> HIDE DEF T
  <2>1. T \in SUBSET Tree
    BY DEF T
  <2> QED
    BY <1>1, <1>2, <2>1, FromRoot
<1> QED
  BY <1>3, OwnChannel

\* A job that passed the root takes capacity all the way down.
LEMMA PassedAll ==
  ASSUME NEW p, NEW j \in Jobs, Flows(p, j), j \in p.running[Root]
  PROVE  \A c \in Path(ChannelOf[j]) : j \in p.running[c]
<1> SUFFICES ASSUME NEW x \in Path(ChannelOf[j]), j \notin p.running[x] PROVE FALSE
  OBVIOUS
<1>1. x \in Tree /\ Root \in Path(x)
  BY OwnChannel, OnPath
<1> QED
  BY <1>1, NotFurther

\* At the ends of its way, a job lies where its state would put it.
LEMMA FlowsLies ==
  ASSUME NEW p, NEW j \in Jobs, Flows(p, j)
  PROVE  /\ j \in p.queued[ChannelOf[j]] => Lies(p, j, "pending")
         /\ j \in p.failed[ChannelOf[j]] => Lies(p, j, "failed")
         /\ j \in p.running[Root] => Lies(p, j, "running")
<1>1. ASSUME j \notin p.running[ChannelOf[j]]
      PROVE  \A c \in Tree : j \notin p.running[c] /\ (c # ChannelOf[j] => j \notin p.queued[c])
  BY <1>1, NotFurther, OwnChannel DEF Flows
<1>2. ASSUME j \in p.queued[ChannelOf[j]] PROVE Lies(p, j, "pending")
  <2>1. j \notin p.running[ChannelOf[j]]
    BY <1>2, OwnChannel DEF Flows
  <2> QED
    BY <1>1, <1>2, <2>1, OwnChannel DEF Flows, Lies
<1>3. ASSUME j \in p.failed[ChannelOf[j]] PROVE Lies(p, j, "failed")
  <2>1. j \notin p.running[ChannelOf[j]] /\ j \notin p.queued[ChannelOf[j]]
    BY <1>3, OwnChannel DEF Flows
  <2> QED
    BY <1>1, <1>3, <2>1, OwnChannel DEF Flows, Lies
<1>4. ASSUME j \in p.running[Root] PROVE Lies(p, j, "running")
  <2>1. \A c \in Path(ChannelOf[j]) : j \in p.running[c]
    BY <1>4, PassedAll
  <2> QED
    BY <2>1, OwnChannel DEF Flows, Lies
<1> QED
  BY <1>2, <1>3, <1>4

\* Sets of jobs per channel.
Sets == [Tree -> SUBSET Jobs]

\* Only the job j was moved.
OnlyMoves(p, q, j) ==
  /\ q.queued \in Sets /\ q.running \in Sets /\ q.failed \in Sets
  /\ \A i \in Jobs \ {j}, c \in Tree :
       /\ i \in q.queued[c] <=> i \in p.queued[c]
       /\ i \in q.running[c] <=> i \in p.running[c]
       /\ i \in q.failed[c] <=> i \in p.failed[c]

\* The others flow as before.
LEMMA OthersFlow ==
  ASSUME NEW p, NEW q, NEW j \in Jobs, OnlyMoves(p, q, j), NEW i \in Jobs \ {j}
  PROVE  /\ Flows(p, i) => Flows(q, i)
         /\ \A s : Known(p, i, s) => Known(q, i, s)
<1>1. \A c \in Tree :
        /\ i \in q.queued[c] <=> i \in p.queued[c]
        /\ i \in q.running[c] <=> i \in p.running[c]
        /\ i \in q.failed[c] <=> i \in p.failed[c]
  BY DEF OnlyMoves
<1>2. \A c \in Path(ChannelOf[i]) : c \in Tree
  BY OwnChannel
<1>3. \A c \in Path(ChannelOf[i]) \ {Root} : ParentOf[c] \in Tree
  BY <1>2, HasDepth
<1> QED
  BY <1>1, <1>2, <1>3, OwnChannel DEF Flows, Known

\* A job that is removed is nowhere, and nothing else moves.
LEMMA RemoveIs ==
  ASSUME NEW p, p.queued \in Sets, p.running \in Sets, p.failed \in Sets,
         NEW j \in Jobs, Flows(p, j)
  PROVE  OnlyMoves(p, Remove(p, j), j) /\ Lies(Remove(p, j), j, "ended")
BY DEF Remove, Drop, Sets, OnlyMoves, Lies, Flows

\* A job that is set to pending, or to failed, is in its own channel and nowhere else.
LEMMA PutIs ==
  ASSUME NEW p, p.queued \in Sets, p.running \in Sets, p.failed \in Sets,
         NEW j \in Jobs, Flows(p, j)
  PROVE  /\ OnlyMoves(p, SetPending(p, j), j) /\ Lies(SetPending(p, j), j, "pending")
         /\ OnlyMoves(p, SetFailed(p, j), j) /\ Lies(SetFailed(p, j), j, "failed")
<1> DEFINE r == Remove(p, j)
           own == ChannelOf[j]
<1>1. OnlyMoves(p, p, j)
  BY DEF OnlyMoves
<1>2. OnlyMoves(p, r, j) /\ Lies(r, j, "ended")
  BY RemoveIs
<1>3. r = [queued |-> r.queued, running |-> r.running, failed |-> r.failed]
  BY DEF Remove
<1> HIDE DEF r
<1>4. OnlyMoves(p, SetPending(p, j), j) /\ Lies(SetPending(p, j), j, "pending")
  <2>1. CASE j \in p.queued[own]
    BY <1>1, <2>1, FlowsLies DEF SetPending
  <2>2. CASE j \notin p.queued[own]
    <3>1. SetPending(p, j) = [r EXCEPT !.queued = Put(r.queued, {own}, j)]
      BY <2>2 DEF SetPending, r
    <3>2. SetPending(p, j) = [queued |-> Put(r.queued, {own}, j), running |-> r.running,
                              failed |-> r.failed]
      BY <1>3, <3>1
    <3> QED
      BY <1>2, <3>2, OwnChannel DEF Put, OnlyMoves, Lies, Sets
  <2> QED
    BY <2>1, <2>2
<1>5. OnlyMoves(p, SetFailed(p, j), j) /\ Lies(SetFailed(p, j), j, "failed")
  <2>1. CASE j \in p.failed[own]
    BY <1>1, <2>1, FlowsLies DEF SetFailed
  <2>2. CASE j \notin p.failed[own]
    <3>1. SetFailed(p, j) = [r EXCEPT !.failed = Put(r.failed, {own}, j)]
      BY <2>2 DEF SetFailed, r
    <3>2. SetFailed(p, j) = [queued |-> r.queued, running |-> r.running,
                             failed |-> Put(r.failed, {own}, j)]
      BY <1>3, <3>1
    <3> QED
      BY <1>2, <3>2, OwnChannel DEF Put, OnlyMoves, Lies, Sets
  <2> QED
    BY <2>1, <2>2
<1> QED
  BY <1>4, <1>5

\* A job that is running takes capacity all the way, or is nowhere.
LEMMA SetRunningIs ==
  ASSUME NEW p, p.queued \in Sets, p.running \in Sets, p.failed \in Sets,
         NEW j \in Jobs, Lies(p, j, "running") \/ Lies(p, j, "ended")
  PROVE  OnlyMoves(p, SetRunning(p, j), j) /\ Lies(SetRunning(p, j), j, "running")
<1> DEFINE path == Path(ChannelOf[j])
           up == {c \in path : \A d \in path : c \in Path(d) => j \notin p.running[d]}
<1>1. SetRunning(p, j) = [queued |-> Drop(p.queued, up, j), running |-> Put(p.running, up, j),
                          failed |-> Drop(p.failed, up, j)]
  BY DEF SetRunning
<1>2. path \subseteq Tree
  BY OwnChannel
<1>3. CASE Lies(p, j, "running")
  <2>1. up = {}
    BY <1>2, <1>3, OnPath DEF Lies
  <2> QED
    BY <1>1, <1>2, <1>3, <2>1 DEF Drop, Put, OnlyMoves, Lies, Sets
<1>4. CASE Lies(p, j, "ended")
  <2>1. up = path
    BY <1>2, <1>4 DEF Lies
  <2> QED
    BY <1>1, <1>2, <1>4, <2>1 DEF Drop, Put, OnlyMoves, Lies, Sets
<1> QED
  BY <1>3, <1>4

\* A notification moves its job to where its row says, unless the row waits; nothing else
\* is moved and no channel has more jobs that take capacity.
LEMMA NotifyIs ==
  ASSUME Types, NEW j \in Jobs, Flows(Placed, j), state[j] = "running" => j \in running[Root]
  PROVE  LET q == Notify(Placed, j) IN
         /\ OnlyMoves(Placed, q, j) /\ Flows(q, j)
         /\ state[j] # "wait" => Lies(q, j, state[j])
         /\ \A c \in Tree : q.running[c] \subseteq running[c]
<1> DEFINE p == Placed
           r == IF seenEta[j] # eta[j] THEN Remove(p, j) ELSE p
           q == Notify(Placed, j)
<1>1. p.queued = queued /\ p.running = running /\ p.failed = failed
  BY DEF Placed
<1>2. p.queued \in Sets /\ p.running \in Sets /\ p.failed \in Sets /\ Flows(p, j)
  BY <1>1 DEF Types, Sets
<1> HIDE DEF p
<1>3. OnlyMoves(p, r, j) /\ Flows(r, j) /\ (r = p \/ Lies(r, j, "ended"))
  <2>1. OnlyMoves(p, p, j)
    BY <1>2 DEF OnlyMoves
  <2>2. OnlyMoves(p, Remove(p, j), j) /\ Lies(Remove(p, j), j, "ended")
    BY <1>2, RemoveIs
  <2> QED
    BY <1>2, <2>1, <2>2, LiesFlows
<1> HIDE DEF r
<1>4. r.queued \in Sets /\ r.running \in Sets /\ r.failed \in Sets
  BY <1>3 DEF OnlyMoves
<1>5. q = CASE state[j] = "pending" -> SetPending(r, j)
            [] state[j] = "running" -> SetRunning(r, j)
            [] state[j] = "failed"  -> SetFailed(r, j)
            [] state[j] = "ended"   -> Remove(r, j)
            [] state[j] = "wait"    -> r
  BY DEF Notify, r, p
<1>6. state[j] \in States
  BY DEF Types
<1> HIDE DEF q
<1>7. OnlyMoves(r, q, j) /\ (state[j] # "wait" => Lies(q, j, state[j])) /\ (state[j] = "wait" => q = r)
  <2>1. CASE state[j] = "pending"
    BY <1>3, <1>4, <1>5, <2>1, PutIs
  <2>2. CASE state[j] = "failed"
    <3>1. q = SetFailed(r, j)
      BY <1>5, <2>2
    <3> QED
      BY <1>3, <1>4, <2>2, <3>1, PutIs
  <2>3. CASE state[j] = "ended"
    <3>1. q = Remove(r, j)
      BY <1>5, <2>3
    <3> QED
      BY <1>3, <1>4, <2>3, <3>1, RemoveIs
  <2>4. CASE state[j] = "wait"
    <3>1. q = r
      BY <1>5, <2>4
    <3> QED
      BY <1>4, <2>4, <3>1 DEF OnlyMoves
  <2>5. CASE state[j] = "running"
    <3>1. q = SetRunning(r, j)
      BY <1>5, <2>5
    <3>2. Lies(p, j, "running")
      BY <1>1, <1>2, <2>5, FlowsLies
    <3>3. Lies(r, j, "running") \/ Lies(r, j, "ended")
      BY <1>3, <3>2
    <3> QED
      BY <1>4, <2>5, <3>1, <3>3, SetRunningIs
  <2> QED
    BY <1>6, <2>1, <2>2, <2>3, <2>4, <2>5 DEF States
<1>8. Flows(q, j)
  BY <1>3, <1>7, LiesFlows
<1>9. OnlyMoves(p, q, j)
  BY <1>3, <1>7 DEF OnlyMoves
<1>10. \A c \in Tree : q.running[c] \subseteq running[c]
  <2>1. \A c \in Tree : q.running[c] \subseteq Jobs /\ running[c] \subseteq Jobs
    BY <1>1, <1>2, <1>9 DEF OnlyMoves, Sets
  <2>2. \A c \in Tree : j \in q.running[c] => j \in running[c]
    <3>1. CASE state[j] = "running"
      <4>1. Lies(p, j, "running")
        BY <1>1, <1>2, <3>1, FlowsLies
      <4> QED
        BY <1>1, <1>7, <3>1, <4>1 DEF Lies
    <3>2. CASE state[j] = "wait"
      BY <1>1, <1>3, <1>7, <3>2 DEF Lies
    <3>3. CASE state[j] \notin {"running", "wait"}
      BY <1>7, <3>3 DEF Lies
    <3> QED
      BY <3>1, <3>2, <3>3
  <2>3. \A i \in Jobs \ {j}, c \in Tree : i \in q.running[c] => i \in running[c]
    BY <1>1, <1>9 DEF OnlyMoves
  <2> QED
    BY <2>1, <2>2, <2>3
<1> QED
  BY <1>7, <1>8, <1>9, <1>10 DEF p, q

-----------------------------------------------------------------------------
(* The channels after a sweep                                              *)

\* Where all jobs are then.
After ==
  [queued |-> [c \in Tree |-> Full[c] \ Taken(c, Full[c])],
   running |-> [c \in Tree |-> running[c] \cup Taken(c, Full[c])],
   failed |-> failed]

\* What is in a queue during a sweep comes from the queues further up.
LEMMA FullHolds ==
  ASSUME Types, NEW j \in Jobs, Flows(Placed, j)
  PROVE  \A c \in Tree : j \in Full[c] =>
           /\ c \in Path(ChannelOf[j]) /\ j \notin running[c] \cup failed[c]
           /\ \E d \in Path(ChannelOf[j]) : j \in queued[d]
<1> DEFINE Good(c) == /\ c \in Path(ChannelOf[j]) /\ j \notin running[c] \cup failed[c]
                      /\ \E d \in Path(ChannelOf[j]) : j \in queued[d]
           T == {c \in Tree : j \in Full[c] => Good(c)}
<1>0. Placed.queued = queued /\ Placed.running = running /\ Placed.failed = failed
  BY DEF Placed
<1>1. ASSUME NEW c \in Tree, \A d \in Children(c) : d \in T
      PROVE  c \in T
  <2> SUFFICES ASSUME j \in Full[c] PROVE Good(c)
    OBVIOUS
  <2>1. CASE j \in queued[c]
    BY <1>0, <2>1 DEF Flows
  <2>2. CASE j \notin queued[c]
    <3>1. PICK d \in Children(c) : j \in Taken(d, Full[d])
      BY <2>2, FullIs
    <3>2. j \in Full[d]
      BY <3>1, TakenIs
    <3>3. Good(d)
      BY <1>1, <3>2
    <3>4. d \in Tree \ {Root} /\ ParentOf[d] = c
      BY DEF Children
    <3>5. j \notin running[c]
      BY <1>0, <3>3, <3>4 DEF Flows
    <3>6. c \in Path(ChannelOf[j]) /\ c # ChannelOf[j]
      BY <3>3, <3>4, OnPath, PathIsALine, OwnChannel
    <3>7. j \notin failed[c]
      BY <1>0, <3>6 DEF Flows
    <3> QED
      BY <3>3, <3>5, <3>6, <3>7
  <2> QED
    BY <2>1, <2>2
<1>2. T = Tree
  <2> HIDE DEF T
  <2>1. T \in SUBSET Tree
    BY DEF T
  <2> QED
    BY <1>1, <2>1, FromLeaves
<1> QED
  BY <1>2

\* A job in the queue of a channel is, after the sweep, in that of a channel further down,
\* or has been handed out.
LEMMA FullGoesOn ==
  ASSUME Types, NEW j \in Jobs, Flows(Placed, j)
  PROVE  \A c \in Tree : j \in Full[c] =>
           j \in HandedOut \/ \E d \in Path(ChannelOf[j]) : j \in Full[d] \ Taken(d, Full[d])
<1> DEFINE Good == j \in HandedOut \/ \E d \in Path(ChannelOf[j]) : j \in Full[d] \ Taken(d, Full[d])
           T == {c \in Tree : j \in Full[c] => Good}
<1>1. \A c \in Tree : j \in Full[c] => c \in Path(ChannelOf[j])
  BY FullHolds
<1>2. Root \in T
  BY <1>1, HasDepth DEF HandedOut
<1>3. ASSUME NEW c \in Tree \ {Root}, ParentOf[c] \in T PROVE c \in T
  <2> SUFFICES ASSUME j \in Full[c], j \in Taken(c, Full[c]) PROVE Good
    BY <1>1
  <2>1. c \in Children(ParentOf[c]) /\ ParentOf[c] \in Tree
    BY HasDepth DEF Children
  <2>2. j \in Full[ParentOf[c]]
    BY <2>1, FullIs
  <2> QED
    BY <1>3, <2>2
<1>4. T = Tree
  <2> HIDE DEF T
  <2>1. T \in SUBSET Tree
    BY DEF T
  <2> QED
    BY <1>2, <1>3, <2>1, FromRoot
<1> QED
  BY <1>4

\* A sweep passes jobs on, and loses none.
LEMMA AfterFlows ==
  ASSUME Types, NEW j \in Jobs, Flows(Placed, j)
  PROVE  /\ Flows(After, j)
         /\ j \in After.running[Root] <=> j \in running[Root] \/ j \in HandedOut
         /\ \A s : j \notin HandedOut /\ Known(Placed, j, s) => Known(After, j, s)
<1>0. Placed.queued = queued /\ Placed.running = running /\ Placed.failed = failed
  BY DEF Placed
<1>1. /\ \A c \in Tree : After.queued[c] = Full[c] \ Taken(c, Full[c])
      /\ \A c \in Tree : After.running[c] = running[c] \cup Taken(c, Full[c])
      /\ After.failed = failed
  BY DEF After
<1>2. \A c \in Tree : Taken(c, Full[c]) \subseteq Full[c]
  BY TakenIs
<1>3. \A c \in Tree : j \in Full[c] =>
        c \in Path(ChannelOf[j]) /\ j \notin running[c] \cup failed[c]
  BY FullHolds
<1>4. \A c \in Tree :
       /\ j \in After.queued[c] \cup After.running[c] \cup After.failed[c] => c \in Path(ChannelOf[j])
       /\ j \in After.queued[c] => j \notin After.running[c] \cup After.failed[c]
       /\ j \in After.failed[c] => j \notin After.running[c] /\ c = ChannelOf[j]
  BY <1>0, <1>1, <1>2, <1>3 DEF Flows
<1>5. ASSUME NEW c \in Path(ChannelOf[j]) \ {Root}
      PROVE  j \in After.running[c] <=> j \in After.queued[ParentOf[c]] \cup After.running[ParentOf[c]]
  <2> DEFINE up == ParentOf[c]
  <2>1. c \in Tree /\ up \in Tree /\ c \in Children(up)
    BY OwnChannel, HasDepth DEF Children
  <2>2. j \in running[c] <=> j \in queued[up] \cup running[up]
    BY <1>0 DEF Flows
  <2>3. j \in Taken(c, Full[c]) => j \in Full[up]
    BY <2>1, FullIs
  <2>4. ASSUME j \in Full[up] PROVE j \in running[c] \cup Taken(c, Full[c])
    <3>1. CASE j \in queued[up]
      BY <2>2, <3>1
    <3>2. CASE j \notin queued[up]
      <4>1. PICK d \in Children(up) : j \in Taken(d, Full[d])
        BY <2>1, <2>4, <3>2, FullIs
      <4>2. d \in Tree \ {Root} /\ ParentOf[d] = up /\ d \in Path(ChannelOf[j])
        BY <1>2, <1>3, <4>1 DEF Children
      <4>3. d = c
        BY <4>2, PathIsALine, OwnChannel
      <4> QED
        BY <4>1, <4>3
    <3> QED
      BY <3>1, <3>2
  <2>5. j \in After.queued[up] \cup After.running[up] <=> j \in Full[up] \cup running[up]
    BY <1>1, <1>2, <2>1
  <2>6. j \in queued[up] => j \in Full[up]
    BY <2>1, FullIs
  <2> QED
    BY <1>1, <2>1, <2>2, <2>3, <2>4, <2>5, <2>6
<1>6. Flows(After, j)
  BY <1>4, <1>5 DEF Flows
<1>7. j \in After.running[Root] <=> j \in running[Root] \/ j \in HandedOut
  BY <1>1, HasDepth DEF HandedOut
<1>8. ASSUME j \notin HandedOut
      PROVE  (\E c \in Path(ChannelOf[j]) : j \in queued[c])
               <=> (\E c \in Path(ChannelOf[j]) : j \in After.queued[c])
  <2>1. \A c \in Path(ChannelOf[j]) : c \in Tree
    BY OwnChannel
  <2>2. \A c \in Tree : j \in queued[c] => j \in Full[c]
    BY FullIs
  <2> QED
    BY <1>1, <1>8, <2>1, <2>2, FullGoesOn, FullHolds
<1>9. ASSUME NEW s, j \notin HandedOut, Known(Placed, j, s) PROVE Known(After, j, s)
  BY <1>0, <1>1, <1>7, <1>8, <1>9 DEF Known
<1> QED
  BY <1>6, <1>7, <1>9

-----------------------------------------------------------------------------
(* The inductive invariant                                                 *)

\* Each job flows; one that is enqueued or started has passed the root.
FlowInv ==
  \A j \in Jobs : Flows(Placed, j) /\ (state[j] = "running" => j \in running[Root])

\* Once its notifications were read, a job is where its row says.
KnownInv ==
  \A j \in Jobs \ notified : state[j] # "wait" => Known(Placed, j, state[j])

\* The channels do not count more jobs than they have capacity for.
RoomInv ==
  \A c \in Tree : Capacity[c] # 0 => Cardinality(running[c]) <= Capacity[c]

IInv == Types /\ FlowInv /\ KnownInv /\ RoomInv

\* What a manager without jobs makes of the rows.
LEMMA RebuiltIs ==
  ASSUME NEW s \in [Jobs -> States]
  PROVE  LET p == Rebuilt(s) IN
         /\ p.queued \in Sets /\ p.running \in Sets /\ p.failed \in Sets
         /\ \A j \in Jobs : Lies(p, j, s[j])
         /\ \A c \in Tree : p.running[c] = {j \in Jobs : s[j] = "running" /\ c \in Path(ChannelOf[j])}
BY DEF Rebuilt, Sets, Lies

\* A manager that was just built, at the start or when the connection was lost.
JustBuilt ==
  /\ state \in [Jobs -> States] /\ notified \subseteq Jobs
  /\ queued = Rebuilt(state).queued
  /\ running = Rebuilt(state).running
  /\ failed = Rebuilt(state).failed

\* It is right about all jobs.
LEMMA RebuiltInv == JustBuilt => Types /\ FlowInv /\ KnownInv
<1> SUFFICES ASSUME JustBuilt PROVE Types /\ FlowInv /\ KnownInv
  OBVIOUS
<1> DEFINE p == Rebuilt(state)
<1>1. Types
  BY RebuiltIs DEF JustBuilt, Types, Sets
<1>2. Placed = [queued |-> p.queued, running |-> p.running, failed |-> p.failed]
  BY DEF JustBuilt, Placed
<1>3. \A j \in Jobs : Lies(p, j, state[j])
  BY RebuiltIs DEF JustBuilt
<1>4. \A j \in Jobs : Lies(Placed, j, state[j])
  <2> HIDE DEF p
  <2> QED
    BY <1>2, <1>3 DEF Lies
<1>5. \A j \in Jobs : Flows(Placed, j) /\ Known(Placed, j, state[j])
  BY <1>4, LiesFlows
<1>6. Placed.running = running
  BY DEF Placed
<1>7. FlowInv
  BY <1>5, <1>6 DEF FlowInv, Known
<1>8. KnownInv
  BY <1>5 DEF KnownInv
<1> QED
  BY <1>1, <1>7, <1>8

\* The same after a step.
LEMMA RebuiltInvNext == (JustBuilt => Types /\ FlowInv /\ KnownInv)'
BY RebuiltInv, PTL

\* When the runner starts no job is running.
LEMMA InitIInv == Init => IInv
<1> SUFFICES ASSUME Init PROVE IInv
  OBVIOUS
<1>1. state \in [Jobs -> States] /\ \A j \in Jobs : state[j] # "running"
  BY DEF Init, States
<1>2. Types /\ FlowInv /\ KnownInv
  BY <1>1, RebuiltInv DEF Init, JustBuilt
<1>3. ASSUME NEW c \in Tree PROVE running[c] = {}
  BY <1>1, RebuiltIs DEF Init
<1>4. RoomInv
  <2>1. \A c \in Tree : Capacity[c] \in Nat
    BY ChannelsAssumption
  <2> QED
    BY <1>3, <2>1, FS_EmptySet DEF RoomInv
<1> QED
  BY <1>2, <1>4 DEF IInv

-----------------------------------------------------------------------------
(* The steps                                                               *)

\* The rows that are written are read later; the channels stay as they are.
LEMMA RowStep ==
  ASSUME IInv, NEW j \in Jobs, NEW s \in States \ {"running"}, Row(j, s)
  PROVE  IInv'
<1>1. /\ state' = [state EXCEPT ![j] = s] /\ notified' = notified \cup {j}
      /\ queued' = queued /\ running' = running /\ failed' = failed
  BY DEF Row, channelVars
<1>2. Placed' = Placed
  BY <1>1 DEF Placed
<1>3. Types'
  BY <1>1 DEF IInv, Types
<1>4. FlowInv'
  BY <1>1, <1>2 DEF IInv, FlowInv, Types
<1>5. KnownInv'
  BY <1>1, <1>2 DEF IInv, KnownInv, Types
<1>6. RoomInv'
  BY <1>1 DEF IInv, RoomInv
<1> QED
  BY <1>3, <1>4, <1>5, <1>6 DEF IInv

\* Reading a notification puts one job right.
LEMMA ReadStep ==
  ASSUME IInv, NEW j \in Jobs, ReadNotification(j)
  PROVE  IInv'
<1> DEFINE q == Notify(Placed, j)
<1>1. /\ queued' = q.queued /\ running' = q.running /\ failed' = q.failed
      /\ notified' = notified \ {j} /\ state' = state
  BY DEF ReadNotification, Place, rowVars
<1>2. /\ OnlyMoves(Placed, q, j) /\ Flows(q, j)
      /\ state[j] # "wait" => Lies(q, j, state[j])
      /\ \A c \in Tree : q.running[c] \subseteq running[c]
  BY NotifyIs DEF IInv, FlowInv
<1> HIDE DEF q
<1>3. Types'
  BY <1>1, <1>2 DEF IInv, Types, OnlyMoves, Sets
<1>4. Placed' = [queued |-> q.queued, running |-> q.running, failed |-> q.failed]
  BY <1>1 DEF Placed
<1>5. \A i \in Jobs : /\ Flows(Placed', i) <=> Flows(q, i)
                      /\ \A s : Known(Placed', i, s) <=> Known(q, i, s)
  BY <1>4 DEF Flows, Known
<1>6. ASSUME NEW i \in Jobs PROVE Flows(Placed', i)
  BY <1>2, <1>5, OthersFlow DEF IInv, FlowInv
<1>7. ASSUME NEW i \in Jobs, state'[i] = "running" PROVE i \in running'[Root]
  <2>1. CASE i = j
    BY <1>1, <1>2, <1>7, <2>1, OwnChannel DEF Lies
  <2>2. CASE i # j
    BY <1>1, <1>2, <1>7, <2>2, HasDepth DEF IInv, FlowInv, OnlyMoves, Placed
  <2> QED
    BY <2>1, <2>2
<1>8. FlowInv'
  BY <1>6, <1>7 DEF FlowInv
<1>9. KnownInv'
  <2> SUFFICES ASSUME NEW i \in Jobs \ notified', state'[i] # "wait"
               PROVE  Known(Placed', i, state'[i])
    BY DEF KnownInv
  <2>1. CASE i = j
    BY <1>1, <1>2, <1>5, <2>1, LiesFlows
  <2>2. CASE i # j
    <3>1. Known(Placed, i, state[i])
      BY <1>1, <2>2 DEF IInv, KnownInv
    <3> QED
      BY <1>1, <1>2, <1>5, <2>2, <3>1, OthersFlow
  <2> QED
    BY <2>1, <2>2
<1>10. RoomInv'
  <2> SUFFICES ASSUME NEW c \in Tree, Capacity[c] # 0
               PROVE  Cardinality(running'[c]) <= Capacity[c]
    BY DEF RoomInv
  <2>1. running'[c] \subseteq running[c]
    BY <1>1, <1>2
  <2>2. running[c] \subseteq Jobs /\ Cardinality(running[c]) <= Capacity[c]
    BY DEF IInv, Types, RoomInv
  <2>3. Capacity[c] \in Int
    BY ChannelsAssumption
  <2> QED
    BY <2>1, <2>2, <2>3, FewerFit
<1> QED
  BY <1>3, <1>8, <1>9, <1>10 DEF IInv

\* What is enqueued is what has passed the root.
LEMMA RunStep ==
  ASSUME IInv, RunJobs
  PROVE  IInv'
<1>1. /\ queued' = After.queued /\ running' = After.running /\ failed' = After.failed
      /\ state' = [j \in Jobs |-> IF j \in HandedOut THEN "running" ELSE state[j]]
      /\ notified' = notified \cup HandedOut
  BY DEF RunJobs, Swept, Enqueue, After
<1>2. HandedOut \subseteq Jobs /\ \A c \in Tree : Full[c] \subseteq Jobs
  BY FullIn DEF IInv
<1>3. Types'
  <2>1. \A c \in Tree : Taken(c, Full[c]) \subseteq Jobs
    BY <1>2, TakenIs
  <2> QED
    BY <1>1, <1>2, <2>1 DEF IInv, Types, States, After
<1>4. Placed' = After
  BY <1>1 DEF Placed, After
<1>5. \A j \in Jobs :
        /\ Flows(After, j)
        /\ j \in After.running[Root] <=> j \in running[Root] \/ j \in HandedOut
        /\ \A s : j \notin HandedOut /\ Known(Placed, j, s) => Known(After, j, s)
  BY AfterFlows DEF IInv, FlowInv
<1>6. FlowInv'
  BY <1>1, <1>4, <1>5 DEF IInv, FlowInv
<1>7. KnownInv'
  BY <1>1, <1>4, <1>5 DEF IInv, KnownInv
<1>8. RoomInv'
  <2> SUFFICES ASSUME NEW c \in Tree, Capacity[c] # 0
               PROVE  Cardinality(running'[c]) <= Capacity[c]
    BY DEF RoomInv
  <2>1. running'[c] = running[c] \cup Taken(c, Full[c])
    BY <1>1 DEF After
  <2> QED
    BY <1>2, <2>1, TakenFit DEF IInv, RoomInv
<1> QED
  BY <1>3, <1>6, <1>7, <1>8 DEF IInv

\* The jobs found enqueued after a restart had capacity, or would have got it in the sweep
\* the restart cut short.
LEMMA RestartStep ==
  ASSUME IInv, Restart
  PROVE  IInv'
<1>1. PICK js \in SUBSET HandedOut :
        state' = [j \in Jobs |-> IF j \in js THEN "running" ELSE state[j]]
  BY DEF Restart, First
<1>2. /\ queued' = Rebuilt(state').queued /\ running' = Rebuilt(state').running
      /\ failed' = Rebuilt(state').failed /\ notified' = {}
  BY DEF Restart, Place
<1>3. state' \in [Jobs -> States]
  BY <1>1 DEF IInv, Types, States
<1>4. JustBuilt'
  BY <1>2, <1>3 DEF JustBuilt
<1>5. Types' /\ FlowInv' /\ KnownInv'
  BY <1>4, RebuiltInvNext
<1>6. RoomInv'
  <2> SUFFICES ASSUME NEW c \in Tree, Capacity[c] # 0
               PROVE  Cardinality(running'[c]) <= Capacity[c]
    BY DEF RoomInv
  <2>1. running'[c] = {j \in Jobs : state'[j] = "running" /\ c \in Path(ChannelOf[j])}
    BY <1>2, <1>3, RebuiltIs
  <2>2. ASSUME NEW j \in running'[c] PROVE j \in running[c] \cup Taken(c, Full[c])
    <3>1. j \in Jobs /\ c \in Path(ChannelOf[j]) /\ (state[j] = "running" \/ j \in HandedOut)
      BY <1>1, <2>1, <2>2
    <3>2. Flows(After, j) /\ j \in After.running[Root]
      BY <3>1, AfterFlows DEF IInv, FlowInv
    <3>3. j \in After.running[c]
      BY <3>1, <3>2, PassedAll
    <3> QED
      BY <3>3 DEF After
  <2>3. Full[c] \subseteq Jobs
    BY FullIn DEF IInv
  <2>4. Cardinality(running[c] \cup Taken(c, Full[c])) <= Capacity[c]
    BY <2>3, TakenFit DEF IInv, RoomInv
  <2>5. Taken(c, Full[c]) \subseteq Jobs /\ running[c] \subseteq Jobs
    BY <2>3, TakenIs DEF IInv, Types
  <2>6. Capacity[c] \in Int
    BY ChannelsAssumption
  <2>7. running'[c] \subseteq running[c] \cup Taken(c, Full[c])
    BY <2>2
  <2> QED
    BY <2>4, <2>5, <2>6, <2>7, FewerFit
<1> QED
  BY <1>5, <1>6 DEF IInv

\* Every step.
LEMMA NextIInv == IInv /\ [Next]_vars => IInv'
<1> SUFFICES ASSUME IInv, [Next]_vars PROVE IInv'
  OBVIOUS
<1>1. ASSUME UNCHANGED <<state, notified, queued, running, failed>> PROVE IInv'
  <2>1. Placed' = Placed
    BY <1>1 DEF Placed
  <2> QED
    BY <1>1, <2>1 DEF IInv, Types, FlowInv, KnownInv, RoomInv
<1>2. ASSUME NEW j \in Jobs, ReadNotification(j) PROVE IInv'
  BY <1>2, ReadStep
<1>3. CASE RunJobs
  BY <1>3, RunStep
<1>4. CASE NoMoreNotifications \/ SetAlarm \/ WakeUp \/ Tick
  BY <1>1, <1>4 DEF NoMoreNotifications, SetAlarm, WakeUp, Tick, rowVars, channelVars
<1>5. CASE Restart
  BY <1>5, RestartStep
<1>6. ASSUME NEW j \in Jobs,
             End(j) \/ FailOrDie(j) \/ Postpone(j) \/ EndByUser(j) \/ Requeue(j) \/ ReleaseJob(j)
      PROVE  IInv'
  <2>1. \E s \in States \ {"running"} : Row(j, s)
    BY <1>6 DEF End, FailOrDie, Postpone, EndByUser, Requeue, AskAgain, ReleaseJob, States
  <2> QED
    BY <2>1, RowStep
<1>7. CASE UNCHANGED vars
  BY <1>1, <1>7 DEF vars, rowVars, channelVars
<1> QED
  BY <1>2, <1>3, <1>4, <1>5, <1>6, <1>7 DEF Next, Loop

\* The inductive invariant of the channels: where every job is, and that the channels
\* stay within their capacity.
THEOREM Invariance == Spec => []IInv
BY InitIInv, NextIInv, PTL DEF Spec

-----------------------------------------------------------------------------
(* What follows                                                            *)

\* However late the runner reads the rows and however often it restarts, the table never
\* has more jobs enqueued or started in a channel and its subchannels than the capacity
\* of the channel: each of them is counted by the channel, for any tree of channels.
THEOREM CapacityHolds == Spec => []CapacityHeld
<1>1. IInv => CapacityHeld
  <2> SUFFICES ASSUME IInv, NEW c \in Tree, Capacity[c] # 0
               PROVE  Cardinality({j \in Below(c) : state[j] = "running"}) <= Capacity[c]
    BY DEF CapacityHeld
  <2>1. ASSUME NEW j \in Jobs, state[j] = "running", c \in Path(ChannelOf[j])
        PROVE  j \in running[c]
    <3>1. Flows(Placed, j) /\ j \in Placed.running[Root]
      BY <2>1 DEF IInv, FlowInv, Placed
    <3>2. j \in Placed.running[c]
      BY <2>1, <3>1, PassedAll
    <3> QED
      BY <3>2 DEF Placed
  <2>2. {j \in Below(c) : state[j] = "running"} \subseteq running[c] /\ running[c] \subseteq Jobs
    BY <2>1 DEF Below, IInv, Types
  <2>3. Cardinality(running[c]) <= Capacity[c] /\ Capacity[c] \in Int
    BY ChannelsAssumption DEF IInv, RoomInv
  <2> QED
    BY <2>2, <2>3, FewerFit
<1> QED
  BY <1>1, Invariance, PTL

\* Channels are joined like pipes: a job is at one place in a channel, and takes capacity
\* in those it has passed and in no other; one that the runner has read the last notification
\* of is where its row says.
THEOREM FlowIsConserved == Spec => []FlowConserved
<1>1. IInv => FlowConserved
  <2> SUFFICES ASSUME IInv PROVE FlowConserved
    OBVIOUS
  <2>0. Placed.queued = queued /\ Placed.running = running /\ Placed.failed = failed
    BY DEF Placed
  <2>1. ASSUME NEW c \in Tree, NEW j \in Jobs
        PROVE  /\ j \in queued[c] \cup running[c] \cup failed[c] => j \in Below(c)
               /\ j \in queued[c] => j \notin running[c] \cup failed[c]
               /\ j \in failed[c] => j \notin running[c]
    BY <2>0 DEF IInv, FlowInv, Flows, Below
  <2>2. ASSUME NEW c \in Tree, NEW j \in Jobs
        PROVE  Cardinality({s \in {<<"q", queued>>, <<"r", running>>, <<"f", failed>>} :
                              j \in s[2][c]}) <= 1
    <3> DEFINE S == {s \in {<<"q", queued>>, <<"r", running>>, <<"f", failed>>} : j \in s[2][c]}
    <3>1. S = {} \/ \E s : S = {s}
      <4>1. CASE j \in queued[c]
        <5>1. S = {<<"q", queued>>}
          BY <2>1, <4>1
        <5> QED
          BY <5>1
      <4>2. CASE j \in running[c]
        <5>1. S = {<<"r", running>>}
          BY <2>1, <4>2
        <5> QED
          BY <5>1
      <4>3. CASE j \in failed[c]
        <5>1. S = {<<"f", failed>>}
          BY <2>1, <4>3
        <5> QED
          BY <5>1
      <4>4. CASE j \notin queued[c] \cup running[c] \cup failed[c]
        <5>1. S = {}
          BY <4>4
        <5> QED
          BY <5>1
      <4> QED
        BY <4>1, <4>2, <4>3, <4>4
    <3> HIDE DEF S
    <3>2. S = {} => Cardinality(S) = 0
      BY FS_EmptySet
    <3>3. (\E s : S = {s}) => Cardinality(S) = 1
      BY FS_Singleton
    <3>4. Cardinality(S) <= 1
      BY <3>1, <3>2, <3>3
    <3> QED
      BY <3>4 DEF S
  <2>3. ASSUME NEW c \in Tree, NEW j \in Jobs, c # Root, c \in Path(ChannelOf[j])
        PROVE  (j \in running[c]) = (j \in queued[ParentOf[c]] \cup running[ParentOf[c]])
    BY <2>0, <2>3 DEF IInv, FlowInv, Flows
  <2>4. ASSUME NEW j \in {i \in Jobs \ notified : state[i] # "wait"}
        PROVE  LET own == ChannelOf[j] IN
               /\ state[j] = "running" <=> j \in running[Root]
               /\ state[j] = "pending" <=> \E c \in Path(own) : j \in queued[c]
               /\ state[j] = "failed" <=> j \in failed[own]
    BY <2>0 DEF IInv, KnownInv, Known
  <2> QED
    BY <2>1, <2>2, <2>3, <2>4 DEF FlowConserved
<1> QED
  BY <1>1, Invariance, PTL

-----------------------------------------------------------------------------
(* Etas and wake-up times                                                  *)

\* Types of what tells the time; only channels with a throttle pause.
ClockInv ==
  /\ now \in Nat /\ eta \in [Jobs -> Nat] /\ seenEta \in [Jobs -> Nat]
  /\ pauseUntil \in [Tree -> Nat]
  /\ \A c \in Tree : Throttle[c] = 0 => pauseUntil[c] = 0

\* The first by eta of some jobs.
IsHead(h, js) ==
  h \in js /\ \A j \in js : \/ seenEta[h] < seenEta[j]
                            \/ seenEta[h] = seenEta[j] /\ Rank[h] <= Rank[j]

\* There is one.
LEMMA HeadExists ==
  ASSUME ClockInv, NEW js \in SUBSET Jobs, js # {}
  PROVE  \E h : IsHead(h, js)
<1> DEFINE U == {seenEta[j] : j \in js}
<1>1. PICK t \in U : \A u \in U : t <= u
  <2>1. U \in SUBSET Nat /\ U # {}
    BY DEF ClockInv
  <2> HIDE DEF U
  <2> QED
    BY <2>1, NatLeast
<1> DEFINE first == {j \in js : seenEta[j] = t}
           R == {Rank[j] : j \in first}
<1>2. PICK r \in R : \A u \in R : r <= u
  <2>1. R \in SUBSET Nat /\ R # {}
    BY <1>1, ChannelsAssumption
  <2> HIDE DEF R
  <2> QED
    BY <2>1, NatLeast
<1>3. PICK h \in first : Rank[h] = r
  BY <1>2
<1>4. \A j \in js : t <= seenEta[j] /\ t \in Int /\ seenEta[j] \in Int
  BY <1>1 DEF ClockInv
<1>5. \A j \in first : Rank[h] <= Rank[j]
  BY <1>2, <1>3
<1> QED
  BY <1>3, <1>4, <1>5 DEF IsHead

\* The first n of some jobs are fewer than n only where there are no more.
LEMMA FirstIsAll ==
  ASSUME NEW js \in SUBSET Jobs, NEW n \in Nat, Cardinality(First(js, n)) < n
  PROVE  First(js, n) = js
<1> SUFFICES ASSUME js \ First(js, n) # {} PROVE FALSE
  BY DEF First
<1> DEFINE R == {Rank[j] : j \in js \ First(js, n)}
           Before(j) == {i \in js : Rank[i] < Rank[j]}
<1>1. PICK r \in R : \A u \in R : r <= u
  <2>1. R \in SUBSET Nat /\ R # {}
    BY ChannelsAssumption
  <2> HIDE DEF R
  <2> QED
    BY <2>1, NatLeast
<1>2. PICK j \in js \ First(js, n) : Rank[j] = r
  BY <1>1
<1>3. \A i \in js : Rank[i] \in Int
  BY ChannelsAssumption
<1>4. Before(j) \subseteq First(js, n)
  BY <1>1, <1>2, <1>3
<1>5. IsFiniteSet(First(js, n))
  BY FirstAreFew
<1>6. IsFiniteSet(Before(j)) /\ Cardinality(Before(j)) <= Cardinality(First(js, n))
  BY <1>4, <1>5, FS_Subset
<1>7. Cardinality(Before(j)) \in Nat /\ Cardinality(First(js, n)) \in Nat
  BY <1>5, <1>6, FS_CardinalityType
<1>8. Cardinality(Before(j)) < n
  BY <1>6, <1>7
<1> QED
  BY <1>2, <1>8 DEF First

\* After a sweep: a job that is not due keeps its eta, one that is due in an open channel
\* has none any more.
SeenAfter ==
  seenEta' = [j \in Jobs |->
     IF \E c \in Tree : Open(c) /\ j \in Due(Full[c]) THEN 0 ELSE seenEta[j]]

\* What a job's eta is after a sweep.
LEMMA SeenIs ==
  ASSUME Types, ClockInv, SeenAfter, NEW c \in Tree, NEW j \in Full[c]
  PROVE  /\ j \in Due(Full[c]) /\ Open(c) => seenEta'[j] = 0
         /\ j \notin Due(Full[c]) => seenEta'[j] = seenEta[j] /\ seenEta[j] # 0
<1>1. j \in Jobs
  BY FullIn
<1>2. CASE j \in Due(Full[c])
  BY <1>1, <1>2 DEF SeenAfter
<1>3. CASE j \notin Due(Full[c])
  <2>1. ~(seenEta[j] <= now) /\ seenEta[j] \in Nat /\ now \in Nat
    BY <1>1, <1>3 DEF Due, ClockInv
  <2>2. \A d \in Tree : j \notin Due(Full[d])
    BY <2>1 DEF Due
  <2>3. seenEta[j] # 0
    BY <2>1
  <2> QED
    BY <1>1, <1>3, <2>2, <2>3 DEF SeenAfter
<1> QED
  BY <1>2, <1>3

\* The first by eta, behind which a sequential channel has the jobs that are due wait.
LEMMA BlockedIs ==
  ASSUME ClockInv, NEW js \in SUBSET Jobs
  PROVE  BlockedByEta(js) <=>
           \E h : IsHead(h, js \ Due(js)) /\ \A j \in Due(js) : Rank[h] < Rank[j]
BY DEF BlockedByEta, IsHead

-----------------------------------------------------------------------------
(* Sequential channels                                                     *)

\* The sweep does not let a job of a sequential channel overtake another that is due,
\* has failed or is the first by eta.
LEMMA SweepInOrder ==
  ASSUME IInv, ClockInv, RunJobs, NEW c \in Sequential, NEW j \in running'[c] \ running[c]
  PROVE  /\ failed'[c] = {}
         /\ \A i \in queued'[c] : Rank[i] < Rank[j] =>
              \E k \in queued'[c] :
                Rank[j] < Rank[k] /\ seenEta'[k] # 0 /\ seenEta'[k] < seenEta'[i]
<1> DEFINE full == Full[c]
           due == Due(full)
<1>1. /\ c \in Tree /\ Capacity[c] = 1 /\ Throttle[c] \in Nat
      /\ Types /\ full \in SUBSET Jobs
  BY ChannelsAssumption, FullIn DEF IInv
<1>2. /\ running'[c] = running[c] \cup Taken(c, full) /\ queued'[c] = full \ Taken(c, full)
      /\ failed' = failed /\ SeenAfter
  BY <1>1 DEF RunJobs, Swept, SeenAfter
<1> HIDE DEF full
<1>3. /\ Open(c) /\ ~BlockedByEta(full) /\ Taken(c, full) = First(due, Room(c))
      /\ j \in First(due, Room(c))
  BY <1>2 DEF Taken
<1>4. due \in SUBSET Jobs /\ due \subseteq full /\ IsFiniteSet(due) /\ j \in due
  <2>1. due \in SUBSET Jobs /\ due \subseteq full
    BY <1>1 DEF Due
  <2>2. j \in due
    BY <1>3 DEF First
  <2> QED
    BY <2>1, <2>2, FS_Subset, ChannelsAssumption
<1>5. Room(c) <= 1 /\ Room(c) \in Int
  <2>1. Cardinality(running[c]) \in Nat
    BY <1>1, FS_Subset, FS_CardinalityType, ChannelsAssumption DEF Types
  <2> QED
    BY <1>1, <2>1 DEF Room
<1>6. \A i \in Jobs : Rank[i] \in Nat
  BY ChannelsAssumption
<1> HIDE DEF due
<1>7. \A i \in due : ~(Rank[i] < Rank[j])
  <2> SUFFICES ASSUME NEW i \in due, Rank[i] < Rank[j] PROVE FALSE
    OBVIOUS
  <2> DEFINE before == {k \in due : Rank[k] < Rank[j]}
  <2>1. Cardinality(before) < Room(c)
    BY <1>3 DEF First
  <2>2. IsFiniteSet(before) /\ i \in before
    BY <1>4, FS_Subset
  <2> HIDE DEF before
  <2>3. Cardinality(before) \in Nat /\ Cardinality(before) # 0
    BY <2>2, FS_CardinalityType, FS_EmptySet
  <2> QED
    BY <1>5, <2>1, <2>3
<1>8. failed'[c] = {}
  BY <1>2, <1>3 DEF Open, HasCapacity
<1>9. ASSUME NEW i \in queued'[c], Rank[i] < Rank[j]
      PROVE  \E k \in queued'[c] :
               Rank[j] < Rank[k] /\ seenEta'[k] # 0 /\ seenEta'[k] < seenEta'[i]
  <2>1. i \in full \ due
    BY <1>2, <1>7, <1>9
  <2>2. PICK h : IsHead(h, full \ due)
    BY <1>1, <2>1, HeadExists
  <2>3. h \in full \ due /\ h \in Jobs /\ i \in Jobs /\ j \in Jobs
    BY <1>1, <1>4, <2>1, <2>2 DEF IsHead
  <2>4. PICK k \in due : ~(Rank[h] < Rank[k])
    BY <1>1, <1>3, <2>2, BlockedIs DEF due
  <2>5. Rank[j] < Rank[h]
    <3>1. Rank[j] <= Rank[k] /\ Rank[k] <= Rank[h] /\ k \in Jobs
      BY <1>4, <1>6, <1>7, <2>3, <2>4
    <3>2. h # k
      BY <2>3
    <3>3. Rank[k] # Rank[h]
      BY <2>3, <3>1, <3>2, ChannelsAssumption
    <3> QED
      BY <1>6, <2>3, <3>1, <3>3
  <2>6. seenEta'[h] = seenEta[h] /\ seenEta'[i] = seenEta[i] /\ seenEta[h] # 0
    BY <1>1, <1>2, <2>1, <2>3, SeenIs DEF full, due
  <2>7. seenEta[h] < seenEta[i]
    <3>1. seenEta[h] < seenEta[i] \/ Rank[h] <= Rank[i]
      BY <2>1, <2>2 DEF IsHead
    <3> QED
      BY <1>6, <1>9, <2>3, <2>5, <3>1
  <2>8. h \in queued'[c]
    <3>1. Taken(c, full) \subseteq due
      BY <1>3 DEF First
    <3> QED
      BY <1>2, <2>3, <3>1
  <2> QED
    BY <2>5, <2>6, <2>7, <2>8
<1> QED
  BY <1>8, <1>9

\* The clocks at the start,
LEMMA InitClock == Init => ClockInv
<1> SUFFICES ASSUME Init PROVE ClockInv
  OBVIOUS
<1>1. eta \in [Jobs -> Etas] /\ seenEta = eta /\ pauseUntil = [c \in Tree |-> 0] /\ now = 1
  BY DEF Init
<1>2. eta \in [Jobs -> Nat]
  BY <1>1, ChannelsAssumption
<1> QED
  BY <1>1, <1>2 DEF ClockInv

\* and after a step.
LEMMA NextClock == ClockInv /\ [Next]_vars => ClockInv'
<1> SUFFICES ASSUME ClockInv, [Next]_vars PROVE ClockInv'
  OBVIOUS
<1>1. CASE UNCHANGED <<now, eta, seenEta, pauseUntil>>
  BY <1>1 DEF ClockInv
<1>2. ASSUME NEW j \in Jobs, ReadNotification(j) PROVE ClockInv'
  BY <1>2 DEF ReadNotification, rowVars, ClockInv
<1>3. CASE RunJobs
  <2>1. SeenAfter /\ now' = now /\ eta' = eta
    BY <1>3 DEF RunJobs, Swept, SeenAfter
  <2>2. seenEta' \in [Jobs -> Nat]
    BY <2>1 DEF SeenAfter, ClockInv
  <2>3. pauseUntil' = [c \in Tree |->
          IF Throttle[c] = 0 \/ IsThrottled(c) THEN pauseUntil[c]
          ELSE IF Taken(c, Full[c]) # {} THEN now + Throttle[c] ELSE 0]
    BY <1>3 DEF RunJobs, Swept
  <2>4. \A c \in Tree : Throttle[c] \in Nat
    BY ChannelsAssumption
  <2> QED
    BY <2>1, <2>2, <2>3, <2>4 DEF ClockInv
<1>4. CASE NoMoreNotifications \/ SetAlarm \/ WakeUp
  BY <1>1, <1>4 DEF NoMoreNotifications, SetAlarm, WakeUp, rowVars, channelVars
<1>5. CASE Restart
  <2>1. /\ seenEta' = eta /\ eta' = eta /\ now' = now
        /\ pauseUntil' \in {pauseUntil, [c \in Tree |-> 0]}
    BY <1>5 DEF Restart
  <2> QED
    BY <2>1 DEF ClockInv
<1>6. CASE Tick
  BY <1>6 DEF Tick, rowVars, channelVars, ClockInv
<1>7. ASSUME NEW j \in Jobs,
             End(j) \/ FailOrDie(j) \/ Postpone(j) \/ EndByUser(j) \/ Requeue(j) \/ ReleaseJob(j)
      PROVE  ClockInv'
  <2>1. now' = now /\ seenEta' = seenEta /\ pauseUntil' = pauseUntil
    BY <1>7 DEF End, FailOrDie, Postpone, EndByUser, Requeue, AskAgain, ReleaseJob, Row, channelVars
  <2>2. eta' = eta \/ eta' = [eta EXCEPT ![j] = now + Delay]
    BY <1>7 DEF End, FailOrDie, Postpone, EndByUser, Requeue, AskAgain, ReleaseJob
  <2> QED
    BY <2>1, <2>2, ChannelsAssumption DEF ClockInv
<1>8. CASE UNCHANGED vars
  BY <1>1, <1>8 DEF vars, rowVars, channelVars
<1> QED
  BY <1>2, <1>3, <1>4, <1>5, <1>6, <1>7, <1>8 DEF Next, Loop

\* Of the actions, only a sweep makes the loop wait.
LEMMA OnlyRunWaits ==
  ASSUME ClockInv, [Next]_vars, phase' = "wait"
  PROVE  \/ RunJobs
         \/ /\ phase = "wait"
            /\ UNCHANGED <<queued, running, failed, seenEta, pauseUntil>>
<1>1. ASSUME NEW j \in Jobs, ReadNotification(j)
      PROVE  FALSE
  BY <1>1 DEF ReadNotification, loopVars
<1>2. ~NoMoreNotifications /\ ~WakeUp /\ ~Restart
  BY DEF NoMoreNotifications, WakeUp, Restart
<1>3. CASE SetAlarm
  BY <1>3 DEF SetAlarm, channelVars
<1>4. CASE Tick
  BY <1>4 DEF Tick, loopVars, channelVars
<1>5. ASSUME NEW j \in Jobs,
             End(j) \/ FailOrDie(j) \/ Postpone(j) \/ EndByUser(j) \/ Requeue(j) \/ ReleaseJob(j)
      PROVE  phase' = phase /\ UNCHANGED <<queued, running, failed, seenEta, pauseUntil>>
  BY <1>5 DEF End, FailOrDie, Postpone, EndByUser, Requeue, AskAgain, ReleaseJob, Row, channelVars, loopVars
<1>6. CASE UNCHANGED vars
  BY <1>6 DEF vars, channelVars, loopVars
<1> QED
  BY <1>1, <1>2, <1>3, <1>4, <1>5, <1>6 DEF Next, Loop

\* In a sequential channel no job starts after one that has failed, or overtakes one that
\* is due or first by eta, whatever the etas are.
THEOREM SequentialChannels == Spec => SequentialInOrder
<1>1. IInv /\ ClockInv /\ [Next]_vars =>
        [\A c \in Sequential : phase = "run" /\ phase' = "wait" =>
           \A j \in running'[c] \ running[c] :
             /\ failed'[c] = {}
             /\ \A i \in queued'[c] : Rank[i] < Rank[j] =>
                  \E k \in queued'[c] :
                    Rank[j] < Rank[k] /\ seenEta'[k] # 0 /\ seenEta'[k] < seenEta'[i]]_vars
  BY OnlyRunWaits, SweepInOrder
<1>2. Spec => []ClockInv
  BY InitClock, NextClock, PTL DEF Spec
<1> QED
  BY <1>1, <1>2, Invariance, PTL DEF Spec, SequentialInOrder

-----------------------------------------------------------------------------
(* No lost wakeup                                                          *)

\* Jobs that were due in the last sweep are behind the first by eta.
HeldBack(c) ==
  \E h : /\ IsHead(h, {j \in queued[c] : seenEta[j] # 0})
         /\ \A j \in queued[c] : seenEta[j] = 0 => Rank[h] < Rank[j]

\* A sweep has left nothing that could go on, but what time or a notification may free.
QuietInv ==
  phase = "wait" =>
    \A c \in Tree :
      HasCapacity(c) /\ pauseUntil[c] = 0 /\ (\E j \in queued[c] : seenEta[j] = 0) =>
        c \in Sequential /\ HeldBack(c)

\* The times an alarm can be set to.
Times == Nat \ {0}

\* The times at which a channel and those below it want to be asked again.
WakeStep(times, c) ==
  IF ~HasCapacity(c) THEN {}
  ELSE IF pauseUntil[c] # 0 THEN {pauseUntil[c]}
  ELSE {seenEta[j] : j \in {i \in queued[c] : seenEta[i] # 0}}
       \cup UNION {times[d] : d \in Children(c)}

\* There are such times, and the root's are those of the runner.
LEMMA WakeupTimesAre ==
  ASSUME Types, ClockInv
  PROVE  \E times \in [Tree -> SUBSET Times] :
           /\ WakeupTimes = times[Root]
           /\ \A c \in Tree : times[c] = WakeStep(times, c)
<1> DEFINE own(c) == IF ~HasCapacity(c) THEN {}
                     ELSE IF pauseUntil[c] # 0 THEN {pauseUntil[c]}
                     ELSE {seenEta[j] : j \in {i \in queued[c] : seenEta[i] # 0}}
           asks(c) == HasCapacity(c) /\ pauseUntil[c] = 0
           base == [c \in Tree |-> own(c)]
           pass == [d \in Tree |-> [ts \in SUBSET Times |->
                      IF d # Root /\ asks(ParentOf[d]) THEN ts ELSE {}]]
           Step(g, c) == WakeStep(g, c)
<1>0. \A c \in Tree : own(c) \in SUBSET Times
  BY DEF Types, ClockInv, Times
<1>1. base \in [Tree -> SUBSET Times]
  BY <1>0
<1>2. pass \in [Tree -> [SUBSET Times -> SUBSET Times]]
  OBVIOUS
<1>3. ASSUME NEW g \in [Tree -> SUBSET Times], NEW c \in Tree
      PROVE  base[c] \cup UNION {pass[d][g[d]] : d \in Children(c)} = Step(g, c)
  <2>1. \A d \in Children(c) : pass[d][g[d]] = IF asks(c) THEN g[d] ELSE {}
    BY DEF Children
  <2>2. base[c] = own(c)
    OBVIOUS
  <2> HIDE DEF pass, base
  <2>3. CASE asks(c)
    <3>1. {pass[d][g[d]] : d \in Children(c)} = {g[d] : d \in Children(c)}
      BY <2>1, <2>3
    <3> QED
      BY <2>2, <2>3, <3>1 DEF WakeStep
  <2>4. CASE ~asks(c)
    <3>1. UNION {pass[d][g[d]] : d \in Children(c)} = {}
      BY <2>1, <2>4
    <3>2. Step(g, c) = own(c)
      BY <2>4 DEF WakeStep
    <3> QED
      BY <2>2, <3>1, <3>2
  <2> QED
    BY <2>3, <2>4
<1> HIDE DEF base, pass
<1>4. PICK g \in [Tree -> SUBSET Times] : IsFromLeaves(g, base, pass)
  BY <1>1, <1>2, FromLeavesExists
<1>5. g = [c \in Tree |-> Step(g, c)]
  BY <1>3, <1>4 DEF IsFromLeaves
<1> DEFINE times == CHOOSE t : t = [c \in Tree |-> Step(t, c)]
<1>6. WakeupTimes = times[Root]
  BY DEF WakeupTimes, WakeStep
<1> HIDE DEF Step
<1>7. times = [c \in Tree |-> Step(times, c)]
  BY <1>5
<1> HIDE DEF times
<1>8. \A c \in Tree : times[c] = Step(times, c)
  BY <1>7
<1>9. \A c \in Tree : times[c] \in SUBSET Times
  <2> DEFINE T == {c \in Tree : times[c] \in SUBSET Times}
  <2>1. ASSUME NEW c \in Tree, \A d \in Children(c) : d \in T PROVE c \in T
    <3>1. times[c] \subseteq own(c) \cup UNION {times[d] : d \in Children(c)}
      BY <1>8 DEF Step, WakeStep
    <3>2. \A d \in Children(c) : times[d] \in SUBSET Times
      BY <2>1
    <3> QED
      BY <1>0, <3>1, <3>2
  <2>2. T = Tree
    <3> HIDE DEF T
    <3>1. T \in SUBSET Tree
      BY DEF T
    <3> QED
      BY <2>1, <3>1, FromLeaves
  <2> QED
    BY <2>2
<1>10. times \in [Tree -> SUBSET Times]
  BY <1>7, <1>9
<1> QED
  BY <1>6, <1>8, <1>10 DEF Step

\* The runner wakes up at the first of these times, or waits for a notification only.
AlarmInv ==
  phase = "wait" /\ alarm # -1 =>
    \/ WakeupTimes = {} /\ alarm = 0
    \/ alarm \in WakeupTimes /\ \A t \in WakeupTimes : alarm <= t

\* What a channel that is not throttled takes in a sweep that leaves it with capacity is
\* all there is.
LEMMA TakesAll ==
  ASSUME IInv, ClockInv, NEW c \in Tree, Open(c), c \in Sequential => ~BlockedByEta(Full[c]),
         Throttle[c] # 0 => Taken(c, Full[c]) = {},
         Capacity[c] # 0 => Cardinality(running[c] \cup Taken(c, Full[c])) < Capacity[c]
  PROVE  Taken(c, Full[c]) = Due(Full[c])
<1> DEFINE full == Full[c]
           due == Due(full)
           n == Room(c)
<1>1. full \in SUBSET Jobs /\ Types
  BY FullIn DEF IInv
<1>2. due \in SUBSET Jobs /\ due \subseteq full
  BY <1>1 DEF Due
<1>3. Taken(c, full) = First(due, n)
  BY DEF Taken
<1>4. Cardinality(running[c]) \in Nat /\ IsFiniteSet(running[c])
  BY <1>1, FS_Subset, FS_CardinalityType, ChannelsAssumption DEF Types
<1>5. Capacity[c] \in Nat /\ Throttle[c] \in Nat
  BY ChannelsAssumption
<1> HIDE DEF full, due
<1>6. CASE Throttle[c] # 0
  <2>1. n = 1 /\ First(due, 1) = {}
    BY <1>3, <1>6 DEF Room, full
  <2>2. Cardinality(First(due, 1)) < 1
    BY <2>1, FS_EmptySet
  <2> QED
    BY <1>2, <1>3, <2>1, <2>2, FirstIsAll DEF full, due
<1>7. CASE Throttle[c] = 0 /\ Capacity[c] = 0
  <2>1. n = Cardinality(Jobs) /\ n \in Nat /\ IsFiniteSet(Jobs)
    BY <1>7, FS_CardinalityType, ChannelsAssumption DEF Room
  <2>2. ASSUME NEW j \in due PROVE Cardinality({i \in due : Rank[i] < Rank[j]}) < n
    <3> DEFINE before == {i \in due : Rank[i] < Rank[j]}
    <3>1. Rank[j] \in Int /\ j \in Jobs
      BY <1>2, ChannelsAssumption
    <3>2. before \subseteq Jobs /\ j \notin before
      BY <1>2, <3>1
    <3> HIDE DEF before
    <3>3. Cardinality(before) <= n /\ (Cardinality(before) = n => before = Jobs)
      BY <2>1, <3>2, FS_Subset
    <3>4. Cardinality(before) \in Nat
      BY <2>1, <3>2, FS_Subset, FS_CardinalityType
    <3>5. Cardinality(before) < n
      BY <2>1, <3>1, <3>2, <3>3, <3>4
    <3> QED
      BY <3>5 DEF before
  <2>3. First(due, n) = due
    BY <2>2 DEF First
  <2> QED
    BY <1>3, <2>3 DEF full, due
<1>8. CASE Throttle[c] = 0 /\ Capacity[c] # 0
  <2> DEFINE t == Taken(c, full)
  <2>1. n = Capacity[c] - Cardinality(running[c]) /\ n \in Nat
    BY <1>4, <1>5, <1>8 DEF Room, Open, HasCapacity
  <2>2. IsFiniteSet(t)
    BY <1>2, <1>3, <2>1, FirstAreFew
  <2>3. running[c] \cap t = {}
    <3>1. \A j \in full : j \in Jobs /\ j \notin running[c]
      BY <1>1, FullHolds DEF IInv, FlowInv, full
    <3>2. t \subseteq full
      BY TakenIs
    <3> QED
      BY <3>1, <3>2
  <2> HIDE DEF t
  <2>4. Cardinality(running[c] \cup t) = Cardinality(running[c]) + Cardinality(t)
    <3>1. Cardinality(running[c] \cap t) = 0
      BY <2>3, FS_EmptySet
    <3>2. Cardinality(running[c] \cup t)
            = Cardinality(running[c]) + Cardinality(t) - Cardinality(running[c] \cap t)
      BY <1>4, <2>2, FS_Union
    <3>3. Cardinality(t) \in Nat
      BY <2>2, FS_CardinalityType
    <3> QED
      BY <1>4, <3>1, <3>2, <3>3
  <2>5. Cardinality(running[c] \cup t) < Capacity[c] /\ Cardinality(t) \in Nat
    BY <1>8, <2>2, FS_CardinalityType DEF t, full
  <2>6. Cardinality(t) < n
    BY <1>4, <1>5, <2>1, <2>4, <2>5
  <2>7. First(due, n) = due
    BY <1>2, <1>3, <2>1, <2>6, FirstIsAll DEF t
  <2> QED
    BY <1>3, <2>7 DEF full, due
<1> QED
  BY <1>6, <1>7, <1>8

\* After a sweep only time or a notification can free a job.
LEMMA SweepQuiet ==
  ASSUME IInv, IInv', ClockInv, RunJobs
  PROVE  QuietInv'
<1> SUFFICES ASSUME NEW c \in Tree, HasCapacity(c)', pauseUntil'[c] = 0,
                    NEW j \in queued'[c], seenEta'[j] = 0
             PROVE  c \in Sequential /\ HeldBack(c)'
  BY DEF QuietInv
<1> DEFINE full == Full[c]
           t == Taken(c, full)
<1>1. /\ running'[c] = running[c] \cup t /\ queued'[c] = full \ t
      /\ failed' = failed /\ SeenAfter
      /\ pauseUntil'[c] = IF Throttle[c] = 0 \/ IsThrottled(c) THEN pauseUntil[c]
                          ELSE IF t # {} THEN now + Throttle[c] ELSE 0
  BY DEF RunJobs, Swept, SeenAfter
<1>2. Types /\ full \in SUBSET Jobs /\ t \subseteq full
  BY FullIn, TakenIs DEF IInv
<1> HIDE DEF full, t
<1>3. Capacity[c] \in Nat /\ Throttle[c] \in Nat /\ now \in Nat
  BY ChannelsAssumption DEF ClockInv
<1>4. Cardinality(running[c]) <= Cardinality(running'[c])
      /\ Cardinality(running[c]) \in Nat /\ Cardinality(running'[c]) \in Nat
  <2>1. IsFiniteSet(running'[c])
    BY FS_Subset, ChannelsAssumption DEF IInv, Types
  <2> QED
    BY <1>1, <2>1, FS_Subset, FS_CardinalityType
<1>5. HasCapacity(c)
  BY <1>1, <1>3, <1>4 DEF HasCapacity
<1>6. ~IsThrottled(c) /\ (Throttle[c] # 0 => t = {})
  BY <1>1, <1>3 DEF IsThrottled
<1>7. Open(c)
  BY <1>5, <1>6 DEF Open
<1>8. c \in Sequential /\ BlockedByEta(full)
  <2> SUFFICES ASSUME c \in Sequential => ~BlockedByEta(full) PROVE FALSE
    OBVIOUS
  <2>1. Capacity[c] # 0 => Cardinality(running[c] \cup t) < Capacity[c]
    BY <1>1 DEF HasCapacity
  <2>2. t = Due(full)
    BY <1>6, <1>7, <2>1, TakesAll DEF full, t
  <2>3. j \in full /\ j \notin Due(full)
    BY <1>1, <2>2
  <2>4. seenEta'[j] = seenEta[j] /\ seenEta[j] # 0
    BY <1>1, <1>2, <2>3, SeenIs DEF full
  <2> QED
    BY <2>4
<1>9. PICK h : IsHead(h, full \ Due(full)) /\ \A i \in Due(full) : Rank[h] < Rank[i]
  BY <1>2, <1>8, BlockedIs
<1>10. t = {}
  BY <1>8 DEF Taken, t, full
<1>11. \A i \in full : /\ i \in Due(full) => seenEta'[i] = 0
                       /\ i \notin Due(full) => seenEta'[i] = seenEta[i] /\ seenEta[i] # 0
  BY <1>1, <1>2, <1>7, SeenIs DEF full
<1>12. {i \in queued'[c] : seenEta'[i] # 0} = full \ Due(full)
  BY <1>1, <1>10, <1>11
<1>13. IsHead(h, {i \in queued[c] : seenEta[i] # 0})'
  BY <1>9, <1>11, <1>12 DEF IsHead
<1>14. \A i \in queued'[c] : seenEta'[i] = 0 => Rank[h] < Rank[i]
  BY <1>1, <1>9, <1>11
<1> QED
  BY <1>8, <1>13, <1>14 DEF HeldBack

\* A job can only go on where the channel wants to be asked again by now.
LEMMA GoesOnInTime ==
  ASSUME IInv, ClockInv, QuietInv, phase = "wait",
         NEW times \in [Tree -> SUBSET Times], \A c \in Tree : times[c] = WakeStep(times, c)
  PROVE  \A c \in Tree : Taken(c, Full[c]) # {} => \E t \in times[c] : t <= now
<1> DEFINE Good(c) == Taken(c, Full[c]) # {} => \E t \in times[c] : t <= now
           T == {c \in Tree : Good(c)}
<1>1. ASSUME NEW c \in Tree, \A d \in Children(c) : d \in T PROVE Good(c)
  <2> SUFFICES ASSUME NEW j \in Taken(c, Full[c]) PROVE \E t \in times[c] : t <= now
    OBVIOUS
  <2>1. /\ Open(c) /\ (c \in Sequential => ~BlockedByEta(Full[c]))
        /\ j \in Full[c] /\ j \in Due(Full[c])
    BY DEF Taken, First, Due
  <2>2. HasCapacity(c) /\ ~IsThrottled(c) /\ times[c] = WakeStep(times, c)
    BY <2>1 DEF Open
  <2>3. Types /\ Full[c] \in SUBSET Jobs /\ Throttle[c] \in Nat /\ pauseUntil[c] \in Nat /\ now \in Nat
    BY FullIn, ChannelsAssumption DEF IInv, ClockInv
  <2>4. CASE pauseUntil[c] # 0
    <3>1. times[c] = {pauseUntil[c]}
      BY <2>2, <2>4 DEF WakeStep
    <3>2. Throttle[c] # 0
      BY <2>4 DEF ClockInv
    <3>3. pauseUntil[c] <= now
      BY <2>2, <2>3, <2>4, <3>2 DEF IsThrottled
    <3> QED
      BY <3>1, <3>3
  <2>5. CASE pauseUntil[c] = 0
    <3>1. times[c] = {seenEta[i] : i \in {k \in queued[c] : seenEta[k] # 0}}
                     \cup UNION {times[d] : d \in Children(c)}
      BY <2>2, <2>5 DEF WakeStep
    <3>2. CASE \E d \in Children(c) : Taken(d, Full[d]) # {}
      BY <1>1, <3>1, <3>2
    <3>3. CASE \A d \in Children(c) : Taken(d, Full[d]) = {}
      <4>1. Full[c] = queued[c]
        <5>1. UNION {Taken(d, Full[d]) : d \in Children(c)} = {}
          BY <3>3
        <5> QED
          BY <2>3, <5>1, FullIs
      <4>2. ASSUME NEW i \in queued[c], seenEta[i] # 0, i \in Due(queued[c])
            PROVE  \E t \in times[c] : t <= now
        BY <3>1, <4>2 DEF Due
      <4>3. ASSUME \A i \in queued[c] : i \in Due(queued[c]) => seenEta[i] = 0
            PROVE  FALSE
        <5>1. \A i \in queued[c] : i \in Due(queued[c]) <=> seenEta[i] = 0
          <6>1. \A i \in queued[c] : seenEta[i] = 0 => seenEta[i] <= now
            BY <2>3
          <6> QED
            BY <4>3, <6>1 DEF Due
        <5>2. c \in Sequential /\ HeldBack(c)
          BY <2>1, <2>2, <2>5, <4>1, <4>3 DEF QuietInv
        <5>3. {k \in queued[c] : seenEta[k] # 0} = queued[c] \ Due(queued[c])
          BY <5>1
        <5>4. PICK h : /\ IsHead(h, queued[c] \ Due(queued[c]))
                       /\ \A i \in queued[c] : seenEta[i] = 0 => Rank[h] < Rank[i]
          BY <5>2, <5>3 DEF HeldBack
        <5>5. \A i \in Due(queued[c]) : i \in queued[c]
          BY DEF Due
        <5>6. BlockedByEta(queued[c])
          BY <2>3, <4>1, <5>1, <5>4, <5>5, BlockedIs
        <5> QED
          BY <2>1, <4>1, <5>2, <5>6
      <4> QED
        BY <4>2, <4>3
    <3> QED
      BY <3>2, <3>3
  <2> QED
    BY <2>4, <2>5
<1>2. T = Tree
  <2> HIDE DEF Good
  <2>1. T \in SUBSET Tree /\ \A c \in Tree : (\A d \in Children(c) : d \in T) => c \in T
    BY <1>1
  <2> HIDE DEF T
  <2> QED
    BY <2>1, FromLeaves
<1> QED
  BY <1>2

\* The alarm is the least of the times the channels asked for.
LEMMA AlarmStep ==
  ASSUME Types, ClockInv, AlarmInv, [Next]_vars
  PROVE  AlarmInv'
<1> SUFFICES ASSUME phase' = "wait", alarm' # -1
             PROVE  \/ WakeupTimes' = {} /\ alarm' = 0
                    \/ alarm' \in WakeupTimes' /\ \A t \in WakeupTimes' : alarm' <= t
  BY DEF AlarmInv
<1>1. phase = "wait" /\ UNCHANGED <<queued, running, failed, seenEta, pauseUntil>>
  BY OnlyRunWaits DEF RunJobs
<1>2. WakeupTimes' = WakeupTimes
  BY <1>1 DEF WakeupTimes, HasCapacity
<1>3. CASE SetAlarm
  <2>1. alarm' = IF WakeupTimes = {} THEN 0 ELSE Min(WakeupTimes)
    BY <1>3 DEF SetAlarm
  <2>2. WakeupTimes \in SUBSET Nat
    BY WakeupTimesAre, HasDepth DEF Times
  <2>3. CASE WakeupTimes # {}
    <3> DEFINE W == WakeupTimes
    <3> HIDE DEF W
    <3>1. W \in SUBSET Nat /\ W # {} /\ alarm' = Min(W)
      BY <2>1, <2>2, <2>3 DEF W
    <3>2. \E n \in W : \A m \in W : n <= m
      BY <3>1, NatLeast
    <3>3. Min(W) \in W /\ \A m \in W : Min(W) <= m
      BY <3>2 DEF Min
    <3> QED
      BY <1>2, <3>1, <3>3 DEF W
  <2> QED
    BY <1>2, <2>1, <2>3
<1>4. CASE alarm' = alarm
  BY <1>1, <1>2, <1>4 DEF AlarmInv
<1>5. SetAlarm \/ alarm' = alarm
  <2>1. ~RunJobs /\ ~WakeUp /\ ~Restart /\ ~NoMoreNotifications
    BY DEF RunJobs, WakeUp, Restart, NoMoreNotifications
  <2>2. ASSUME NEW j \in Jobs, ReadNotification(j) PROVE alarm' = alarm
    BY <2>2 DEF ReadNotification, loopVars
  <2>3. Tick => alarm' = alarm
    BY DEF Tick, loopVars
  <2>4. ASSUME NEW j \in Jobs,
               End(j) \/ FailOrDie(j) \/ Postpone(j) \/ EndByUser(j) \/ Requeue(j) \/ ReleaseJob(j)
        PROVE  alarm' = alarm
    BY <2>4 DEF End, FailOrDie, Postpone, EndByUser, Requeue, AskAgain, ReleaseJob, Row, loopVars
  <2>5. UNCHANGED vars => alarm' = alarm
    BY DEF vars, loopVars
  <2> QED
    BY <2>1, <2>2, <2>3, <2>4, <2>5 DEF Next, Loop
<1> QED
  BY <1>3, <1>4, <1>5

\* While the loop waits, the channels stay as the sweep left them.
LEMMA QuietStep ==
  ASSUME IInv, IInv', ClockInv, QuietInv, [Next]_vars
  PROVE  QuietInv'
<1>1. CASE phase' # "wait"
  BY <1>1 DEF QuietInv
<1>2. CASE phase' = "wait" /\ RunJobs
  BY <1>2, SweepQuiet
<1>3. CASE phase' = "wait" /\ ~RunJobs
  <2>1. phase = "wait" /\ UNCHANGED <<queued, running, failed, seenEta, pauseUntil>>
    BY <1>3, OnlyRunWaits
  <2>2. \A c \in Tree : (HasCapacity(c)' <=> HasCapacity(c)) /\ (HeldBack(c)' <=> HeldBack(c))
    BY <2>1 DEF HasCapacity, HeldBack, IsHead
  <2> QED
    BY <1>3, <2>1, <2>2 DEF QuietInv
<1> QED
  BY <1>1, <1>2, <1>3

\* No lost wakeup: a runner that has set its alarm and waits, with no notification to
\* read, either has nothing to hand out or has an alarm that is due.
THEOREM NoLostWakeup == Spec => []SleepsOnlyWhenIdle
<1> DEFINE Inv == ClockInv /\ QuietInv /\ AlarmInv
<1>1. Init => Inv
  BY InitClock DEF Init, QuietInv, AlarmInv
<1>2. IInv /\ IInv' /\ Inv /\ [Next]_vars => Inv'
  BY NextClock, QuietStep, AlarmStep DEF IInv
<1>3. IInv /\ Inv => SleepsOnlyWhenIdle
  <2> SUFFICES ASSUME IInv, Inv, phase = "wait", alarm # -1, HandedOut # {}
               PROVE  alarm # 0 /\ alarm <= now
    BY DEF SleepsOnlyWhenIdle
  <2>1. PICK times \in [Tree -> SUBSET Times] :
          WakeupTimes = times[Root] /\ \A c \in Tree : times[c] = WakeStep(times, c)
    BY WakeupTimesAre DEF IInv
  <2>2. PICK t \in times[Root] : t <= now
    BY <2>1, GoesOnInTime, HasDepth DEF HandedOut
  <2>3. alarm \in WakeupTimes /\ alarm <= t
    BY <2>1, <2>2 DEF AlarmInv
  <2>4. alarm \in Times /\ t \in Times /\ now \in Nat
    BY <2>1, <2>2, <2>3, HasDepth DEF ClockInv
  <2> QED
    BY <2>2, <2>3, <2>4 DEF Times
<1>4. Spec => []Inv
  <2> HIDE DEF Inv
  <2> QED
    BY <1>1, <1>2, Invariance, PTL DEF Spec
<1> QED
  BY <1>3, <1>4, Invariance, PTL
=============================================================================
