----------------------------- MODULE DelayGraph -----------------------------
(***************************************************************************)
(* Composing jobs with chain(), group() and on_done(), and what delay()    *)
(* makes of it (queue_job/delay.py).  A caller nests Delayables, chains    *)
(* and groups; delay() flattens them into dependencies between jobs, which *)
(* it stores, or finds in the table by their identity keys, or performs at *)
(* once in tests.                                                          *)
(***************************************************************************)
EXTENDS Integers, FiniteSets, Sequences, Functions

CONSTANTS
  Delayables,    \* the jobs that are composed
  KeyedSets,     \* which of them may have an identity key
  DeepEnds,      \* whether a chain may begin or end with a chain
  MaxComposites, \* bound: chains and groups
  MaxOnDone      \* bound: calls of on_done

\* The other objects, chains and groups, are known by numbers.
ASSUME DelayGraphAssumption ==
  /\ IsFiniteSet(Delayables) /\ Delayables \cap Nat = {}
  /\ KeyedSets \subseteq SUBSET Delayables
  /\ DeepEnds \in BOOLEAN
  /\ MaxComposites \in Nat /\ MaxOnDone \in Nat

VARIABLES
  keyed,     \* the jobs with an identity key
  made,      \* the chains and groups, in the order of their creation
  onDone,    \* the arguments of on_done, per object
  existing,  \* jobs whose key is that of a job to be executed in the table
  top,       \* the object delay() was called on
  edges,     \* dependencies <<parent, child>> of the graph of top
  rows,      \* jobs created in the table
  handles,   \* Delayables whose _generated_job is a job of the table
  todo,      \* direct execution: dependencies not yet executed, per job
  ready, executed

keyVars == <<keyed, existing>>
graphVars == <<made, onDone>>
directVars == <<todo, ready, executed>>
delayVars == <<keyVars, graphVars, top, edges, rows, handles, directVars>>

Nothing == 0
Composites == 1 .. Len(made)
Objects == Delayables \cup Composites
AllObjects == Delayables \cup 1 .. MaxComposites

Members(o) == IF o \in Delayables THEN {} ELSE Range(made[o].items)

-----------------------------------------------------------------------------
(* The graph of each object, and how they are connected                    *)

\* The edges of the _graph of an object: __init__ and on_done
Edges(o) ==
  IF o \in Delayables THEN {o} \X onDone[o]
  ELSE LET items == made[o].items IN
       IF made[o].kind = "chain"
       THEN {<<items[i], items[i + 1]>> : i \in 1 .. Len(items) - 1}
            \cup {items[Len(items)]} \X onDone[o]
       ELSE Range(items) \X onDone[o]

\* _head and _tail.  Those of a chain are the tails of its first and the heads
\* of its last item.
Ends[o \in Objects] ==
  IF o \in Delayables THEN [head |-> {o}, tail |-> {o}]
  ELSE IF made[o].kind = "group"
  THEN [head |-> UNION {Ends[i].head : i \in Members(o)},
        tail |-> UNION {Ends[i].tail : i \in Members(o)}]
  ELSE [head |-> Ends[made[o].items[1]].tail,
        tail |-> Ends[made[o].items[Len(made[o].items)]].head]

\* MUTANT: the graphs of the members are not visited.
VisitedFromTop(o) == {o} \cup Members(o) \cup onDone[o]

\* The objects whose graphs _connect_graphs visits from that of o
Visited(o) ==
  LET visit[n \in 0 .. Cardinality(Objects)] ==
        IF n = 0 THEN {o}
        ELSE visit[n - 1] \cup UNION {Members(x) \cup onDone[x] : x \in visit[n - 1]}
  IN  visit[Cardinality(Objects)]

\* _merge_graph of all of them
Connected(o) ==
  UNION {Ends[e[1]].tail \X Ends[e[2]].head :
           e \in UNION {Edges(x) : x \in Visited(o)}}

Vertices(o) == Visited(o) \cap Delayables

-----------------------------------------------------------------------------
(* The caller                                                              *)

InitGraph ==
  /\ made = <<>>
  /\ onDone = [o \in AllObjects |-> {}]
  /\ keyed \in KeyedSets /\ existing \in SUBSET keyed
  /\ top = Nothing
  /\ edges = {} /\ rows = {} /\ handles = {}
  /\ todo = [j \in Delayables |-> 0] /\ ready = {} /\ executed = {}

\* Nothing is put in two places.
Unused(o) == \A x \in Objects : o \notin Members(x) \cup onDone[x]

\* The ends of chains are jobs or groups of jobs, unless DeepEnds.
Shallow(o) == o \in Composites => made[o].kind = "group" /\ Members(o) \subseteq Delayables

Compose(kind, items) ==
  /\ top = Nothing /\ Len(made) < MaxComposites
  /\ \A i \in 1 .. Len(items) : Unused(items[i])
  /\ IsInjective(items)
  /\ kind = "chain" => DeepEnds \/ (Shallow(items[1]) /\ Shallow(items[Len(items)]))
  /\ made' = Append(made, [kind |-> kind, items |-> items])
  /\ UNCHANGED <<keyVars, onDone, top, edges, rows, handles, directVars>>

OnDone(x, y) ==
  /\ top = Nothing
  /\ Cardinality({p \in Objects \X Objects : p[2] \in onDone[p[1]]}) < MaxOnDone
  /\ Unused(y) /\ x \notin Visited(y)
  /\ onDone' = [onDone EXCEPT ![x] = @ \cup {y}]
  /\ UNCHANGED <<keyVars, made, top, edges, rows, handles, directVars>>

\* job_record_with_same_identity_key: a job to be executed is there already.
SameKey(j) == j \in keyed \cap existing

\* MUTANT: one job that exists already is enough to store nothing.
AllExistIfOne(js) == \E j \in js : SameKey(j)

\* delay: "If all the jobs of the graph have another job with the same
\* identity, we do not create them"; jobs without a key are passed over.
AllExist(js) == js \cap keyed # {} /\ \A j \in js \cap keyed : SameKey(j)

\* _ensure_same_graph_uuid: those of the jobs that get the graph_uuid they share
InGraph(js) == IF Cardinality(js) > 1 THEN js ELSE {}

\* DelayableGraph.delay on the top-level object.  The loop that replaces the
\* generated jobs by the existing ones returns after the first of them.
DelayTop(o) ==
  LET js == Vertices(o) IN
  /\ top = Nothing /\ Unused(o)
  /\ top' = o
  /\ edges' = Connected(o)
  /\ IF AllExist(js)
     THEN (\E j \in js \cap keyed : handles' = {j}) /\ UNCHANGED rows
     ELSE rows' = js /\ handles' = js
  /\ UNCHANGED <<keyVars, graphVars, directVars>>

\* _compute_dependency_graph: what the form of job j of the table shows.  Both sides
\* of each dependency are stored.
GraphShown(j) ==
  LET nodes == IF j \in InGraph(rows) THEN rows ELSE {}
  IN  [nodes |-> nodes, edges |-> {e \in edges : e[1] \in nodes /\ e[2] \in nodes}]

Degree(es, j) == Cardinality({e \in es : e[2] = j})

\* delay where jobs must run without delay: _execute_graph_direct
DelayDirectly(o) ==
  /\ top = Nothing /\ Unused(o)
  /\ top' = o
  /\ edges' = Connected(o)
  /\ todo' = [j \in Delayables |-> Degree(Connected(o), j)]
  /\ ready' = {j \in Vertices(o) : Degree(Connected(o), j) = 0}
  /\ UNCHANGED <<keyVars, graphVars, rows, handles, executed>>

\* The dependencies of child left to do once j has been executed
LeftAfter(j, child) == todo[child] - 1

\* topological_sort, one vertex; the order of the queue is left open.
ExecuteDirectly(j) ==
  LET left == [c \in {e[2] : e \in {f \in edges : f[1] = j}} |-> LeftAfter(j, c)] IN
  /\ j \in ready
  /\ executed' = executed \cup {j}
  /\ todo' = [c \in Delayables |-> IF c \in DOMAIN left THEN left[c] ELSE todo[c]]
  /\ ready' = (ready \ {j}) \cup {c \in DOMAIN left : left[c] = 0}
  /\ UNCHANGED <<keyVars, graphVars, top, edges, rows, handles>>

NextGraph ==
  \/ \E kind \in {"chain", "group"}, n \in 2 .. 3 :
       \E items \in [1 .. n -> Objects] : Compose(kind, items)
  \/ \E x, y \in Objects : OnDone(x, y)
  \/ \E o \in Objects : DelayTop(o) \/ DelayDirectly(o)
  \/ \E j \in Delayables : ExecuteDirectly(j)

SpecGraph == InitGraph /\ [][NextGraph]_delayVars

-----------------------------------------------------------------------------
(* Properties                                                              *)

\* The jobs an object consists of
Leaves[o \in Objects] ==
  IF o \in Delayables THEN {o} ELSE UNION {Leaves[i] : i \in Members(o)}

\* job i cannot run before job j has: it is among what depends on j, or on that, and so on.
After(j, i) ==
  \A S \in SUBSET Delayables :
    (\A e \in edges : e[1] \in S \cup {j} => e[2] \in S) => i \in S

\* delay.py:35-39, 299-309: the items of a chain are executed in sequence, what
\* comes after a chain or a group only after the whole of it: whatever the
\* nesting, all jobs of one item come before all jobs of the next.
OrderKept ==
  top # Nothing =>
    \A e \in UNION {Edges(x) : x \in Visited(top)} :
      \A j \in Leaves[e[1]], i \in Leaves[e[2]] : After(j, i)

\* delay.py:266: every job of the graph is in the table after delay(), created now
\* or equivalent to one that was there, and shown with all dependencies there are; or,
\* performed at once, each is performed, in the order the runner would respect, none
\* before its dependencies.
NothingDropped ==
  /\ handles # {} => Vertices(top) \subseteq rows \cup existing
  /\ \A j \in rows : edges # {} => GraphShown(j) = [nodes |-> Vertices(top), edges |-> edges]
  /\ top # Nothing /\ (ready # {} \/ executed # {}) =>
       /\ \A e \in edges : e[2] \in executed \cup ready => e[1] \in executed
       /\ ready = {} => executed = Vertices(top)
=============================================================================
