--------------------------- MODULE InvoicingProofs ---------------------------
(***************************************************************************)
(* Proofs about Receipts and Billing.  Both are about amounts that are     *)
(* sums over finite sets, of moves and of invoices, so that they share the *)
(* lemmas about sums that come first.                                      *)
(*                                                                         *)
(* Receipts, for every order: any transfers, returns, scraps and added     *)
(* moves, any quantities and any bounds.  Billing, for every customer: any *)
(* invoices, credit notes, amounts, dates, tax differences and billings.   *)
(***************************************************************************)
EXTENDS Receipts, Billing, FiniteSetTheorems, TLAPS

-----------------------------------------------------------------------------
(***************************************************************************)
(* Sums over finite sets.  Total takes the elements in an order that       *)
(* CHOOSE gives; it does not matter which.                                 *)
(***************************************************************************)

\* A property that a subset of X has when its subsets without one element have it, is one
\* of all.
LEMMA SubsetInduct ==
  ASSUME NEW X, IsFiniteSet(X), NEW T,
         \A S \in SUBSET X : (\A x \in S : S \ {x} \in T) => S \in T
  PROVE  \A S \in SUBSET X : S \in T
<1> SUFFICES ASSUME NEW S \in SUBSET X, S \notin T PROVE FALSE
  OBVIOUS
<1> DEFINE U == {s \in SUBSET X : s \notin T}
<1>1. U \subseteq FiniteSubsetsOf(X)
  BY FS_Subset DEF FiniteSubsetsOf
<1>2. PICK s \in U : \A t \in U : ~(<<t, s>> \in StrictSubsetOrdering(X))
  <2>1. U # {}
    OBVIOUS
  <2> HIDE DEF U
  <2> QED
    BY <1>1, <2>1, FS_StrictSubsetOrderingWellFounded, WFMin
<1>3. \A x \in s : <<s \ {x}, s>> \in StrictSubsetOrdering(X)
  BY DEF StrictSubsetOrdering
<1> QED
  BY <1>2, <1>3

Some(s) == CHOOSE x \in s : TRUE

\* What Total makes of s, when g has the totals of smaller sets.
SumStep(f, g, s) == IF s = {} THEN 0 ELSE f[Some(s)] + g[s \ {Some(s)}]
IsSum(f, g, S) == g = [s \in SUBSET S |-> SumStep(f, g, s)]

\* The element that CHOOSE gives is one.
LEMMA SomeIn == \A s : s # {} => Some(s) \in s
BY DEF Some

\* Total is the value of some function that sums up.
LEMMA TotalIs == \A f, S : Total(f, S) = (CHOOSE g : IsSum(f, g, S))[S]
BY DEF Total, MapThenSumSet, MapThenFoldSet, IsSum, SumStep, Some

\* A function that sums up is Total, for all the sets it is defined on.
LEMMA SumIsTotal ==
  ASSUME NEW X, IsFiniteSet(X), NEW f, NEW S \in SUBSET X, NEW g, IsSum(f, g, S),
         NEW s \in SUBSET S
  PROVE  Total(f, s) = g[s]
<1> DEFINE h == [t \in SUBSET s |-> g[t]]
           iter == CHOOSE it : IsSum(f, it, s)
           T == {t \in SUBSET s : iter[t] = g[t]}
<1>1. IsFiniteSet(s)
  BY FS_Subset
<1>2. \A t \in SUBSET S : g[t] = SumStep(f, g, t)
  BY DEF IsSum
<1>3. IsSum(f, h, s)
  BY <1>2, SomeIn DEF IsSum, SumStep
<1>4. \A t \in SUBSET s : iter[t] = SumStep(f, iter, t)
  <2>1. IsSum(f, iter, s)
    BY <1>3
  <2> HIDE DEF iter
  <2> QED
    BY <2>1 DEF IsSum
<1> HIDE DEF iter
<1>5. ASSUME NEW t \in SUBSET s, \A x \in t : t \ {x} \in T
      PROVE  t \in T
  BY <1>2, <1>4, <1>5, SomeIn DEF SumStep
<1>6. s \in T
  <2> HIDE DEF T
  <2> QED
    BY <1>1, <1>5, SubsetInduct
<1> QED
  BY <1>6, TotalIs DEF iter

\* Some function does.
LEMMA SumExists ==
  ASSUME NEW X, IsFiniteSet(X), NEW f
  PROVE  \A S \in SUBSET X : \E g : IsSum(f, g, S)
<1> DEFINE T == {S \in SUBSET X : \E g : IsSum(f, g, S)}
<1>1. ASSUME NEW S \in SUBSET X, \A x \in S : S \ {x} \in T
      PROVE  S \in T
  <2> DEFINE h == [s \in SUBSET S |-> IF s = S THEN SumStep(f, [t \in SUBSET S |-> Total(f, t)], S)
                                               ELSE Total(f, s)]
  <2>1. ASSUME NEW s \in SUBSET S, s # S
        PROVE  Total(f, s) = SumStep(f, h, s)
    <3>1. PICK x \in S : s \subseteq S \ {x}
      BY <2>1
    <3>2. PICK g : IsSum(f, g, S \ {x})
      BY <1>1, <3>1
    <3>3. \A t \in SUBSET s : Total(f, t) = g[t]
      BY <3>1, <3>2, SumIsTotal
    <3>4. g[s] = SumStep(f, g, s)
      BY <3>1, <3>2 DEF IsSum
    <3> QED
      BY <2>1, <3>3, <3>4, SomeIn DEF SumStep
  <2>2. h[S] = SumStep(f, h, S)
    BY SomeIn DEF SumStep
  <2>3. IsSum(f, h, S)
    <3>1. \A s \in SUBSET S : h[s] = SumStep(f, h, s)
      BY <2>1, <2>2
    <3> HIDE DEF h
    <3>2. h = [s \in SUBSET S |-> h[s]]
      BY DEF h
    <3> QED
      BY <3>1, <3>2 DEF IsSum
  <2> QED
    BY <2>3
<1> HIDE DEF T
<1>2. \A S \in SUBSET X : S \in T
  BY <1>1, SubsetInduct
<1> QED
  BY <1>2 DEF T

\* Total unfolds ...
LEMMA TotalStep ==
  ASSUME NEW X, IsFiniteSet(X), NEW f, NEW S \in SUBSET X
  PROVE  /\ Total(f, {}) = 0
         /\ S # {} => Total(f, S) = f[Some(S)] + Total(f, S \ {Some(S)})
<1>1. PICK g : IsSum(f, g, S)
  BY SumExists
<1>2. g[{}] = 0 /\ (S # {} => g[S] = f[Some(S)] + g[S \ {Some(S)}])
  BY <1>1 DEF IsSum, SumStep
<1>3. \A s \in SUBSET S : Total(f, s) = g[s]
  BY <1>1, SumIsTotal
<1> QED
  BY <1>2, <1>3

\* ... is a number ...
LEMMA TotalType ==
  ASSUME NEW X, IsFiniteSet(X), NEW f \in [X -> Int]
  PROVE  \A S \in SUBSET X : Total(f, S) \in Int
<1> DEFINE T == {S \in SUBSET X : Total(f, S) \in Int}
<1>1. ASSUME NEW S \in SUBSET X, \A x \in S : S \ {x} \in T
      PROVE  S \in T
  <2>1. CASE S = {}
    <3>1. Total(f, {}) = 0
      BY TotalStep
    <3>2. Total(f, S) = 0
      BY <2>1, <3>1, Zenon
    <3> QED
      BY <3>2
  <2>2. CASE S # {}
    <3>1. Some(S) \in S /\ f[Some(S)] \in Int /\ Total(f, S \ {Some(S)}) \in Int
      BY <1>1, <2>2, SomeIn
    <3>2. Total(f, S) = f[Some(S)] + Total(f, S \ {Some(S)})
      BY <2>2, TotalStep
    <3> QED
      BY <3>1, <3>2
  <2> QED
    BY <2>1, <2>2
<1> HIDE DEF T
<1>2. \A S \in SUBSET X : S \in T
  BY <1>1, SubsetInduct
<1> QED
  BY <1>2 DEF T

\* ... and may begin with any element.
LEMMA TotalAny ==
  ASSUME NEW X, IsFiniteSet(X), NEW f \in [X -> Int]
  PROVE  \A S \in SUBSET X : \A x \in S : Total(f, S) = f[x] + Total(f, S \ {x})
<1> DEFINE T == {S \in SUBSET X : \A x \in S : Total(f, S) = f[x] + Total(f, S \ {x})}
<1>1. ASSUME NEW S \in SUBSET X, \A x \in S : S \ {x} \in T
      PROVE  S \in T
  <2> SUFFICES ASSUME NEW x \in S
               PROVE  Total(f, S) = f[x] + Total(f, S \ {x})
    OBVIOUS
  <2> DEFINE c == Some(S)
             r == S \ {x, c}
  <2>1. c \in S /\ Total(f, S) = f[c] + Total(f, S \ {c})
    BY SomeIn, TotalStep
  <2> HIDE DEF c
  <2>2. CASE c = x
    BY <2>1, <2>2
  <2>3. CASE c # x
    <3>1. x \in S \ {c} /\ c \in S \ {x} /\ (S \ {c}) \ {x} = r /\ (S \ {x}) \ {c} = r
      BY <2>1, <2>3
    <3>2. Total(f, S \ {c}) = f[x] + Total(f, r) /\ Total(f, S \ {x}) = f[c] + Total(f, r)
      BY <1>1, <2>1, <3>1
    <3>3. f[x] \in Int /\ f[c] \in Int /\ Total(f, r) \in Int
      BY <2>1, TotalType
    <3> HIDE DEF r
    <3> QED
      BY <2>1, <3>2, <3>3
  <2> QED
    BY <2>2, <2>3
<1> HIDE DEF T
<1>2. \A S \in SUBSET X : S \in T
  BY <1>1, SubsetInduct
<1> QED
  BY <1>2 DEF T

\* One more element adds its number.
LEMMA TotalAdd ==
  ASSUME NEW X, IsFiniteSet(X), NEW f \in [X -> Int], NEW S \in SUBSET X,
         NEW x \in X, x \notin S
  PROVE  Total(f, S \cup {x}) = Total(f, S) + f[x]
<1>1. (S \cup {x}) \ {x} = S /\ S \cup {x} \in SUBSET X
  OBVIOUS
<1>2. f[x] \in Int /\ Total(f, S) \in Int
  BY TotalType
<1>3. Total(f, S \cup {x}) = f[x] + Total(f, (S \cup {x}) \ {x})
  BY <1>1, TotalAny
<1>4. Total(f, S \cup {x}) = f[x] + Total(f, S)
  BY <1>1, <1>3, Zenon
<1> QED
  BY <1>2, <1>4

\* Sums of disjoint sets add up.
LEMMA TotalUnion ==
  ASSUME NEW X, IsFiniteSet(X), NEW f \in [X -> Int], NEW R \in SUBSET X
  PROVE  \A S \in SUBSET X : S \cap R = {} => Total(f, R \cup S) = Total(f, R) + Total(f, S)
<1> DEFINE T == {S \in SUBSET X : S \cap R = {} => Total(f, R \cup S) = Total(f, R) + Total(f, S)}
<1>0. Total(f, R) \in Int
  BY TotalType
<1>1. ASSUME NEW S \in SUBSET X, \A x \in S : S \ {x} \in T
      PROVE  S \in T
  <2> SUFFICES ASSUME S \cap R = {}
               PROVE  Total(f, R \cup S) = Total(f, R) + Total(f, S)
    OBVIOUS
  <2>1. CASE S = {}
    <3>1. R \cup S = R /\ Total(f, S) = 0
      BY <2>1, TotalStep
    <3> QED
      BY <1>0, <3>1
  <2>2. CASE S # {}
    <3>1. PICK x \in S : TRUE
      BY <2>2
    <3>2. /\ x \in R \cup S /\ (R \cup S) \ {x} = R \cup (S \ {x})
          /\ (S \ {x}) \cap R = {} /\ R \cup S \in SUBSET X
      OBVIOUS
    <3>3. Total(f, S) = f[x] + Total(f, S \ {x})
      BY TotalAny
    <3>4. Total(f, R \cup S) = f[x] + Total(f, R \cup (S \ {x}))
      BY <3>2, TotalAny
    <3>5. Total(f, R \cup (S \ {x})) = Total(f, R) + Total(f, S \ {x})
      BY <1>1, <3>2
    <3>6. f[x] \in Int /\ Total(f, S \ {x}) \in Int
      BY TotalType
    <3> QED
      BY <1>0, <3>3, <3>4, <3>5, <3>6
  <2> QED
    BY <2>1, <2>2
<1> HIDE DEF T
<1>2. \A S \in SUBSET X : S \in T
  BY <1>1, SubsetInduct
<1> QED
  BY <1>2 DEF T

\* A sum of numbers that are not negative is none.
LEMMA TotalNat ==
  ASSUME NEW X, IsFiniteSet(X), NEW f \in [X -> Nat]
  PROVE  \A S \in SUBSET X : Total(f, S) \in Nat
<1> DEFINE T == {S \in SUBSET X : Total(f, S) \in Nat}
<1>1. ASSUME NEW S \in SUBSET X, \A x \in S : S \ {x} \in T
      PROVE  S \in T
  <2>1. CASE S = {}
    <3>1. Total(f, {}) = 0
      BY TotalStep
    <3>2. Total(f, S) = 0
      BY <2>1, <3>1, Zenon
    <3> QED
      BY <3>2
  <2>2. CASE S # {}
    <3>1. Some(S) \in S /\ f[Some(S)] \in Nat /\ Total(f, S \ {Some(S)}) \in Nat
      BY <1>1, <2>2, SomeIn
    <3>2. Total(f, S) = f[Some(S)] + Total(f, S \ {Some(S)})
      BY <2>2, TotalStep
    <3> QED
      BY <3>1, <3>2
  <2> QED
    BY <2>1, <2>2
<1> HIDE DEF T
<1>2. \A S \in SUBSET X : S \in T
  BY <1>1, SubsetInduct
<1> QED
  BY <1>2 DEF T

\* So more elements do not make it less.
LEMMA TotalGrows ==
  ASSUME NEW X, IsFiniteSet(X), NEW f \in [X -> Nat], NEW S \in SUBSET X, NEW R \in SUBSET S
  PROVE  Total(f, R) <= Total(f, S)
<1>1. f \in [X -> Int] /\ R \in SUBSET X /\ S \ R \in SUBSET X
      /\ (S \ R) \cap R = {} /\ R \cup (S \ R) = S
  OBVIOUS
<1>2. Total(f, S) = Total(f, R) + Total(f, S \ R)
  BY <1>1, TotalUnion
<1> QED
  BY <1>1, <1>2, TotalNat

\* Functions that agree on a set have the same sum there.
LEMMA TotalSame ==
  ASSUME NEW X, IsFiniteSet(X), NEW f, NEW g
  PROVE  \A S \in SUBSET X : (\A x \in S : f[x] = g[x]) => Total(f, S) = Total(g, S)
<1> DEFINE T == {S \in SUBSET X : (\A x \in S : f[x] = g[x]) => Total(f, S) = Total(g, S)}
<1>1. ASSUME NEW S \in SUBSET X, \A x \in S : S \ {x} \in T
      PROVE  S \in T
  <2>1. CASE S = {}
    BY <2>1, TotalStep
  <2>2. CASE S # {}
    <3>1. Some(S) \in S
      BY <2>2, SomeIn
    <3>2. Total(f, S) = f[Some(S)] + Total(f, S \ {Some(S)})
      BY <2>2, TotalStep
    <3>3. Total(g, S) = g[Some(S)] + Total(g, S \ {Some(S)})
      BY <2>2, TotalStep
    <3> QED
      BY <1>1, <3>1, <3>2, <3>3
  <2> QED
    BY <2>1, <2>2
<1> HIDE DEF T
<1>2. \A S \in SUBSET X : S \in T
  BY <1>1, SubsetInduct
<1> QED
  BY <1>2 DEF T

\* Nothing adds up to nothing.
LEMMA TotalZero ==
  ASSUME NEW X, IsFiniteSet(X)
  PROVE  Total([x \in X |-> 0], X) = 0
<1> DEFINE f == [x \in X |-> 0]
           T == {S \in SUBSET X : Total(f, S) = 0}
<1>1. ASSUME NEW S \in SUBSET X, \A x \in S : S \ {x} \in T
      PROVE  S \in T
  <2> HIDE DEF f
  <2>1. CASE S = {}
    BY <2>1, TotalStep
  <2>2. CASE S # {}
    <3>1. Some(S) \in S /\ f[Some(S)] = 0 /\ Total(f, S \ {Some(S)}) = 0
      BY <1>1, <2>2, SomeIn DEF f
    <3>2. Total(f, S) = f[Some(S)] + Total(f, S \ {Some(S)})
      BY <2>2, TotalStep
    <3> QED
      BY <3>1, <3>2
  <2> QED
    BY <2>1, <2>2
<1> HIDE DEF f, T
<1>2. \A S \in SUBSET X : S \in T
  BY <1>1, SubsetInduct
<1>3. X \in T
  BY <1>2
<1> QED
  BY <1>3 DEF T, f

\* One value changes.
LEMMA TotalUpdate ==
  ASSUME NEW X, IsFiniteSet(X), NEW f \in [X -> Int], NEW x \in X, NEW v \in Int
  PROVE  Total([f EXCEPT ![x] = v], X) = Total(f, X) - f[x] + v
<1> DEFINE g == [f EXCEPT ![x] = v]
           R == X \ {x}
<1>1. g \in [X -> Int] /\ R \in SUBSET X /\ x \notin R /\ X = R \cup {x} /\ g[x] = v
      /\ \A y \in R : f[y] = g[y]
  OBVIOUS
<1> HIDE DEF g, R
<1>2. Total(f, R) = Total(g, R)
  BY <1>1, TotalSame
<1>3. Total(f, X) = Total(f, R) + f[x] /\ Total(g, X) = Total(g, R) + g[x]
  BY <1>1, TotalAdd
<1>4. Total(f, R) \in Int /\ f[x] \in Int
  BY <1>1, TotalType
<1> QED
  BY <1>1, <1>2, <1>3, <1>4 DEF g
-----------------------------------------------------------------------------
(***************************************************************************)
(* What the scheduled action and the users may find, apart from            *)
(* quantities.                                                             *)
(***************************************************************************)

\* The scheduled action while it runs.
Running ==
  [on : {TRUE}, todo : SUBSET Pickings, done : SUBSET Moves, auto : [Pickings -> Int],
   manual : [Hands -> Int], enabled : BOOLEAN, cleared : SUBSET Pickings, bills : SUBSET Pickings,
   drafts : SUBSET Pickings, failed : SUBSET Pickings, staleLine : BOOLEAN,
   stalePickings : SUBSET Pickings]

Types ==
  /\ today \in Int
  /\ dateDone \in [Docs -> Int] /\ moveDate \in [Moves -> Int] /\ valued \in [Moves -> Int]
  /\ done \in SUBSET Moves /\ pending \in SUBSET Pickings /\ left \in SUBSET Pickings
  /\ auto \in [Pickings -> Int] /\ draft \in SUBSET Pickings
  /\ manual \in [Hands -> Int] /\ unbilled \in Nat /\ uncredited \in Nat
  /\ cron \in {Idle} \cup Running

\* Moves are added to transfers that are done; what is to be billed is done, and was
\* not billed yet.
OrderInv ==
  /\ \A m \in Extra \cap done : Of[m] \in done
  /\ pending \subseteq done /\ left \subseteq done
  /\ \A p \in Pickings : p \in pending \/ p \notin done => auto[p] = 0

\* Moves that are done since the scheduled action began
New == done \ cron.done

\* It works on transfers that are pending and that it has seen.  It has bills only as
\* long as nobody else wrote the line.  What is new is pending or left to users.
CronInv ==
  cron.on =>
    /\ cron.todo \subseteq pending \cap cron.done
    /\ cron.cleared \subseteq pending \cap cron.done
    /\ cron.todo \cap cron.cleared = {}
    /\ cron.bills \subseteq cron.cleared /\ cron.failed \subseteq cron.cleared
    /\ cron.drafts \subseteq cron.bills
    /\ cron.done \subseteq done
    /\ \A m \in Extra \cap cron.done : Of[m] \in cron.done
    /\ ~cron.staleLine =>
         /\ New \subseteq Scraps /\ cron.manual = manual
         /\ \A p \in Pickings \ cron.bills : cron.auto[p] = auto[p]
    /\ cron.bills # {} => ~cron.staleLine
    /\ New \cap Pickings \subseteq pending \cup left
    /\ \A m \in New \cap Extra : Of[m] \in left

Struct == Types /\ OrderInv /\ CronInv

\* What the assumption says of moves and documents.
LEMMA Constants ==
  /\ Pickings \subseteq Moves /\ Scraps \subseteq Moves /\ Extra \subseteq Moves
  /\ Docs \subseteq Moves /\ Pickings \subseteq Docs /\ Scraps \subseteq Docs
  /\ Returns \subseteq Pickings
  /\ Pickings \cap Scraps = {} /\ Pickings \cap Extra = {} /\ Scraps \cap Extra = {}
  /\ \A m \in Extra : Of[m] \in Pickings \ Returns
  /\ IsFiniteSet(Moves) /\ IsFiniteSet(Pickings) /\ IsFiniteSet(Hands)
  /\ Qty \in [Moves -> Nat] /\ \A m \in Moves : Qty[m] # 0
BY ReceiptsAssumption, FS_Subset DEF Moves, Docs

\* An order that nothing was received of is as it should be.
LEMMA InitStruct == Init => Struct
<1> SUFFICES ASSUME Init PROVE Struct
  OBVIOUS
<1>1. Types
  BY DEF Init, Types, NoDate
<1>2. OrderInv
  BY DEF Init, OrderInv
<1>3. CronInv
  BY DEF Init, CronInv, Idle
<1> QED
  BY <1>1, <1>2, <1>3 DEF Struct

\* Total(f, S) has the type of a number for what is summed here.
LEMMA Sums ==
  /\ \A d \in SUBSET Moves : Received(d) \in Int
  /\ \A a \in [Pickings -> Int], m \in [Hands -> Int] : Invoiced(a, m) \in Int
  /\ \A d \in SUBSET Moves : Total(Qty, d) \in Nat
<1>1. Stored \in [Moves -> Int]
  BY Constants DEF Stored
<1>2. \A d \in SUBSET Moves : Received(d) \in Int
  BY <1>1, Constants, TotalType DEF Received
<1>3. /\ \A a \in [Pickings -> Int] : Total(a, Pickings) \in Int
      /\ \A m \in [Hands -> Int] : Total(m, Hands) \in Int
  BY Constants, TotalType
<1>4. \A d \in SUBSET Moves : Total(Qty, d) \in Nat
  BY Constants, TotalNat
<1> QED
  BY <1>2, <1>3, <1>4 DEF Invoiced

\* What the scheduled action bills for a transfer is a number.
LEMMA ToBillType ==
  ASSUME Struct, cron.on, NEW p \in Pickings
  PROVE  ToBill(p) \in Int
<1>1. cron \in Running
  BY DEF Struct, Types, Idle
<1> DEFINE due == Received(cron.done) - Invoiced(cron.auto, cron.manual)
           qty == Total(Qty, MovesOfDoc(p) \cap cron.done)
<1>2. due \in Int
  BY <1>1, Sums DEF Running
<1>3. qty \in Nat
  <2>1. MovesOfDoc(p) \cap cron.done \in SUBSET Moves
    BY <1>1 DEF Running
  <2> QED
    BY <2>1, Sums
<1> HIDE DEF due, qty
<1>4. ToBill(p) = IF p \in Returns THEN IF due < 0 THEN -MinOf(qty, -due) ELSE 0
                                   ELSE IF due > 0 THEN MinOf(qty, due) ELSE 0
  BY DEF ToBill, QtyToBill, due, qty
<1> QED
  BY <1>2, <1>3, <1>4 DEF MinOf

-----------------------------------------------------------------------------
\* The scheduled action but for what it takes for stale
CronFields ==
  <<cron.on, cron.todo, cron.done, cron.auto, cron.manual, cron.enabled, cron.cleared,
    cron.bills, cron.drafts, cron.failed>>

\* The line is stale from now on, and nothing else changes for the scheduled action.
LEMMA StaleLineIs ==
  ASSUME Types, cron' = StaleLine
  PROVE  /\ cron' \in {Idle} \cup Running
         /\ cron'.on = cron.on
         /\ cron.on => cron'.staleLine /\ UNCHANGED CronFields
<1>1. CASE cron.on
  <2>1. cron \in Running /\ cron' = [cron EXCEPT !.staleLine = TRUE]
    BY <1>1 DEF Types, Idle, StaleLine
  <2> QED
    BY <2>1 DEF Running, CronFields
<1>2. CASE ~cron.on
  BY <1>2 DEF StaleLine, Types
<1> QED
  BY <1>1, <1>2

\* An edit of a transfer leaves what the scheduled action has computed alone.
LEMMA StalePickingIs ==
  ASSUME Types, NEW p \in Pickings, cron' = StalePicking(p)
  PROVE  /\ cron' \in {Idle} \cup Running
         /\ cron'.on = cron.on
         /\ cron.on => cron'.staleLine = cron.staleLine /\ UNCHANGED CronFields
<1>1. CASE cron.on
  <2>1. cron \in Running /\ cron' = [cron EXCEPT !.stalePickings = @ \cup {p}]
    BY <1>1 DEF Types, Idle, StalePicking
  <2>2. cron' \in Running
    <3> DEFINE stale == cron.stalePickings \cup {p}
    <3>1. stale \in SUBSET Pickings
      BY <2>1 DEF Running
    <3>2. cron' = [cron EXCEPT !.stalePickings = stale]
      BY <2>1
    <3> HIDE DEF stale
    <3> QED
      BY <2>1, <3>1, <3>2 DEF Running
  <2>3. cron'.on = cron.on /\ cron'.staleLine = cron.staleLine /\ UNCHANGED CronFields
    BY <2>1 DEF Running, CronFields
  <2> QED
    BY <2>2, <2>3
<1>2. CASE ~cron.on
  BY <1>2 DEF StalePicking, Types
<1> QED
  BY <1>1, <1>2

\* Users who touch neither what is billed nor the scheduled action keep Struct.
OrderVars == <<done, pending, left, auto, manual, unbilled, uncredited, cron>>

\* Steps that write nothing of the order keep Struct.
LEMMA TickStep ==
  ASSUME Struct, Tick \/ Lock \/ SetBlocked \/ \E d \in Docs, date \in 1..today : EnterDate(d, date)
  PROVE  Struct' /\ UNCHANGED OrderVars
<1>1. UNCHANGED <<OrderVars, moveDate, valued, draft, byHand>>
  BY DEF Tick, Lock, SetBlocked, EnterDate, billing, dates, OrderVars
<1>2. today' \in Int
  BY DEF Tick, Lock, SetBlocked, EnterDate, dates, Struct, Types
<1>3. dateDone' \in [Docs -> Int]
  <2>1. CASE dateDone' = dateDone
    BY <2>1 DEF Struct, Types
  <2>2. CASE \E d \in Docs, date \in 1..today : EnterDate(d, date)
    BY <2>2 DEF EnterDate, Struct, Types
  <2> QED
    BY <2>1, <2>2 DEF Tick, Lock, SetBlocked, dates
<1>4. Types'
  BY <1>1, <1>2, <1>3 DEF Struct, Types, OrderVars
<1>5. OrderInv' /\ CronInv'
  BY <1>1 DEF Struct, OrderInv, CronInv, OrderVars, New
<1> QED
  BY <1>1, <1>4, <1>5 DEF Struct

\* Moves that get a date have one.
LEMMA DatedTypes ==
  ASSUME Types, NEW ms, NEW date \in Int, NEW old \in [Moves -> Int]
  PROVE  Dated(ms, date) \in [Moves -> Int] /\ Revalued(ms, date, old) \in [Moves -> Int]
BY DEF Types, Dated, Revalued

\* The dates of a document, when it is done or edited, are dates.
LEMMA SetDateDoneType ==
  ASSUME Types, NEW d \in Docs, SetDateDone(d)
  PROVE  /\ dateDone' \in [Docs -> Int]
         /\ moveDate' \in [Moves -> Int] /\ valued' \in [Moves -> Int]
<1>1. today \in Int /\ dateDone[d] \in Int /\ [valued EXCEPT ![d] = today] \in [Moves -> Int]
  BY DEF Types
<1> QED
  BY <1>1, DatedTypes DEF Types, SetDateDone

\* An edit of the date of a document keeps Struct.
LEMMA EditDateStep ==
  ASSUME Struct, NEW d \in Docs, NEW date \in 1..today, EditDate(d, date)
  PROVE  Struct'
<1>1. /\ cron' \in {Idle} \cup Running
      /\ cron'.on = cron.on
      /\ cron.on => cron'.staleLine = cron.staleLine /\ UNCHANGED CronFields
  <2>1. CASE d \in Pickings
    BY <2>1, StalePickingIs DEF EditDate, Struct
  <2>2. CASE d \notin Pickings
    BY <2>2 DEF EditDate, Struct, Types, CronFields
  <2> QED
    BY <2>1, <2>2
<1>2. /\ UNCHANGED <<today, done, pending, blocked, auto, draft, manual, byHand, left, unbilled, uncredited>>
      /\ dateDone' = [dateDone EXCEPT ![d] = date]
  BY DEF EditDate, billing
<1>3. Types'
  <2>1. date \in Int
    BY DEF Struct, Types
  <2>2. moveDate' \in [Moves -> Int] /\ valued' \in [Moves -> Int]
    BY <2>1, DatedTypes DEF EditDate, Struct, Types
  <2>3. dateDone' \in [Docs -> Int]
    BY <1>2, <2>1 DEF Struct, Types
  <2> QED
    BY <1>1, <1>2, <2>2, <2>3 DEF Struct, Types
<1>4. OrderInv'
  BY <1>2 DEF Struct, OrderInv
<1>5. CronInv'
  BY <1>1, <1>2 DEF Struct, CronInv, CronFields, New
<1> QED
  BY <1>3, <1>4, <1>5 DEF Struct

\* A scrap that is done keeps Struct.
LEMMA DoScrapStep ==
  ASSUME Struct, NEW s \in Scraps, DoScrap(s)
  PROVE  Struct'
<1>1. s \in Docs /\ s \in Moves
  BY Constants
<1>2. /\ UNCHANGED <<today, pending, blocked, auto, draft, manual, byHand, left, unbilled,
                  uncredited, cron>>
      /\ done' = done \cup {s}
  BY DEF DoScrap, billing
<1>3. Types'
  BY <1>1, <1>2, SetDateDoneType DEF DoScrap, Struct, Types
<1>4. OrderInv'
  BY <1>2, Constants DEF Struct, OrderInv
<1>5. CronInv'
  BY <1>2, Constants DEF Struct, CronInv, New
<1> QED
  BY <1>3, <1>4, <1>5 DEF Struct

\* A transfer that is done keeps Struct: what it is to be billed for was not billed yet.
LEMMA ButtonValidateStep ==
  ASSUME Struct, NEW p \in Pickings, ButtonValidate(p)
  PROVE  Struct'
<1>1. p \in Docs /\ p \in Moves /\ p \notin Extra
  BY Constants
<1>2. /\ UNCHANGED <<today, blocked, auto, draft, manual, byHand, unbilled, uncredited>>
      /\ done' = done \cup {p} /\ p \notin done /\ LineFree
      /\ \/ pending' = pending \cup {p} /\ left' = left
         \/ pending' = pending /\ left' = left \cup {p}
  BY DEF ButtonValidate
<1>3. /\ cron' \in {Idle} \cup Running
      /\ cron'.on = cron.on
      /\ cron.on => cron'.staleLine /\ UNCHANGED CronFields
  BY StaleLineIs DEF ButtonValidate, Struct
<1>4. Types'
  <2>1. /\ dateDone' \in [Docs -> Int]
        /\ moveDate' \in [Moves -> Int] /\ valued' \in [Moves -> Int]
    BY <1>1, SetDateDoneType DEF ButtonValidate, Struct
  <2> QED
    BY <1>1, <1>2, <1>3, <2>1 DEF Struct, Types
<1>5. OrderInv'
  BY <1>1, <1>2, Constants DEF Struct, OrderInv, Types
<1>6. CronInv'
  BY <1>1, <1>2, <1>3 DEF Struct, CronInv, CronFields, New, LineFree
<1> QED
  BY <1>4, <1>5, <1>6 DEF Struct

\* A move added to a transfer that is done keeps Struct.
LEMMA CreateMoveStep ==
  ASSUME Struct, NEW m \in Extra, CreateMove(m)
  PROVE  Struct'
<1>1. /\ m \in Moves /\ m \notin Pickings
      /\ Of[m] \in Docs /\ Of[m] \in Pickings
  BY Constants
<1>2. /\ UNCHANGED <<today, dateDone, blocked, pending, auto, draft, manual, byHand, unbilled, uncredited>>
      /\ done' = done \cup {m} /\ m \notin done /\ Of[m] \in done /\ LineFree
      /\ left' = IF Of[m] \in pending /\ ~cron.on THEN left ELSE left \cup {Of[m]}
  BY DEF CreateMove
<1>3. /\ cron' \in {Idle} \cup Running
      /\ cron'.on = cron.on
      /\ cron.on => cron'.staleLine /\ UNCHANGED CronFields
  BY StaleLineIs DEF CreateMove, Struct
<1>4. Types'
  <2>1. dateDone[Of[m]] \in Int /\ [valued EXCEPT ![m] = today] \in [Moves -> Int]
    BY <1>1 DEF Struct, Types
  <2>2. valued' \in [Moves -> Int] /\ moveDate' \in [Moves -> Int]
    BY <1>1, <2>1, DatedTypes DEF CreateMove, Struct, Types
  <2> QED
    BY <1>1, <1>2, <1>3, <2>2 DEF Struct, Types
<1>5. OrderInv'
  BY <1>1, <1>2 DEF Struct, OrderInv
<1>6. CronInv'
  BY <1>1, <1>2, <1>3 DEF Struct, CronInv, CronFields, New, LineFree
<1> QED
  BY <1>4, <1>5, <1>6 DEF Struct

\* Bills that users make, post, reset and cancel keep Struct: the scheduled action can
\* not bill any more if they changed what is invoiced.
Posts ==
  \/ \E p \in Pickings : ResetBill(p) \/ PostBill(p)
  \/ \E b \in Hands : ResetByHand(b) \/ PostByHand(b)
Bills ==
  \/ \E b \in Hands : (\E all \in BOOLEAN : BillByHand(b, all)) \/ CancelByHand(b)
  \/ \E p \in Pickings : CancelBill(p)

\* Bills that are posted or reset
LEMMA PostsStep ==
  ASSUME Struct, Posts
  PROVE  Struct' /\ UNCHANGED OrderVars
<1>1. /\ UNCHANGED <<OrderVars, dates>>
      /\ draft' \in SUBSET Pickings
  BY DEF Posts, ResetBill, PostBill, ResetByHand, PostByHand, OrderVars, Struct, Types
<1>2. Types'
  BY <1>1 DEF Struct, Types, OrderVars, dates
<1>3. OrderInv' /\ CronInv'
  BY <1>1 DEF Struct, OrderInv, CronInv, OrderVars, New
<1> QED
  BY <1>1, <1>2, <1>3 DEF Struct

\* A transfer or one of users' bills is invoiced, or not any more, and the rest is as
\* it was.
LEMMA BillsAre ==
  ASSUME Struct, Bills
  PROVE  /\ UNCHANGED <<dates, done, blocked, pending, left>> /\ LineFree
         /\ cron' = StaleLine
         /\ auto' \in [Pickings -> Int] /\ manual' \in [Hands -> Int]
         /\ draft' \in SUBSET Pickings
         /\ unbilled' \in Nat /\ uncredited' \in Nat
         /\ \A p \in Pickings : auto'[p] = auto[p] \/ auto'[p] = 0
<1>1. /\ auto \in [Pickings -> Int] /\ manual \in [Hands -> Int]
      /\ unbilled \in Nat /\ uncredited \in Nat /\ draft \in SUBSET Pickings
      /\ Received(done) - Invoiced(auto, manual) \in Int
  BY Sums DEF Struct, Types
<1>2. ASSUME NEW b \in Hands, NEW all \in BOOLEAN, BillByHand(b, all)
      PROVE  /\ UNCHANGED <<dates, done, blocked, pending, left, auto, draft, unbilled, uncredited>>
             /\ LineFree /\ cron' = StaleLine /\ manual' \in [Hands -> Int]
  BY <1>1, <1>2 DEF BillByHand
<1>3. ASSUME NEW q \in Int, Uninvoiced(q)
      PROVE  /\ UNCHANGED <<dates, done, blocked, pending, left>> /\ LineFree
             /\ cron' = StaleLine /\ unbilled' \in Nat /\ uncredited' \in Nat
  BY <1>1, <1>3 DEF Uninvoiced
<1>4. ASSUME NEW b \in Hands, CancelByHand(b)
      PROVE  /\ UNCHANGED <<auto, draft>> /\ manual' \in [Hands -> Int]
             /\ manual[b] \in Int /\ Uninvoiced(manual[b])
  BY <1>1, <1>4 DEF CancelByHand
<1>5. ASSUME NEW p \in Pickings, CancelBill(p)
      PROVE  /\ UNCHANGED manual /\ auto' = [auto EXCEPT ![p] = 0]
             /\ draft' \in SUBSET Pickings /\ auto[p] \in Int /\ Uninvoiced(auto[p])
  BY <1>1, <1>5 DEF CancelBill
<1> QED
  BY <1>1, <1>2, <1>3, <1>4, <1>5 DEF Bills

\* Bills that are made or cancelled
LEMMA BillsStep ==
  ASSUME Struct, Bills
  PROVE  Struct'
<1>1. /\ cron' \in {Idle} \cup Running
      /\ cron'.on = cron.on
      /\ cron.on => cron'.staleLine /\ UNCHANGED CronFields
  BY BillsAre, StaleLineIs DEF Struct
<1>2. Types'
  BY <1>1, BillsAre DEF Struct, Types, dates
<1>3. OrderInv'
  BY BillsAre DEF Struct, OrderInv
<1>4. CronInv'
  BY <1>1, BillsAre DEF Struct, CronInv, CronFields, New, LineFree
<1> QED
  BY <1>2, <1>3, <1>4 DEF Struct

\* The scheduled action begins ...
LEMMA CronStartStep ==
  ASSUME Struct, CronStart
  PROVE  Struct'
<1>1. Types'
  BY Constants DEF CronStart, Struct, Types, Running, dates, billing, AutoBillEnabled
<1>2. OrderInv'
  BY DEF CronStart, Struct, OrderInv, billing
<1>3. CronInv'
  BY DEF CronStart, Struct, OrderInv, CronInv, billing, New
<1> QED
  BY <1>1, <1>2, <1>3 DEF Struct

\* ... goes through the transfers ...
CronOn(p) == CronSkip(p) \/ CronNothing(p) \/ CronFail(p) \/ CronBill(p) \/ CronBillUnposted(p)

\* Each transfer that the scheduled action deals with keeps Struct.
LEMMA CronOnStep ==
  ASSUME Struct, NEW p \in Pickings, CronOn(p)
  PROVE  Struct'
<1>1. cron.on /\ p \in cron.todo /\ cron \in Running
  BY DEF CronOn, CronSkip, CronNothing, CronFail, CronBill, CronBillUnposted, CanBill,
         Struct, Types, Idle
<1>2. UNCHANGED <<dates, done, blocked, pending, billing>>
  BY DEF CronOn, CronSkip, CronNothing, CronFail, CronBill, CronBillUnposted
<1>3. ToBill(p) \in Int
  BY <1>1, ToBillType
<1>4. Running' = Running /\ Idle' = Idle
  OBVIOUS
<1>5. OrderInv'
  BY <1>2 DEF Struct, OrderInv, billing
<1>6. CASE CronSkip(p)
  <2>1. Types'
    BY <1>1, <1>2, <1>6 DEF CronSkip, Struct, Types, Running, dates, billing
  <2>2. CronInv'
    BY <1>1, <1>2, <1>6 DEF CronSkip, Struct, CronInv, Running, billing, New
  <2> QED
    BY <1>5, <2>1, <2>2 DEF Struct
<1>7. CASE CronNothing(p) \/ CronFail(p)
  <2>1. PICK f \in {cron.failed, cron.failed \cup {p}} :
          cron' = [cron EXCEPT !.todo = @ \ {p}, !.cleared = @ \cup {p}, !.failed = f]
    BY <1>1, <1>7 DEF CronNothing, CronFail, Cleared, Running
  <2>2. Types'
    <3>1. /\ f \in SUBSET Pickings /\ cron.todo \ {p} \in SUBSET Pickings
          /\ cron.cleared \cup {p} \in SUBSET Pickings
      BY <1>1 DEF Running
    <3>2. cron' \in Running
      BY <1>1, <2>1, <3>1 DEF Running
    <3> QED
      BY <1>2, <3>2 DEF Struct, Types, dates, billing
  <2>3. CronInv'
    BY <1>1, <1>2, <2>1 DEF Struct, CronInv, Running, billing, New
  <2> QED
    BY <1>5, <2>2, <2>3 DEF Struct
<1>8. CASE CronBill(p) \/ CronBillUnposted(p)
  <2>1. ~cron.staleLine
    BY <1>8 DEF CronBill, CronBillUnposted
  <2>2. PICK f \in {cron.drafts, cron.drafts \cup {p}} :
          cron' = [cron EXCEPT !.todo = @ \ {p}, !.cleared = @ \cup {p}, !.bills = @ \cup {p},
                               !.auto = [@ EXCEPT ![p] = ToBill(p)], !.drafts = f]
    <3>1. CASE CronBill(p)
      BY <1>1, <3>1 DEF CronBill, Cleared, Running
    <3>2. CASE CronBillUnposted(p)
      BY <3>2 DEF CronBillUnposted, Cleared
    <3> QED
      BY <1>8, <3>1, <3>2
  <2>3. Types'
    <3>1. [cron.auto EXCEPT ![p] = ToBill(p)] \in [Pickings -> Int]
      BY <1>1, <1>3 DEF Running
    <3>2. /\ f \in SUBSET Pickings /\ cron.todo \ {p} \in SUBSET Pickings
          /\ cron.cleared \cup {p} \in SUBSET Pickings
          /\ cron.bills \cup {p} \in SUBSET Pickings
      BY <1>1 DEF Running
    <3>3. cron' \in Running
      BY <1>1, <2>2, <3>1, <3>2 DEF Running
    <3> QED
      BY <1>2, <3>3 DEF Struct, Types, dates, billing
  <2>4. CronInv'
    BY <1>1, <1>2, <2>1, <2>2 DEF Struct, CronInv, Running, billing, New
  <2> QED
    BY <1>5, <2>3, <2>4 DEF Struct
<1> QED
  BY <1>6, <1>7, <1>8 DEF CronOn

\* ... and commits, or is lost.
LEMMA CronEndStep ==
  ASSUME Struct, CronCommit \/ CronCrash
  PROVE  Struct'
<1>1. cron.on /\ cron \in Running /\ cron' = Idle
  BY DEF CronCommit, CronCrash, Struct, Types, Idle
<1>2. CronInv'
  BY <1>1 DEF CronInv, Idle
<1>3. CASE CronCommit
  <2>1. Types'
    BY <1>1, <1>3 DEF CronCommit, Struct, Types, Running, dates, CronInv
  <2>2. OrderInv'
    BY <1>1, <1>3 DEF CronCommit, Struct, Types, OrderInv, CronInv
  <2> QED
    BY <1>2, <2>1, <2>2 DEF Struct
<1>4. CASE CronCrash
  BY <1>1, <1>2, <1>4 DEF CronCrash, Struct, Types, OrderInv, dates, billing
<1> QED
  BY <1>3, <1>4

\* All steps keep Struct.
LEMMA NextStruct == Struct /\ [Next]_vars => Struct'
<1> SUFFICES ASSUME Struct, [Next]_vars
             PROVE  Struct'
  OBVIOUS
<1>1. CASE Next
  BY <1>1, TickStep, EditDateStep, DoScrapStep, ButtonValidateStep, CreateMoveStep,
     PostsStep, BillsStep, CronStartStep, CronOnStep, CronEndStep DEF Next, CronOn, Posts, Bills
<1>2. CASE UNCHANGED vars
  BY <1>2 DEF vars, dates, billing, Struct, Types, OrderInv, CronInv, New
<1> QED
  BY <1>1, <1>2

\* Types, and what the scheduled action and the users find, are as said.
THEOREM ReceiptsStructure == Spec => []Struct
BY InitStruct, NextStruct, PTL DEF Spec

-----------------------------------------------------------------------------
(* Dates                                                                   *)

\* The date that a document has when it is done is that of its move and of its value.
LEMMA SetDateDoneDates ==
  ASSUME Struct, MovesFollowDates, NEW d \in Docs, d \notin done, SetDateDone(d),
         done' = done \cup {d}
  PROVE  MovesFollowDates'
<1> DEFINE date == IF dateDone[d] = NoDate THEN today ELSE dateDone[d]
           old == [valued EXCEPT ![d] = today]
<1>1. /\ dateDone' = [dateDone EXCEPT ![d] = date]
      /\ moveDate' = [moveDate EXCEPT ![d] = date]
      /\ valued' = Revalued({d}, date, old) /\ kept' = Kept({d})
  BY DEF SetDateDone
<1>2. d \in Moves /\ d \notin Extra
  BY Constants DEF Docs
<1>3. \A m \in Moves : m # d => old[m] = valued[m] /\ moveDate'[m] = moveDate[m]
  BY <1>1 DEF Struct, Types
<1>4. \A e \in Docs : e # d => dateDone'[e] = dateDone[e]
  BY <1>1 DEF Struct, Types
<1>5. dateDone'[d] = date /\ moveDate'[d] = date
  BY <1>1, <1>2 DEF Struct, Types
<1> HIDE DEF date, old
<1>6. \A e \in Docs \cap done' : moveDate'[e] = dateDone'[e]
  BY <1>3, <1>4, <1>5, Constants DEF MovesFollowDates
<1>7. \A m \in Extra \cap done' : moveDate'[m] = dateDone'[Of[m]]
  BY <1>2, <1>3, <1>4, Constants DEF MovesFollowDates, Struct, OrderInv
<1>8. ASSUME NEW m \in done' \ (Scraps \cup Returns \cup kept')
      PROVE  valued'[m] = moveDate'[m]
  <2>1. m \in Moves /\ m \notin Scraps \cup Returns
    BY <1>2, <1>8 DEF Struct, Types
  <2>2. CASE m = d
    <3>1. ~IsPurchaseBilled
      BY <1>1, <1>8, <2>2 DEF Kept
    <3> QED
      BY <1>1, <1>5, <2>1, <2>2, <3>1 DEF Revalued
  <2>3. CASE m # d
    <3>1. m \in done /\ m \notin kept
      BY <1>1, <1>8, <2>3 DEF Kept
    <3> QED
      BY <1>1, <1>3, <2>1, <2>3, <3>1 DEF Revalued, MovesFollowDates
  <2> QED
    BY <2>2, <2>3
<1> QED
  BY <1>6, <1>7, <1>8 DEF MovesFollowDates

\* A move that is added takes the date of its transfer.
LEMMA CreateMoveDates ==
  ASSUME Struct, MovesFollowDates, NEW m \in Extra, CreateMove(m)
  PROVE  MovesFollowDates'
<1> DEFINE date == dateDone[Of[m]]
           old == [valued EXCEPT ![m] = today]
<1>1. /\ moveDate' = [moveDate EXCEPT ![m] = date] /\ dateDone' = dateDone
      /\ valued' = Revalued({m}, date, old) /\ done' = done \cup {m} /\ kept' = Kept({m})
  BY DEF CreateMove
<1>2. m \in Moves /\ m \notin Docs /\ m \notin Scraps \cup Returns
  BY Constants DEF Docs
<1>3. \A n \in Moves : n # m => old[n] = valued[n] /\ moveDate'[n] = moveDate[n]
  BY <1>1 DEF Struct, Types
<1>4. moveDate'[m] = date
  BY <1>1, <1>2 DEF Struct, Types
<1> HIDE DEF date, old
<1>5. \A e \in Docs \cap done' : moveDate'[e] = dateDone'[e]
  BY <1>1, <1>2, <1>3, Constants DEF MovesFollowDates
<1>6. \A n \in Extra \cap done' : moveDate'[n] = dateDone'[Of[n]]
  BY <1>1, <1>3, <1>4, Constants DEF MovesFollowDates, date
<1>7. ASSUME NEW n \in done' \ (Scraps \cup Returns \cup kept')
      PROVE  valued'[n] = moveDate'[n]
  <2>1. n \in Moves /\ n \notin Scraps \cup Returns
    BY <1>1, <1>2, <1>7 DEF Struct, Types
  <2>2. CASE n = m
    <3>1. ~IsPurchaseBilled
      BY <1>1, <1>7, <2>2 DEF Kept
    <3> QED
      BY <1>1, <1>2, <1>4, <2>2, <3>1 DEF Revalued
  <2>3. CASE n # m
    <3>1. n \in done /\ n \notin kept
      BY <1>1, <1>7, <2>3 DEF Kept
    <3> QED
      BY <1>1, <1>3, <2>1, <2>3, <3>1 DEF Revalued, MovesFollowDates
  <2> QED
    BY <2>2, <2>3
<1> QED
  BY <1>5, <1>6, <1>7 DEF MovesFollowDates

\* An edited date is written to all moves that are done, those on the ledger included.
LEMMA EditDateDates ==
  ASSUME Struct, MovesFollowDates, NEW d \in Docs, NEW date, EditDate(d, date)
  PROVE  MovesFollowDates'
<1> DEFINE ms == MovesOfDoc(d) \cap done
<1>1. /\ moveDate' = Dated(ms, date) /\ valued' = Revalued(ms, date, valued)
      /\ kept' = Kept(ms)
      /\ dateDone' = [dateDone EXCEPT ![d] = date] /\ done' = done /\ d \in done
  BY DEF EditDate
<1>2. \A m \in Moves : m \in ms <=> m \in done /\ (m = d \/ (m \in Extra /\ Of[m] = d))
  BY Constants DEF MovesOfDoc
<1> HIDE DEF ms
<1>3. \A e \in Docs \cap done' : moveDate'[e] = dateDone'[e]
  BY <1>1, <1>2, Constants DEF MovesFollowDates, Dated, Struct, Types, Docs
<1>4. \A m \in Extra \cap done' : moveDate'[m] = dateDone'[Of[m]]
  BY <1>1, <1>2, Constants DEF MovesFollowDates, Dated, Struct, Types, Docs
<1>5. \A m \in done' \ (Scraps \cup Returns \cup kept') : valued'[m] = moveDate'[m]
  BY <1>1 DEF MovesFollowDates, Dated, Revalued, Kept, Struct, Types
<1> QED
  BY <1>3, <1>4, <1>5 DEF MovesFollowDates

\* Moves have the effective dates of their documents, and receipts the values of the
\* dates they got while no bill of the line was posted, whatever bills are posted, reset
\* and cancelled (stock_date_done; stock_move.py of
\* purchase_stock_date_done_revaluation).
THEOREM DatesFollowed == Spec => []MovesFollowDates
<1>1. Init => MovesFollowDates
  BY DEF Init, MovesFollowDates
<1>2. Struct /\ MovesFollowDates /\ [Next]_vars => MovesFollowDates'
  <2> SUFFICES ASSUME Struct, MovesFollowDates, [Next]_vars
               PROVE  MovesFollowDates'
    OBVIOUS
  <2>2. ASSUME NEW d \in Docs, NEW date \in 1..today, EnterDate(d, date)
        PROVE  MovesFollowDates'
    <3>1. /\ UNCHANGED <<moveDate, valued, kept, done>>
          /\ d \notin done /\ dateDone' = [dateDone EXCEPT ![d] = date]
      BY <2>2 DEF EnterDate, billing
    <3>2. \A e \in Docs : e # d => dateDone'[e] = dateDone[e]
      BY <3>1 DEF Struct, Types
    <3> QED
      BY <3>1, <3>2, Constants DEF MovesFollowDates, Struct, OrderInv
  <2>3. ASSUME NEW s \in Scraps, DoScrap(s)
        PROVE  MovesFollowDates'
    BY <2>3, SetDateDoneDates, Constants DEF DoScrap
  <2>4. ASSUME NEW p \in Pickings, ButtonValidate(p)
        PROVE  MovesFollowDates'
    BY <2>4, SetDateDoneDates, Constants DEF ButtonValidate
  <2>5. CASE UNCHANGED <<dates, done>>
    BY <2>5 DEF MovesFollowDates, dates
  <2>6. \/ \E d \in Docs, date \in 1..today : EnterDate(d, date) \/ EditDate(d, date)
        \/ \E s \in Scraps : DoScrap(s)
        \/ \E p \in Pickings : ButtonValidate(p)
        \/ \E m \in Extra : CreateMove(m)
        \/ Tick \/ Lock
        \/ UNCHANGED <<dates, done>>
    <3>1. Posts \/ Bills => UNCHANGED <<dates, done>>
      BY BillsAre DEF Posts, ResetBill, PostBill, ResetByHand, PostByHand
    <3> QED
      BY <3>1 DEF Next, vars, Posts, Bills, SetBlocked, CronStart, CronSkip, CronNothing, CronFail,
           CronBill, CronBillUnposted, CronCommit, CronCrash
  <2>7. CASE Tick \/ Lock
    BY <2>7 DEF Tick, Lock, MovesFollowDates
  <2> QED
    BY <2>2, <2>3, <2>4, <2>5, <2>6, <2>7, EditDateDates, CreateMoveDates
<1> QED
  BY <1>1, <1>2, ReceiptsStructure, PTL DEF Spec

-----------------------------------------------------------------------------
(***************************************************************************)
(* Quantities.  What is due, to be billed or to be refunded, is bounded by *)
(* what was received, and what was returned, by the transfers that are not *)
(* yet billed.  That holds of the table and of what the scheduled action   *)
(* will leave of it when it commits; and what it will leave is, but for    *)
(* what was done since it began, on the same side of 0 as what it sees.    *)
(***************************************************************************)

MaxOf(a, b) == IF a <= b THEN b ELSE a

\* The transfer that move m belongs to
Owner(m) == IF m \in Extra THEN Of[m] ELSE m

\* What was received and returned by the transfers O, of the moves d
Goods(d, O) == {m \in d \ (Scraps \cup Returns) : Owner(m) \in O}
SentBack(d, O) == {p \in Returns \cap d : p \in O}

\* x is between lo and hi but for the moves d of the transfers O.
Within(lo, hi, x, d, O) ==
  /\ lo - Total(Qty, SentBack(d, O)) <= x
  /\ x <= hi + Total(Qty, Goods(d, O))

\* What is due; what will be when the scheduled action commits; and what it sees
AutoThen == [p \in Pickings |-> IF p \in cron.bills THEN cron.auto[p] ELSE auto[p]]
Due == Received(done) - Invoiced(auto, manual)
DueThen == Received(done) - Invoiced(AutoThen, manual)
DueSeen == Received(cron.done) - Invoiced(cron.auto, cron.manual)

\* The transfers that are not yet billed; and when it commits
Open == pending \cup left
OpenThen == (pending \ cron.cleared) \cup left \cup cron.failed

\* What users cancelled is due again.
Lo == 0 - uncredited
Hi == unbilled

SumsInv ==
  /\ Within(Lo, Hi, Due, done, Open)
  /\ cron.on =>
       /\ Within(Lo, Hi, DueThen, done, OpenThen)
       /\ Within(MinOf(DueSeen, 0) + Lo, MaxOf(DueSeen, 0) + Hi, DueThen, New, Pickings)

\* Goods and returns are moves, with a number of units.
LEMMA GoodsAndSentBack ==
  ASSUME NEW d \in SUBSET Moves, NEW O
  PROVE  /\ Goods(d, O) \in SUBSET Moves /\ SentBack(d, O) \in SUBSET Moves
         /\ Total(Qty, Goods(d, O)) \in Nat /\ Total(Qty, SentBack(d, O)) \in Nat
<1>1. Goods(d, O) \in SUBSET Moves /\ SentBack(d, O) \in SUBSET Moves
  BY DEF Goods, SentBack
<1> QED
  BY <1>1, Sums

\* More moves and transfers leave the bounds intact.
LEMMA WithinGrows ==
  ASSUME NEW lo \in Int, NEW hi \in Int, NEW x \in Int,
         NEW e \in SUBSET Moves, NEW d \in SUBSET e, NEW P, NEW O \in SUBSET P,
         Within(lo, hi, x, d, O)
  PROVE  Within(lo, hi, x, e, P)
<1>1. Goods(d, O) \subseteq Goods(e, P) /\ SentBack(d, O) \subseteq SentBack(e, P)
  BY DEF Goods, SentBack
<1>2. d \in SUBSET Moves
  OBVIOUS
<1>3. Total(Qty, Goods(d, O)) <= Total(Qty, Goods(e, P))
  BY <1>1, GoodsAndSentBack, Constants, TotalGrows
<1>4. Total(Qty, SentBack(d, O)) <= Total(Qty, SentBack(e, P))
  BY <1>1, GoodsAndSentBack, Constants, TotalGrows
<1> QED
  <2>1. /\ Total(Qty, Goods(d, O)) \in Nat /\ Total(Qty, SentBack(d, O)) \in Nat
        /\ Total(Qty, Goods(e, P)) \in Nat /\ Total(Qty, SentBack(e, P)) \in Nat
    BY <1>2, GoodsAndSentBack
  <2> QED
    BY <1>3, <1>4, <2>1 DEF Within

\* A move that is done moves what is due, and the bounds.
LEMMA WithinAdded ==
  ASSUME NEW lo \in Int, NEW hi \in Int, NEW x \in Int,
         NEW d \in SUBSET Moves, NEW O, NEW m \in Moves, m \notin d, m \notin Scraps,
         Owner(m) \in O, Within(lo, hi, x, d, O)
  PROVE  Within(lo, hi, x + Stored[m], d \cup {m}, O)
<1>1. Qty[m] \in Nat /\ d \cup {m} \in SUBSET Moves /\ Qty \in [Moves -> Int]
  BY Constants
<1>2. CASE m \in Returns
  <2>1. Stored[m] = -Qty[m]
    BY <1>2 DEF Stored
  <2>2. m \in O
    BY <1>2, Constants DEF Owner
  <2>3. SentBack(d \cup {m}, O) = SentBack(d, O) \cup {m} /\ m \notin SentBack(d, O)
    BY <1>2, <2>2 DEF SentBack
  <2>4. Goods(d \cup {m}, O) = Goods(d, O)
    BY <1>2 DEF Goods
  <2>5. Total(Qty, SentBack(d \cup {m}, O)) = Total(Qty, SentBack(d, O)) + Qty[m]
    <3>1. SentBack(d, O) \in SUBSET Moves
      BY GoodsAndSentBack
    <3>2. Total(Qty, SentBack(d, O) \cup {m}) = Total(Qty, SentBack(d, O)) + Qty[m]
      BY <1>1, <2>3, <3>1, TotalAdd, Constants
    <3> QED
      BY <2>3, <3>2, Zenon
  <2>6. Total(Qty, SentBack(d, O)) \in Int /\ Total(Qty, Goods(d, O)) \in Int
    BY GoodsAndSentBack
  <2> QED
    BY <1>1, <2>1, <2>4, <2>5, <2>6 DEF Within
<1>3. CASE m \notin Returns
  <2>1. Stored[m] = Qty[m]
    BY <1>3 DEF Stored
  <2>2. Goods(d \cup {m}, O) = Goods(d, O) \cup {m} /\ m \notin Goods(d, O)
    BY <1>3 DEF Goods
  <2>3. SentBack(d \cup {m}, O) = SentBack(d, O)
    BY <1>3 DEF SentBack
  <2>4. Total(Qty, Goods(d \cup {m}, O)) = Total(Qty, Goods(d, O)) + Qty[m]
    <3>1. Goods(d, O) \in SUBSET Moves
      BY GoodsAndSentBack
    <3>2. Total(Qty, Goods(d, O) \cup {m}) = Total(Qty, Goods(d, O)) + Qty[m]
      BY <1>1, <2>2, <3>1, TotalAdd, Constants
    <3> QED
      BY <2>2, <3>2, Zenon
  <2>5. Total(Qty, SentBack(d, O)) \in Int /\ Total(Qty, Goods(d, O)) \in Int
    BY GoodsAndSentBack
  <2> QED
    BY <1>1, <2>1, <2>3, <2>4, <2>5 DEF Within
<1> QED
  BY <1>2, <1>3

\* It is received, or goes back; a scrap is neither.
LEMMA ReceivedAdded ==
  ASSUME NEW d \in SUBSET Moves, NEW m \in Moves, m \notin d
  PROVE  /\ m \notin Scraps => Received(d \cup {m}) = Received(d) + Stored[m]
         /\ m \in Scraps => Received(d \cup {m}) = Received(d)
<1>1. CASE m \in Scraps
  <2>1. (d \cup {m}) \ Scraps = d \ Scraps
    BY <1>1
  <2> QED
    BY <1>1, <2>1 DEF Received
<1>2. CASE m \notin Scraps
  <2>1. (d \cup {m}) \ Scraps = (d \ Scraps) \cup {m} /\ m \notin d \ Scraps
        /\ d \ Scraps \in SUBSET Moves
    BY <1>2
  <2>2. Stored \in [Moves -> Int]
    BY Constants DEF Stored
  <2>3. Total(Stored, (d \ Scraps) \cup {m}) = Total(Stored, d \ Scraps) + Stored[m]
    BY <2>1, <2>2, TotalAdd, Constants
  <2> QED
    BY <1>2, <2>1, <2>3 DEF Received
<1> QED
  BY <1>1, <1>2

\* What is scrapped was not received or sent back by it.
LEMMA ScrapsDoNotCount ==
  ASSUME NEW d, NEW e, d \ Scraps = e \ Scraps
  PROVE  /\ Received(d) = Received(e)
         /\ \A O : Goods(d, O) = Goods(e, O) /\ SentBack(d, O) = SentBack(e, O)
<1>1. Received(d) = Received(e)
  BY DEF Received
<1>2. \A O : Goods(d, O) = Goods(e, O)
  BY DEF Goods
<1>3. \A O : SentBack(d, O) = SentBack(e, O)
  BY Constants DEF SentBack
<1> QED
  BY <1>1, <1>2, <1>3

\* What is to be billed is a number, whoever computes it.
LEMMA DueTypes ==
  ASSUME Struct
  PROVE  Due \in Int /\ (cron.on => DueThen \in Int /\ DueSeen \in Int /\ cron \in Running)
<1>1. Due \in Int
  BY Sums DEF Struct, Types, Due
<1>2. ASSUME cron.on
      PROVE  DueThen \in Int /\ DueSeen \in Int /\ cron \in Running
  <2>1. cron \in Running
    BY <1>2 DEF Struct, Types, Idle
  <2>2. /\ cron.auto \in [Pickings -> Int] /\ cron.manual \in [Hands -> Int]
        /\ manual \in [Hands -> Int] /\ AutoThen \in [Pickings -> Int]
        /\ done \in SUBSET Moves /\ cron.done \in SUBSET Moves
    BY <2>1 DEF Struct, Types, Running, AutoThen
  <2>3. Received(done) \in Int /\ Received(cron.done) \in Int
        /\ Invoiced(AutoThen, manual) \in Int /\ Invoiced(cron.auto, cron.manual) \in Int
    BY <2>2, Sums
  <2> QED
    BY <2>1, <2>3 DEF DueThen, DueSeen
<1> QED
  BY <1>1, <1>2

\* The bounds of what is due are numbers, on either side of 0.
LEMMA BoundTypes ==
  ASSUME Types
  PROVE  Lo \in Int /\ Hi \in Int /\ Lo <= 0 /\ 0 <= Hi
BY DEF Types, Lo, Hi

\* Without bills, the scheduled action leaves the invoiced quantities as they are.
LEMMA NoBillsThen ==
  ASSUME Struct, cron.bills = {}
  PROVE  DueThen = Due
<1>1. auto \in [Pickings -> Int]
  BY DEF Struct, Types
<1>2. AutoThen = auto
  BY <1>1 DEF AutoThen
<1> QED
  BY <1>2 DEF DueThen, Due

\* What it will leave is what it sees as long as nobody else writes the line.
LEMMA AutoThenSeen ==
  ASSUME Struct, cron.on, ~cron.staleLine
  PROVE  AutoThen = cron.auto
<1>1. cron.auto \in [Pickings -> Int]
  BY DueTypes DEF Running
<1>2. \A p \in Pickings \ cron.bills : cron.auto[p] = auto[p]
  BY DEF Struct, CronInv
<1> QED
  BY <1>1, <1>2 DEF AutoThen

\* A transfer or an added move is done.
LEMMA MoveDoneSums ==
  ASSUME Struct, Struct', SumsInv, NEW m \in Moves, m \notin done, m \notin Scraps,
         done' = done \cup {m}, auto' = auto, manual' = manual,
         unbilled' = unbilled, uncredited' = uncredited,
         cron'.on = cron.on, cron.on => UNCHANGED CronFields,
         pending \subseteq pending', left \subseteq left', Owner(m) \in Open',
         cron.on => Owner(m) \in OpenThen'
  PROVE  SumsInv'
<1>1. done \in SUBSET Moves /\ done' \in SUBSET Moves /\ Stored[m] \in Int
  BY Constants DEF Struct, Types, Stored
<1>2. /\ Received(done') = Received(done) + Stored[m] /\ Received(done) \in Int
      /\ Lo \in Int /\ Hi \in Int /\ Lo' = Lo /\ Hi' = Hi
  BY <1>1, ReceivedAdded, Sums, BoundTypes DEF Struct, Lo, Hi
<1>3. Within(Lo, Hi, Due, done, Open)'
  <2>1. Due' = Due + Stored[m]
    <3>1. Invoiced(auto, manual) \in Int
      BY Sums DEF Struct, Types
    <3> QED
      BY <1>1, <1>2, <3>1 DEF Due
  <2>2. Open \subseteq Open'
    BY DEF Open
  <2>3. Within(Lo, Hi, Due, done, Open')
    BY <1>1, <1>2, <2>2, WithinGrows, DueTypes DEF SumsInv
  <2>4. Within(Lo, Hi, Due + Stored[m], done \cup {m}, Open')
    <3> DEFINE O == Open'
               x == Due
    <3>1. x \in Int /\ Owner(m) \in O /\ Within(Lo, Hi, x, done, O)
      BY <2>3, DueTypes
    <3> HIDE DEF O, x
    <3>2. Within(Lo, Hi, x + Stored[m], done \cup {m}, O)
      BY <1>1, <1>2, <3>1, WithinAdded
    <3> QED
      BY <3>2 DEF O, x
  <2> QED
    BY <1>2, <2>1, <2>4 DEF Within, Goods, SentBack
<1>4. ASSUME cron.on
      PROVE  /\ Within(Lo, Hi, DueThen, done, OpenThen)'
             /\ Within(MinOf(DueSeen, 0) + Lo, MaxOf(DueSeen, 0) + Hi, DueThen, New, Pickings)'
  <2>1. UNCHANGED CronFields /\ cron \in Running
    BY <1>4, DueTypes
  <2>2. DueThen' = DueThen + Stored[m] /\ DueSeen' = DueSeen
    <3>1. Invoiced(AutoThen, manual) \in Int
      <4>1. AutoThen \in [Pickings -> Int]
        BY <2>1 DEF AutoThen, Struct, Types, Running
      <4> QED
        BY <4>1, Sums DEF Struct, Types
    <3>2. AutoThen' = AutoThen
      BY <2>1 DEF AutoThen, CronFields
    <3> QED
      BY <1>1, <1>2, <2>1, <3>1, <3>2 DEF DueThen, DueSeen, CronFields
  <2>3. OpenThen \subseteq OpenThen'
    BY <2>1 DEF OpenThen, CronFields
  <2>4. Within(Lo, Hi, DueThen, done, OpenThen')
    BY <1>1, <1>2, <1>4, <2>3, WithinGrows, DueTypes DEF SumsInv
  <2>5. Within(Lo, Hi, DueThen + Stored[m], done \cup {m}, OpenThen')
    <3> DEFINE O == OpenThen'
               x == DueThen
    <3>1. x \in Int /\ Owner(m) \in O /\ Within(Lo, Hi, x, done, O)
      BY <1>4, <2>4, DueTypes
    <3> HIDE DEF O, x
    <3>2. Within(Lo, Hi, x + Stored[m], done \cup {m}, O)
      BY <1>1, <1>2, <3>1, WithinAdded
    <3> QED
      BY <3>2 DEF O, x
  <2>6. Within(Lo, Hi, DueThen, done, OpenThen)'
    BY <1>2, <2>2, <2>5 DEF Within, Goods, SentBack
  <2> DEFINE lo == MinOf(DueSeen, 0) + Lo
             hi == MaxOf(DueSeen, 0) + Hi
  <2>7. lo \in Int /\ hi \in Int /\ lo' = lo /\ hi' = hi
    BY <1>2, <1>4, <2>2, DueTypes DEF MinOf, MaxOf
  <2>8. New \in SUBSET Moves /\ m \notin New /\ New' = New \cup {m}
    BY <1>1, <1>4, <2>1 DEF New, CronFields, Struct, CronInv
  <2>9. Owner(m) \in Pickings /\ Within(lo, hi, DueThen, New, Pickings)
    BY <1>4, Constants DEF Owner, SumsInv, Moves, Docs
  <2> HIDE DEF lo, hi
  <2>10. Within(lo, hi, DueThen + Stored[m], New \cup {m}, Pickings)
    BY <1>4, <2>7, <2>8, <2>9, WithinAdded, DueTypes
  <2>11. Within(lo, hi, DueThen', New', Pickings)
    BY <2>2, <2>8, <2>10, Zenon
  <2>12. Within(lo', hi', DueThen', New', Pickings)
    BY <2>7, <2>11, Zenon
  <2>13. Within(lo, hi, DueThen, New, Pickings)'
    BY <2>12 DEF Within, Goods, SentBack
  <2> QED
    BY <2>6, <2>13 DEF lo, hi
<1> QED
  BY <1>3, <1>4 DEF SumsInv

\* What is due is as before, and so are the transfers that are not yet billed.
LEMMA SameSums ==
  ASSUME Struct, Struct', SumsInv, done' \ Scraps = done \ Scraps,
         auto' = auto, manual' = manual, pending' = pending, left' = left,
         unbilled' = unbilled, uncredited' = uncredited,
         cron'.on = cron.on, cron.on => UNCHANGED CronFields
  PROVE  SumsInv'
<1>1. Received(done') = Received(done)
      /\ \A O : Goods(done', O) = Goods(done, O) /\ SentBack(done', O) = SentBack(done, O)
  BY ScrapsDoNotCount
<1>2. Due' = Due /\ Open' = Open /\ Lo' = Lo /\ Hi' = Hi
  BY <1>1 DEF Due, Open, Lo, Hi
<1>3. Within(Lo, Hi, Due, done, Open)'
  <2>1. Total(Qty, Goods(done', Open)) = Total(Qty, Goods(done, Open))
        /\ Total(Qty, SentBack(done', Open)) = Total(Qty, SentBack(done, Open))
    BY <1>1, Zenon
  <2> QED
    BY <1>2, <2>1 DEF SumsInv, Within, Goods, SentBack
<1>4. ASSUME cron.on
      PROVE  /\ Within(Lo, Hi, DueThen, done, OpenThen)'
             /\ Within(MinOf(DueSeen, 0) + Lo, MaxOf(DueSeen, 0) + Hi, DueThen, New, Pickings)'
  <2>1. UNCHANGED CronFields
    BY <1>4
  <2>2. DueThen' = DueThen /\ DueSeen' = DueSeen /\ OpenThen' = OpenThen
    <3>1. AutoThen' = AutoThen
      BY <2>1 DEF AutoThen, CronFields
    <3> QED
      BY <1>1, <2>1, <3>1 DEF DueThen, DueSeen, OpenThen, CronFields
  <2>3. New' \ Scraps = New \ Scraps
    BY <2>1 DEF New, CronFields
  <2>4. Goods(New', Pickings) = Goods(New, Pickings) /\ SentBack(New', Pickings) = SentBack(New, Pickings)
    BY <2>3, ScrapsDoNotCount
  <2>5. Total(Qty, Goods(New', Pickings)) = Total(Qty, Goods(New, Pickings))
        /\ Total(Qty, SentBack(New', Pickings)) = Total(Qty, SentBack(New, Pickings))
    BY <2>4, Zenon
  <2>6. Total(Qty, Goods(done', OpenThen)) = Total(Qty, Goods(done, OpenThen))
        /\ Total(Qty, SentBack(done', OpenThen)) = Total(Qty, SentBack(done, OpenThen))
    BY <1>1, Zenon
  <2>7. Within(Lo, Hi, DueThen, done, OpenThen)'
    BY <1>2, <1>4, <2>2, <2>6 DEF SumsInv, Within, Goods, SentBack
  <2>8. Within(MinOf(DueSeen, 0) + Lo, MaxOf(DueSeen, 0) + Hi, DueThen, New, Pickings)'
    BY <1>2, <1>4, <2>2, <2>5 DEF SumsInv, Within, Goods, SentBack, MinOf, MaxOf
  <2> QED
    BY <2>7, <2>8
<1> QED
  BY <1>3, <1>4 DEF SumsInv

\* Users who bill take what is due nearer to 0; what they cancel moves it, and the
\* bound on that side, away from 0.
Nearer(q) == (0 <= Due + q /\ Due + q <= Due) \/ (Due <= Due + q /\ Due + q <= 0)
LEMMA BillsDue ==
  ASSUME Struct, Bills
  PROVE  \E q \in Int :
           /\ Due' = Due + q
           /\ \/ Lo' = Lo /\ Hi' = Hi /\ Nearer(q)
              \/ q > 0 /\ Lo' = Lo /\ Hi' = Hi + q
              \/ q < 0 /\ Lo' = Lo + q /\ Hi' = Hi
<1>1. /\ auto \in [Pickings -> Int] /\ manual \in [Hands -> Int]
      /\ unbilled \in Nat /\ uncredited \in Nat
      /\ Received(done) \in Int /\ Due \in Int
      /\ Total(auto, Pickings) \in Int /\ Total(manual, Hands) \in Int
      /\ IsFiniteSet(Pickings) /\ IsFiniteSet(Hands)
  BY DueTypes, Sums, Constants, TotalType DEF Struct, Types
<1>0. /\ \A b \in Hands, v \in Int :
           Total([manual EXCEPT ![b] = v], Hands) = Total(manual, Hands) - manual[b] + v
      /\ \A p \in Pickings, v \in Int :
           Total([auto EXCEPT ![p] = v], Pickings) = Total(auto, Pickings) - auto[p] + v
  <2>1. auto \in [Pickings -> Int] /\ IsFiniteSet(Pickings)
    BY <1>1
  <2>2. manual \in [Hands -> Int] /\ IsFiniteSet(Hands)
    BY <1>1
  <2> QED
    BY <2>1, <2>2, TotalUpdate
<1>2. ASSUME NEW b \in Hands, NEW all \in BOOLEAN, BillByHand(b, all)
      PROVE  \E q \in Int : Due' = Due + q /\ Lo' = Lo /\ Hi' = Hi /\ Nearer(q)
  <2> DEFINE v == IF all THEN Due ELSE IF Due > 0 THEN 1 ELSE -1
  <2>1. /\ Due # 0 /\ manual[b] = 0 /\ manual' = [manual EXCEPT ![b] = v]
        /\ UNCHANGED <<done, auto, unbilled, uncredited>>
    BY <1>2 DEF BillByHand, Due
  <2>2. v \in Int /\ Nearer(-v) /\ -v \in Int
    BY <1>1, <2>1 DEF Nearer
  <2> HIDE DEF v
  <2>3. Total(manual', Hands) = Total(manual, Hands) + v
    <3>1. Total([manual EXCEPT ![b] = v], Hands) = Total(manual, Hands) - manual[b] + v
      BY <1>0, <2>2
    <3> QED
      BY <1>1, <2>1, <2>2, <3>1
  <2>4. Due' = Due + (-v)
    BY <1>1, <2>1, <2>2, <2>3 DEF Due, Invoiced
  <2>5. Lo' = Lo /\ Hi' = Hi
    BY <2>1 DEF Lo, Hi
  <2> QED
    BY <2>2, <2>4, <2>5
<1>3. ASSUME NEW q \in Int, Uninvoiced(q)
      PROVE  /\ done' = done
             /\ \/ q > 0 /\ Lo' = Lo /\ Hi' = Hi + q
                \/ q < 0 /\ Lo' = Lo + q /\ Hi' = Hi
  BY <1>1, <1>3 DEF Uninvoiced, Lo, Hi
<1>4. ASSUME NEW b \in Hands, CancelByHand(b)
      PROVE  manual[b] \in Int /\ Uninvoiced(manual[b]) /\ Due' = Due + manual[b]
  <2>1. /\ manual[b] \in Int /\ Uninvoiced(manual[b]) /\ auto' = auto
        /\ manual' = [manual EXCEPT ![b] = 0] /\ done' = done
    BY <1>1, <1>4 DEF CancelByHand, Uninvoiced
  <2>2. Total([manual EXCEPT ![b] = 0], Hands) = Total(manual, Hands) - manual[b] + 0
    BY <1>0
  <2> QED
    BY <1>1, <2>1, <2>2 DEF Due, Invoiced
<1>5. ASSUME NEW p \in Pickings, CancelBill(p)
      PROVE  auto[p] \in Int /\ Uninvoiced(auto[p]) /\ Due' = Due + auto[p]
  <2>1. /\ auto[p] \in Int /\ Uninvoiced(auto[p]) /\ manual' = manual
        /\ auto' = [auto EXCEPT ![p] = 0] /\ done' = done
    BY <1>1, <1>5 DEF CancelBill, Uninvoiced
  <2>2. Total([auto EXCEPT ![p] = 0], Pickings) = Total(auto, Pickings) - auto[p] + 0
    BY <1>0
  <2> QED
    BY <1>1, <2>1, <2>2 DEF Due, Invoiced
<1>6. CASE \E b \in Hands, all \in BOOLEAN : BillByHand(b, all)
  BY <1>2, <1>6
<1>7. CASE \E b \in Hands : CancelByHand(b)
  BY <1>3, <1>4, <1>7
<1>8. CASE \E p \in Pickings : CancelBill(p)
  BY <1>3, <1>5, <1>8
<1> QED
  BY <1>6, <1>7, <1>8 DEF Bills

\* Bounds that hold of what is due hold of it when users have billed or cancelled.
LEMMA BillsWithin ==
  ASSUME Struct, Bills, NEW lo \in Int, NEW hi \in Int, lo <= 0, 0 <= hi,
         NEW d \in SUBSET Moves, NEW O, Within(lo + Lo, hi + Hi, Due, d, O)
  PROVE  Within(lo + Lo', hi + Hi', Due', d, O)
<1>1. Due \in Int /\ Lo \in Int /\ Hi \in Int /\ Lo <= 0 /\ 0 <= Hi
  BY DueTypes, BoundTypes DEF Struct
<1>2. PICK q \in Int :
        /\ Due' = Due + q
        /\ \/ Lo' = Lo /\ Hi' = Hi /\ Nearer(q)
           \/ q > 0 /\ Lo' = Lo /\ Hi' = Hi + q
           \/ q < 0 /\ Lo' = Lo + q /\ Hi' = Hi
  BY BillsDue
<1>3. Total(Qty, Goods(d, O)) \in Nat /\ Total(Qty, SentBack(d, O)) \in Nat
  BY GoodsAndSentBack
<1> QED
  BY <1>1, <1>2, <1>3 DEF Within, Nearer

\* Users bill or cancel.
LEMMA BillsSums ==
  ASSUME Struct, Struct', SumsInv, Bills
  PROVE  SumsInv'
<1>1. UNCHANGED <<done, pending, left>> /\ LineFree
  BY BillsAre
<1>2. cron'.on = cron.on /\ (cron.on => UNCHANGED CronFields)
  BY BillsAre, StaleLineIs DEF Struct
<1>3. done \in SUBSET Moves /\ New \in SUBSET Moves
      /\ Lo \in Int /\ Hi \in Int /\ Lo' \in Int /\ Hi' \in Int
  BY BoundTypes DEF Struct, Types, New, Lo, Hi
<1>4. ASSUME NEW O, Within(Lo, Hi, Due, done, O)
      PROVE  Within(Lo', Hi', Due', done, O)
  <2>1. Within(0 + Lo, 0 + Hi, Due, done, O)
    BY <1>3, <1>4
  <2>2. Within(0 + Lo', 0 + Hi', Due', done, O)
    BY <1>3, <2>1, BillsWithin
  <2> QED
    BY <1>3, <2>2
<1>5. Within(Lo, Hi, Due, done, Open)'
  <2>1. Within(Lo', Hi', Due', done, Open)
    BY <1>4 DEF SumsInv
  <2> QED
    BY <1>1, <2>1 DEF Within, Goods, SentBack, Open
<1>6. ASSUME cron.on
      PROVE  /\ Within(Lo, Hi, DueThen, done, OpenThen)'
             /\ Within(MinOf(DueSeen, 0) + Lo, MaxOf(DueSeen, 0) + Hi, DueThen, New, Pickings)'
  <2>1. cron.bills = {} /\ DueThen = Due /\ UNCHANGED CronFields
    BY <1>1, <1>2, <1>6, NoBillsThen DEF LineFree
  <2>2. DueThen' = Due'
    <3>1. cron'.bills = {} /\ auto' \in [Pickings -> Int]
      BY <2>1, BillsAre DEF CronFields
    <3>2. AutoThen' = auto'
      BY <3>1 DEF AutoThen
    <3> QED
      BY <3>2 DEF DueThen, Due
  <2>3. DueSeen' = DueSeen /\ New' = New /\ OpenThen' = OpenThen
    BY <1>1, <2>1 DEF DueSeen, New, OpenThen, CronFields
  <2> DEFINE lo == MinOf(DueSeen, 0)
             hi == MaxOf(DueSeen, 0)
  <2>4. lo \in Int /\ hi \in Int /\ lo <= 0 /\ 0 <= hi
    BY <1>6, DueTypes DEF MinOf, MaxOf
  <2>5. Within(lo + Lo, hi + Hi, Due, New, Pickings)
    BY <1>6, <2>1 DEF SumsInv
  <2>6. lo' = lo /\ hi' = hi
    BY <2>3
  <2> HIDE DEF lo, hi
  <2>7. Within(lo + Lo', hi + Hi', Due', New, Pickings)
    BY <1>3, <2>4, <2>5, BillsWithin
  <2>8. Within(lo + Lo, hi + Hi, DueThen, New, Pickings)'
    BY <2>2, <2>3, <2>6, <2>7 DEF Within, Goods, SentBack
  <2>9. Within(Lo', Hi', Due', done, OpenThen)
    BY <1>4, <1>6, <2>1 DEF SumsInv
  <2>10. Within(Lo, Hi, DueThen, done, OpenThen)'
    BY <1>1, <2>2, <2>3, <2>9 DEF Within, Goods, SentBack
  <2> QED
    BY <2>8, <2>10 DEF lo, hi
<1> QED
  BY <1>2, <1>5, <1>6 DEF SumsInv

\* When it begins the scheduled action sees the table.
LEMMA CronStartSums ==
  ASSUME Struct, Struct', SumsInv, CronStart
  PROVE  SumsInv'
<1>1. /\ UNCHANGED <<done, pending, auto, manual, left, unbilled, uncredited>>
      /\ cron'.on /\ cron'.done = done /\ cron'.auto = auto /\ cron'.manual = manual
      /\ cron'.cleared = {} /\ cron'.failed = {} /\ cron'.bills = {}
  BY DEF CronStart, billing
<1>2. /\ Due' = Due /\ DueThen' = Due /\ DueSeen' = Due
      /\ Open' = Open /\ OpenThen' = Open /\ New' = {} /\ Lo' = Lo /\ Hi' = Hi
  <2>1. AutoThen' = auto
    BY <1>1 DEF AutoThen, Struct, Types
  <2> QED
    BY <1>1, <2>1 DEF Due, DueThen, DueSeen, Open, OpenThen, New, Lo, Hi
<1>3. Within(Lo, Hi, Due, done, Open)' /\ Within(Lo, Hi, DueThen, done, OpenThen)'
  BY <1>1, <1>2 DEF SumsInv, Within, Goods, SentBack
<1>4. Within(MinOf(DueSeen, 0) + Lo, MaxOf(DueSeen, 0) + Hi, DueThen, New, Pickings)'
  <2>1. Total(Qty, Goods({}, Pickings)) \in Nat /\ Total(Qty, SentBack({}, Pickings)) \in Nat
    BY GoodsAndSentBack
  <2>2. Within(MinOf(Due, 0) + Lo, MaxOf(Due, 0) + Hi, Due, {}, Pickings)
    BY <2>1, DueTypes, BoundTypes DEF Struct, Within, MinOf, MaxOf
  <2> QED
    BY <1>2, <2>2 DEF Within, Goods, SentBack, MinOf, MaxOf
<1> QED
  BY <1>3, <1>4 DEF SumsInv

\* When it ends the table is as it was to leave it.
LEMMA CronEndSums ==
  ASSUME Struct, Struct', SumsInv, CronCommit \/ CronCrash
  PROVE  SumsInv'
<1>1. cron.on /\ cron \in Running /\ ~cron'.on
  BY DueTypes DEF CronCommit, CronCrash, Idle
<1>2. CASE CronCommit
  <2>1. auto' = AutoThen
    BY <1>1, <1>2 DEF CronCommit, AutoThen
  <2>2. Due' = DueThen /\ done' = done /\ Open' = OpenThen /\ Lo' = Lo /\ Hi' = Hi
    BY <1>2, <2>1 DEF CronCommit, Due, DueThen, Open, OpenThen, Lo, Hi
  <2>3. Within(Lo, Hi, Due, done, Open)'
    BY <1>1, <2>2 DEF SumsInv, Within, Goods, SentBack
  <2> QED
    BY <1>1, <2>3 DEF SumsInv
<1>3. CASE CronCrash
  BY <1>1, <1>3 DEF CronCrash, billing, SumsInv, Within, Goods, SentBack, Due, Open, Lo, Hi
<1> QED
  BY <1>2, <1>3

\* The moves of a transfer that the scheduled action has seen
Group(p) == MovesOfDoc(p) \cap cron.done

\* A transfer with its added moves has units.
LEMMA GroupCounts ==
  ASSUME Struct, cron.on, NEW p \in Pickings, p \in cron.done
  PROVE  /\ Group(p) \in SUBSET Moves
         /\ Total(Qty, Group(p)) \in Nat /\ Total(Qty, Group(p)) > 0
<1>1. Group(p) \in SUBSET Moves /\ p \in Group(p)
  BY DueTypes DEF Group, MovesOfDoc, Running
<1>2. Qty[p] \in Nat /\ Qty[p] # 0 /\ Qty \in [Moves -> Int]
  BY Constants
<1>3. Total(Qty, Group(p)) = Qty[p] + Total(Qty, Group(p) \ {p})
  BY <1>1, <1>2, TotalAny, Constants
<1>4. Total(Qty, Group(p)) \in Nat /\ Total(Qty, Group(p) \ {p}) \in Nat
  <2>1. Group(p) \ {p} \in SUBSET Moves
    BY <1>1
  <2> QED
    BY <1>1, <2>1, Sums
<1> QED
  BY <1>1, <1>2, <1>3, <1>4

\* What is billed of a transfer, in terms of what the scheduled action sees
LEMMA ToBillIs ==
  ASSUME Struct, cron.on, NEW p \in Pickings
  PROVE  ToBill(p) =
           LET qty == Total(Qty, Group(p))
           IN  IF p \in Returns THEN IF DueSeen < 0 THEN -MinOf(qty, -DueSeen) ELSE 0
               ELSE IF DueSeen > 0 THEN MinOf(qty, DueSeen) ELSE 0
BY DEF ToBill, QtyToBill, DueSeen, Group

\* A sum is at most that of sets that cover its elements.
LEMMA TotalCovered ==
  ASSUME NEW A \in SUBSET Moves, NEW B \in SUBSET Moves, NEW C \in SUBSET Moves,
         A \subseteq B \cup C
  PROVE  Total(Qty, A) <= Total(Qty, B) + Total(Qty, C)
<1>1. Qty \in [Moves -> Int] /\ Qty \in [Moves -> Nat] /\ IsFiniteSet(Moves)
  BY Constants
<1> DEFINE D == C \ B
           E == B \cup D
<1>2. D \in SUBSET Moves /\ D \cap B = {} /\ E \in SUBSET Moves /\ A \in SUBSET E /\ D \in SUBSET C
  OBVIOUS
<1>3. Total(Qty, E) = Total(Qty, B) + Total(Qty, D)
  BY <1>1, <1>2, TotalUnion
<1> HIDE DEF D, E
<1>4. Total(Qty, A) <= Total(Qty, E) /\ Total(Qty, D) <= Total(Qty, C)
  BY <1>1, <1>2, TotalGrows
<1>5. /\ Total(Qty, A) \in Nat /\ Total(Qty, B) \in Nat /\ Total(Qty, C) \in Nat
      /\ Total(Qty, D) \in Nat /\ Total(Qty, E) \in Nat
  BY <1>2, Sums
<1> QED
  BY <1>3, <1>4, <1>5

\* The scheduled action passes a transfer, or leaves it to users.
LEMMA CronPassSums ==
  ASSUME Struct, Struct', SumsInv, NEW p \in Pickings,
         CronSkip(p) \/ CronFail(p) \/ (CronNothing(p) /\ ~cron.enabled)
  PROVE  SumsInv'
<1>1. cron.on /\ p \in cron.todo /\ p \in pending /\ cron \in Running
  BY DueTypes DEF CronSkip, CronFail, CronNothing, CanBill, Struct, CronInv
<1>2. UNCHANGED <<done, pending, auto, manual, left, unbilled, uncredited>>
  BY DEF CronSkip, CronFail, CronNothing, billing
<1>3. /\ cron'.on /\ cron'.done = cron.done /\ cron'.auto = cron.auto
      /\ cron'.bills = cron.bills
      /\ cron'.manual = cron.manual
      /\ \/ cron'.cleared = cron.cleared /\ cron'.failed = cron.failed
         \/ cron'.cleared = cron.cleared \cup {p} /\ cron'.failed = cron.failed \cup {p}
  BY <1>1 DEF CronSkip, CronFail, CronNothing, Cleared, Running
<1>4. /\ Due' = Due /\ DueThen' = DueThen /\ DueSeen' = DueSeen
      /\ Open' = Open /\ New' = New /\ Lo' = Lo /\ Hi' = Hi
  <2>1. AutoThen' = AutoThen
    BY <1>2, <1>3 DEF AutoThen
  <2> QED
    BY <1>2, <1>3, <2>1 DEF Due, DueThen, DueSeen, Open, New, Lo, Hi
<1>5. OpenThen \subseteq OpenThen'
  BY <1>1, <1>2, <1>3 DEF OpenThen
<1>6. Within(Lo, Hi, DueThen, done, OpenThen')
  BY <1>1, <1>5, WithinGrows, DueTypes, BoundTypes DEF SumsInv, Struct, Types
<1>7. Within(Lo, Hi, DueThen, done, OpenThen)'
  BY <1>2, <1>4, <1>6 DEF Within, Goods, SentBack
<1> QED
  BY <1>1, <1>2, <1>4, <1>7 DEF SumsInv, Within, Goods, SentBack, MinOf, MaxOf

\* There is nothing to bill of a transfer: what is due is on the other side of 0, but
\* for what is new.
LEMMA CronNothingSums ==
  ASSUME Struct, Struct', SumsInv, NEW p \in Pickings, CronNothing(p), cron.enabled
  PROVE  SumsInv'
<1>1. /\ cron.on /\ p \in cron.todo /\ p \in pending /\ p \in cron.done /\ p \notin cron.cleared
      /\ cron \in Running
  BY DueTypes DEF CronNothing, CanBill, Struct, CronInv
<1>2. UNCHANGED <<done, pending, auto, manual, left, unbilled, uncredited>>
  BY DEF CronNothing, billing
<1>3. /\ cron'.on /\ cron'.done = cron.done /\ cron'.auto = cron.auto
      /\ cron'.bills = cron.bills
      /\ cron'.manual = cron.manual
      /\ cron'.cleared = cron.cleared \cup {p} /\ cron'.failed = cron.failed
  BY <1>1 DEF CronNothing, Cleared, Running
<1>4. /\ Due' = Due /\ DueThen' = DueThen /\ DueSeen' = DueSeen
      /\ Open' = Open /\ New' = New /\ Lo' = Lo /\ Hi' = Hi
  <2>1. AutoThen' = AutoThen
    BY <1>2, <1>3 DEF AutoThen
  <2> QED
    BY <1>2, <1>3, <2>1 DEF Due, DueThen, DueSeen, Open, New, Lo, Hi
<1> DEFINE O == OpenThen'
<1>5. OpenThen \subseteq O \cup {p}
  BY <1>2, <1>3 DEF OpenThen
<1>6. done \in SUBSET Moves /\ New \in SUBSET Moves
  BY DEF Struct, Types, New
<1>7. /\ DueThen \in Int /\ DueSeen \in Int
      /\ Lo \in Int /\ Hi \in Int /\ Lo <= 0 /\ 0 <= Hi
  BY <1>1, DueTypes, BoundTypes DEF Struct
<1>8. Goods(New, Pickings) \subseteq Goods(done, O) /\ SentBack(New, Pickings) \subseteq SentBack(done, O)
  <2>1. \A m \in New \cap Pickings : m \in O
    BY <1>1, <1>2, <1>3 DEF New, Struct, CronInv, OpenThen
  <2>2. \A m \in New \cap Extra : Of[m] \in O
    BY <1>1, <1>2, <1>3 DEF Struct, CronInv, OpenThen
  <2>3. \A m \in New : m \in Pickings \/ m \in Extra \/ m \in Scraps
    BY <1>6 DEF Moves, Docs
  <2>4. \A m \in New \ Scraps : m \in done /\ Owner(m) \in O
    BY <2>1, <2>2, <2>3, Constants DEF Owner, New
  <2> HIDE DEF O
  <2> QED
    BY <2>1, <2>4, Constants DEF Goods, SentBack
<1>9. /\ Total(Qty, Goods(New, Pickings)) <= Total(Qty, Goods(done, O))
      /\ Total(Qty, SentBack(New, Pickings)) <= Total(Qty, SentBack(done, O))
  <2> HIDE DEF O
  <2> QED
    BY <1>6, <1>8, GoodsAndSentBack, Constants, TotalGrows
<1>10. /\ Total(Qty, Goods(New, Pickings)) \in Nat /\ Total(Qty, SentBack(New, Pickings)) \in Nat
       /\ Total(Qty, Goods(done, O)) \in Nat /\ Total(Qty, SentBack(done, O)) \in Nat
       /\ Total(Qty, Goods(done, OpenThen)) \in Nat
       /\ Total(Qty, SentBack(done, OpenThen)) \in Nat
  BY <1>6, GoodsAndSentBack
<1>11. Total(Qty, Group(p)) \in Nat /\ Total(Qty, Group(p)) > 0 /\ ToBill(p) = 0
  BY <1>1, GroupCounts DEF CronNothing
<1>12. /\ Within(Lo, Hi, DueThen, done, OpenThen)
       /\ Within(MinOf(DueSeen, 0) + Lo, MaxOf(DueSeen, 0) + Hi, DueThen, New, Pickings)
  BY <1>1 DEF SumsInv
<1>13. Within(Lo, Hi, DueThen, done, O)
  <2>1. CASE p \in Returns
    <3>1. DueSeen >= 0
      BY <1>1, <1>7, <1>11, <2>1, ToBillIs DEF MinOf
    <3>2. Goods(done, OpenThen) \subseteq Goods(done, O)
      BY <1>5, <2>1, Constants DEF Goods, Owner
    <3>3. Total(Qty, Goods(done, OpenThen)) <= Total(Qty, Goods(done, O))
      <4> HIDE DEF O
      <4> QED
        BY <1>6, <3>2, GoodsAndSentBack, Constants, TotalGrows
    <3> HIDE DEF O
    <3> QED
      BY <1>7, <1>9, <1>10, <1>12, <3>1, <3>3 DEF Within, MinOf, MaxOf
  <2>2. CASE p \notin Returns
    <3>1. DueSeen <= 0
      BY <1>1, <1>7, <1>11, <2>2, ToBillIs DEF MinOf
    <3>2. SentBack(done, OpenThen) \subseteq SentBack(done, O)
      BY <1>5, <2>2 DEF SentBack
    <3>3. Total(Qty, SentBack(done, OpenThen)) <= Total(Qty, SentBack(done, O))
      <4> HIDE DEF O
      <4> QED
        BY <1>6, <3>2, GoodsAndSentBack, Constants, TotalGrows
    <3> HIDE DEF O
    <3> QED
      BY <1>7, <1>9, <1>10, <1>12, <3>1, <3>3 DEF Within, MaxOf
  <2> QED
    BY <2>1, <2>2
<1>14. Within(Lo, Hi, DueThen, done, OpenThen)'
  BY <1>2, <1>4, <1>13 DEF Within, Goods, SentBack
<1> QED
  BY <1>1, <1>2, <1>4, <1>14 DEF SumsInv, Within, Goods, SentBack, MinOf, MaxOf

\* A bill takes what the transfer moved, as far as that is due.
LEMMA CronBillSums ==
  ASSUME Struct, Struct', SumsInv, NEW p \in Pickings, CronBill(p) \/ CronBillUnposted(p)
  PROVE  SumsInv'
<1>1. /\ cron.on /\ p \in cron.todo /\ p \in pending /\ p \in cron.done /\ p \notin cron.cleared
      /\ cron \in Running /\ ToBill(p) # 0 /\ ~cron.staleLine
  BY DueTypes DEF CronBill, CronBillUnposted, CanBill, Struct, CronInv
<1>2. UNCHANGED <<done, pending, auto, manual, left, unbilled, uncredited>>
  BY DEF CronBill, CronBillUnposted, billing
<1>3. /\ cron'.on /\ cron'.done = cron.done
      /\ cron'.auto = [cron.auto EXCEPT ![p] = ToBill(p)]
      /\ cron'.manual = cron.manual /\ cron'.bills = cron.bills \cup {p}
      /\ cron'.cleared = cron.cleared \cup {p} /\ cron'.failed = cron.failed
  BY <1>1 DEF CronBill, CronBillUnposted, Cleared, Running
<1>4. /\ Due' = Due /\ Open' = Open /\ New' = New /\ Lo' = Lo /\ Hi' = Hi
      /\ Lo \in Int /\ Hi \in Int /\ Lo <= 0 /\ 0 <= Hi
  BY <1>2, <1>3, BoundTypes DEF Struct, Due, Open, New, Lo, Hi
<1>5. /\ done \in SUBSET Moves /\ New \in SUBSET Moves /\ New \subseteq Scraps
      /\ cron.manual = manual /\ cron.done \subseteq done
  BY <1>1 DEF Struct, Types, New, CronInv
<1>6. DueThen = DueSeen /\ DueThen \in Int /\ ToBill(p) \in Int
  <2>1. done \ Scraps = cron.done \ Scraps
    BY <1>5 DEF New
  <2>2. Received(done) = Received(cron.done)
    BY <2>1, ScrapsDoNotCount
  <2> QED
    BY <1>1, <1>5, <2>2, DueTypes, ToBillType, AutoThenSeen DEF DueThen, DueSeen
<1>7. DueThen' = DueThen - ToBill(p) /\ DueSeen' = DueSeen - ToBill(p)
  <2>1. cron.auto[p] = 0
    BY <1>1 DEF Struct, CronInv, OrderInv
  <2>2. Total([cron.auto EXCEPT ![p] = ToBill(p)], Pickings) = Total(cron.auto, Pickings) - cron.auto[p] + ToBill(p)
    BY <1>1, <1>6, TotalUpdate, Constants DEF Running
  <2>3. /\ Total(cron.auto, Pickings) \in Int /\ Received(done) \in Int
        /\ Received(cron.done) \in Int
        /\ Total(manual, Hands) \in Int /\ Total(cron.manual, Hands) \in Int
    BY <1>1, Constants, TotalType, Sums DEF Struct, Types, Running
  <2>4. AutoThen = cron.auto
    BY <1>1, AutoThenSeen
  <2>5. AutoThen' = cron'.auto
    BY <1>1, <1>2, <1>3, <2>4 DEF AutoThen, Running
  <2> QED
    BY <1>2, <1>3, <1>6, <2>1, <2>2, <2>3, <2>4, <2>5 DEF DueThen, DueSeen, Invoiced
<1> DEFINE O == OpenThen'
           qty == Total(Qty, Group(p))
<1>8. OpenThen \subseteq O \cup {p}
  BY <1>2, <1>3 DEF OpenThen
<1>9. qty \in Nat /\ qty > 0 /\ Group(p) \in SUBSET Moves
  BY <1>1, GroupCounts
<1>10. /\ Total(Qty, Goods(done, O)) \in Nat /\ Total(Qty, SentBack(done, O)) \in Nat
       /\ Total(Qty, Goods(done, OpenThen)) \in Nat
       /\ Total(Qty, SentBack(done, OpenThen)) \in Nat
  BY <1>5, GoodsAndSentBack
<1>11. Within(Lo, Hi, DueThen, done, OpenThen)
  BY <1>1 DEF SumsInv
<1>12. Within(Lo, Hi, DueThen - ToBill(p), done, O)
  <2>1. CASE p \in Returns
    <3>1. DueThen < 0 /\ ToBill(p) = -MinOf(qty, -DueThen)
      BY <1>1, <1>6, <2>1, ToBillIs
    <3>2. SentBack(done, OpenThen) \subseteq Group(p) \cup SentBack(done, O)
      BY <1>1, <1>8 DEF SentBack, Group, MovesOfDoc
    <3> HIDE DEF O
    <3>3. Total(Qty, SentBack(done, OpenThen)) <= qty + Total(Qty, SentBack(done, O))
      BY <1>5, <1>9, <3>2, GoodsAndSentBack, TotalCovered
    <3> HIDE DEF qty
    <3> QED
      BY <1>4, <1>6, <1>9, <1>10, <1>11, <3>1, <3>3 DEF Within, MinOf, MaxOf
  <2>2. CASE p \notin Returns
    <3>1. DueThen > 0 /\ ToBill(p) = MinOf(qty, DueThen)
      BY <1>1, <1>6, <2>2, ToBillIs
    <3>2. Goods(done, OpenThen) \subseteq Group(p) \cup Goods(done, O)
      <4>1. \A m \in done \ Scraps : m \in cron.done
        BY <1>5 DEF New
      <4>2. \A m \in done : Owner(m) = p => m \in MovesOfDoc(p)
        BY DEF Owner, MovesOfDoc
      <4> HIDE DEF O
      <4> QED
        BY <1>8, <4>1, <4>2 DEF Goods, Group
    <3> HIDE DEF O
    <3>3. Total(Qty, Goods(done, OpenThen)) <= qty + Total(Qty, Goods(done, O))
      BY <1>5, <1>9, <3>2, GoodsAndSentBack, TotalCovered
    <3> HIDE DEF qty
    <3> QED
      BY <1>4, <1>6, <1>9, <1>10, <1>11, <3>1, <3>3 DEF Within, MinOf
  <2> QED
    BY <2>1, <2>2
<1>13. Within(Lo, Hi, DueThen, done, OpenThen)'
  BY <1>2, <1>4, <1>7, <1>12 DEF Within, Goods, SentBack
<1>14. Within(MinOf(DueSeen, 0) + Lo, MaxOf(DueSeen, 0) + Hi, DueThen, New, Pickings)'
  <2>1. Total(Qty, Goods(New, Pickings)) \in Nat /\ Total(Qty, SentBack(New, Pickings)) \in Nat
    BY <1>5, GoodsAndSentBack
  <2> DEFINE x == DueThen - ToBill(p)
  <2>2. x \in Int
    BY <1>6
  <2>3. DueThen' = x /\ DueSeen' = x
    BY <1>6, <1>7
  <2> HIDE DEF x
  <2>4. Within(MinOf(x, 0) + Lo, MaxOf(x, 0) + Hi, x, New, Pickings)
    BY <1>4, <2>1, <2>2 DEF Within, MinOf, MaxOf
  <2> QED
    BY <1>4, <2>3, <2>4 DEF Within, Goods, SentBack, MinOf, MaxOf
<1> QED
  BY <1>1, <1>2, <1>4, <1>13, <1>14 DEF SumsInv, Within, Goods, SentBack

\* Nothing is to be billed before anything was received.
LEMMA InitSums == Init => SumsInv
<1> SUFFICES ASSUME Init PROVE SumsInv
  OBVIOUS
<1>1. done = {} /\ manual = [b \in Hands |-> 0] /\ ~cron.on /\ auto = [p \in Pickings |-> 0]
      /\ unbilled = 0 /\ uncredited = 0
  BY DEF Init, Idle
<1>2. Received(done) = 0
  <2>1. Total(Stored, {}) = 0
    BY Constants, TotalStep
  <2>2. done \ Scraps = {}
    BY <1>1
  <2> QED
    BY <2>1, <2>2 DEF Received
<1>3. Total(auto, Pickings) = 0 /\ Total(manual, Hands) = 0
  BY <1>1, Constants, TotalZero
<1>4. Total(Qty, Goods(done, Open)) \in Nat /\ Total(Qty, SentBack(done, Open)) \in Nat
  BY <1>1, GoodsAndSentBack
<1> QED
  BY <1>1, <1>2, <1>3, <1>4 DEF SumsInv, Within, Due, Invoiced, Lo, Hi

\* All steps keep what is to be billed within the bounds.
LEMMA NextSums == Struct /\ SumsInv /\ [Next]_vars => SumsInv'
<1> SUFFICES ASSUME Struct, SumsInv, [Next]_vars
             PROVE  SumsInv'
  OBVIOUS
<1>1. Struct'
  BY NextStruct
<1>2. CASE Tick \/ Lock \/ SetBlocked \/ \E d \in Docs, date \in 1..today : EnterDate(d, date)
  <2>1. UNCHANGED OrderVars
    BY <1>2, TickStep
  <2> QED
    BY <1>1, <2>1, SameSums DEF OrderVars, CronFields
<1>3. ASSUME NEW d \in Docs, NEW date \in 1..today, EditDate(d, date)
      PROVE  SumsInv'
  <2>1. UNCHANGED <<done, pending, auto, manual, left, unbilled, uncredited>>
    BY <1>3 DEF EditDate, billing
  <2>2. cron'.on = cron.on /\ (cron.on => UNCHANGED CronFields)
    <3>1. CASE d \in Pickings
      BY <1>3, <3>1, StalePickingIs DEF EditDate, Struct
    <3>2. CASE d \notin Pickings
      BY <1>3, <3>2 DEF EditDate, CronFields
    <3> QED
      BY <3>1, <3>2
  <2> QED
    BY <1>1, <2>1, <2>2, SameSums
<1>4. ASSUME NEW s \in Scraps, DoScrap(s)
      PROVE  SumsInv'
  <2>1. /\ UNCHANGED <<pending, auto, manual, left, unbilled, uncredited, cron>>
        /\ done' \ Scraps = done \ Scraps
    BY <1>4 DEF DoScrap, billing
  <2> QED
    BY <1>1, <2>1, SameSums DEF CronFields
<1>5. ASSUME NEW p \in Pickings, ButtonValidate(p)
      PROVE  SumsInv'
  <2>1. /\ UNCHANGED <<auto, manual, unbilled, uncredited>> /\ p \notin done /\ done' = done \cup {p}
        /\ pending \subseteq pending' /\ left \subseteq left' /\ p \in pending' \cup left'
    BY <1>5 DEF ButtonValidate
  <2>2. cron'.on = cron.on /\ (cron.on => UNCHANGED CronFields)
    BY <1>5, StaleLineIs DEF ButtonValidate, Struct
  <2>3. p \in Moves /\ p \notin Scraps /\ Owner(p) = p
    BY Constants DEF Owner
  <2>4. p \in Open' /\ (cron.on => p \in OpenThen')
    BY <2>1, <2>2 DEF Open, OpenThen, CronFields, Struct, CronInv
  <2> QED
    BY <1>1, <2>1, <2>2, <2>3, <2>4, MoveDoneSums
<1>6. ASSUME NEW m \in Extra, CreateMove(m)
      PROVE  SumsInv'
  <2>1. /\ UNCHANGED <<auto, manual, pending, unbilled, uncredited>> /\ m \notin done /\ done' = done \cup {m}
        /\ left \subseteq left' /\ Of[m] \in pending' \cup left' /\ (cron.on => Of[m] \in left')
    BY <1>6 DEF CreateMove
  <2>2. cron'.on = cron.on /\ (cron.on => UNCHANGED CronFields)
    BY <1>6, StaleLineIs DEF CreateMove, Struct
  <2>3. m \in Moves /\ m \notin Scraps /\ Owner(m) = Of[m]
    BY Constants DEF Owner
  <2>4. Of[m] \in Open' /\ (cron.on => Of[m] \in OpenThen')
    BY <2>1 DEF Open, OpenThen
  <2> QED
    BY <1>1, <2>1, <2>2, <2>3, <2>4, MoveDoneSums
<1>7. ASSUME NEW p \in Pickings, CronOn(p)
      PROVE  SumsInv'
  BY <1>1, <1>7, CronPassSums, CronNothingSums, CronBillSums DEF CronOn
<1>8. CASE UNCHANGED vars
  BY <1>1, <1>8, SameSums DEF vars, billing, CronFields
<1>9. CASE Posts
  <2>1. UNCHANGED OrderVars
    BY <1>9, PostsStep
  <2> QED
    BY <1>1, <2>1, SameSums DEF OrderVars, CronFields
<1> QED
  BY <1>1, <1>2, <1>3, <1>4, <1>5, <1>6, <1>7, <1>8, <1>9, BillsSums, CronStartSums,
     CronEndSums DEF Next, CronOn, Posts, Bills

\* The inductive invariant of Receipts.
LEMMA SumsHold == Spec => [](Struct /\ SumsInv)
BY InitStruct, NextStruct, InitSums, NextSums, PTL DEF Spec

\* No more is billed than was received, but for returns that are still to be refunded
\* (purchase_order.py, _auto_bill_create and its callers; stock_picking.py,
\* _cron_auto_bill).
THEOREM NothingOverbilled == Spec => []NeverOverbilled
<1>1. Struct /\ SumsInv => NeverOverbilled
  <2> SUFFICES ASSUME Struct, SumsInv PROVE NeverOverbilled
    OBVIOUS
  <2>1. SentBack(done, Open) = {p \in Returns \cap done : p \in pending \cup left}
    BY DEF SentBack, Open
  <2>2. Total(Qty, SentBack(done, Open)) \in Nat
    BY GoodsAndSentBack DEF Struct, Types
  <2>3. (0 - uncredited) - Total(Qty, SentBack(done, Open))
          <= Received(done) - Invoiced(auto, manual)
    BY DEF SumsInv, Within, Due, Lo
  <2>4. /\ Received(done) \in Int /\ Invoiced(auto, manual) \in Int
        /\ uncredited \in Nat
    BY Sums DEF Struct, Types
  <2>5. Invoiced(auto, manual)
          <= Received(done) + Total(Qty, SentBack(done, Open)) + uncredited
    BY <2>2, <2>3, <2>4
  <2> QED
    BY <2>1, <2>5 DEF NeverOverbilled
<1> QED
  BY <1>1, SumsHold, PTL

\* What was received and what is billed differ by no more than what users cancelled, when
\* no transfer is pending or left to users.
THEOREM NothingUnbilled == Spec => []AllBilled
<1>1. Struct /\ SumsInv => AllBilled
  <2> SUFFICES ASSUME Struct, SumsInv, pending = {}, left = {}
               PROVE  -uncredited <= Due /\ Due <= unbilled
    BY DEF AllBilled, Due
  <2>1. SentBack(done, Open) = {} /\ Goods(done, Open) = {}
    BY DEF SentBack, Goods, Open
  <2>2. Total(Qty, {}) = 0
    BY Constants, TotalStep
  <2> QED
    BY <2>1, <2>2, DueTypes, BoundTypes DEF SumsInv, Within, Lo, Hi, Struct, Types
<1> QED
  BY <1>1, SumsHold, PTL

-----------------------------------------------------------------------------
(***************************************************************************)
(* Billing                                                                 *)
(*                                                                         *)
(* A step writes the record of one billing at most, and computes amounts   *)
(* anew for the billings it touches and those that follow them (Writes).   *)
(* Whatever is written, it is shown once what recomputation makes of it.   *)
(***************************************************************************)

\* A billing and the entries of its adjustment.
Entries == [amount : Int, open : Nat]
Records == [state : {"none", "draft", "billed", "cancel"}, date : Nat,
            lines : SUBSET Invoices, prev : Billings \cup {None},
            manual : BOOLEAN, prevManual : Int, paymentManual : Int,
            prevBilled : Int, payment : Int, total : Int,
            entries : Seq(Entries), entry : Nat]

\* The previous billing of each is there, and of an earlier date.
PrevOk(bs) ==
  \A b \in Billings : bs[b].prev # None =>
    /\ bs[b].prev \in Billings /\ bs[bs[b].prev].state # "none"
    /\ bs[bs[b].prev].date < bs[b].date

\* Billings are as they should be; those that were not created yet are empty.
BillsOk(bs) ==
  /\ bs \in [Billings -> Records]
  /\ \A b \in Billings : bs[b].entry <= Len(bs[b].entries)
  /\ \A b \in Billings : bs[b].state = "none" => bs[b] = Missing
  /\ PrevOk(bs)

\* What the assumption says of the constants
BillingConstants ==
  /\ IsFiniteSet(Invoices) /\ Refunds \subseteq Invoices
  /\ Amount \in [Invoices -> Nat] /\ DueOn \in [Invoices -> Nat]
  /\ TaxDiff \in [SUBSET Invoices -> Int]
  /\ IsFiniteSet(Billings) /\ Billings \subseteq Nat /\ Dates \subseteq Nat
  /\ None \notin Billings
  /\ Careless \subseteq Carelessness

\* They are so.
LEMMA BillingConstantsAre == BillingConstants
BY BillingAssumption DEF BillingConstants

\* A set of numbers that is not empty has a least one.
LEMMA NatLeast ==
  ASSUME NEW T \in SUBSET Nat, T # {}
  PROVE  \E n \in T : \A m \in T : n <= m
<1>1. \A x, y \in Nat : y < x => <<y, x>> \in OpToRel(<, Nat)
  BY DEF OpToRel
<1>2. PICK n \in T : \A m \in T : ~(<<m, n>> \in OpToRel(<, Nat))
  BY NatLessThanWellFounded, WFMin
<1>3. \A m \in T : m \in Nat /\ n \in Nat
  OBVIOUS
<1>4. \A m \in T : ~(m < n)
  BY <1>1, <1>2, <1>3, Zenon
<1> QED
  BY <1>3, <1>4

\* Numbers given to the elements of a finite set have a bound.
LEMMA HaveBound ==
  ASSUME NEW X, IsFiniteSet(X), NEW r \in [X -> Nat]
  PROVE  \E n \in Nat : \A x \in X : r[x] < n
<1> DEFINE T == {S \in SUBSET X : \E n \in Nat : \A x \in S : r[x] < n}
<1>1. ASSUME NEW S \in SUBSET X, \A x \in S : S \ {x} \in T
      PROVE  S \in T
  <2>1. CASE S = {}
    BY <2>1
  <2>2. CASE S # {}
    <3>1. PICK x \in S : TRUE
      BY <2>2
    <3>2. PICK n \in Nat : \A y \in S \ {x} : r[y] < n
      BY <1>1
    <3>3. r[x] \in Nat /\ n + r[x] + 1 \in Nat /\ r[x] < n + r[x] + 1
      OBVIOUS
    <3>4. \A y \in S : r[y] < n + r[x] + 1
      <4> SUFFICES ASSUME NEW y \in S, y # x PROVE r[y] < n + r[x] + 1
        BY <3>3
      <4>1. r[y] < n /\ r[y] \in Nat
        BY <3>2
      <4> QED
        BY <3>3, <4>1
    <3> QED
      BY <3>3, <3>4
  <2> QED
    BY <2>1, <2>2
<1> HIDE DEF T
<1>2. X \in T
  BY <1>1, SubsetInduct
<1> QED
  BY <1>2 DEF T

\* What billings have when their previous ones have it, all have.
LEMMA FromFirst ==
  ASSUME NEW bs, BillsOk(bs), NEW T,
         \A b \in Billings : (bs[b].prev # None => bs[b].prev \in T) => b \in T
  PROVE  Billings \subseteq T
<1> SUFFICES ASSUME Billings \ T # {} PROVE FALSE
  OBVIOUS
<1> DEFINE U == {bs[b].date : b \in Billings \ T}
<1>1. \A b \in Billings : bs[b].date \in Nat
  BY DEF BillsOk, Records
<1>2. U \in SUBSET Nat /\ U # {}
  BY <1>1
<1>3. PICK b \in Billings \ T : \A c \in Billings \ T : bs[b].date <= bs[c].date
  <2>1. PICK n \in U : \A m \in U : n <= m
    <3> HIDE DEF U
    <3> QED
      BY <1>2, NatLeast
  <2> QED
    BY <2>1
<1>4. bs[b].prev # None /\ bs[b].prev \notin T
  OBVIOUS
<1>5. bs[b].prev \in Billings /\ bs[bs[b].prev].date < bs[b].date
  BY <1>4 DEF BillsOk, PrevOk
<1> QED
  BY <1>1, <1>3, <1>4, <1>5

\* The value of g for a billing comes by F from that for its previous one.
IsFrom(g, bs, first, F) ==
  g = [b \in Billings |-> IF bs[b].prev = None THEN first[b] ELSE F[<<b, g[bs[b].prev]>>]]

\* Such functions exist.
LEMMA FromPrevious ==
  ASSUME BillingConstants, NEW bs, BillsOk(bs), NEW S, NEW first \in [Billings -> S],
         NEW F \in [Billings \X S -> S]
  PROVE  \E g \in [Billings -> S] : IsFrom(g, bs, first, F)
<1> DEFINE Value(g, b) == IF bs[b].prev = None THEN first[b] ELSE F[<<b, g[bs[b].prev]>>]
           T == {n \in Nat : \E g \in [Billings -> S] : \A b \in Billings :
                               bs[b].date < n => g[b] = Value(g, b)}
<1>1. \A b \in Billings : bs[b].date \in Nat
  BY DEF BillsOk, Records
<1>2. \A b \in Billings : bs[b].prev # None =>
        bs[b].prev \in Billings /\ bs[bs[b].prev].date < bs[b].date
  BY DEF BillsOk, PrevOk
<1>3. ASSUME NEW g \in [Billings -> S], NEW b \in Billings PROVE Value(g, b) \in S
  <2>1. CASE bs[b].prev = None
    BY <2>1
  <2>2. CASE bs[b].prev # None
    <3>1. <<b, g[bs[b].prev]>> \in Billings \X S
      BY <1>2, <2>2
    <3> QED
      BY <2>2, <3>1
  <2> QED
    BY <2>1, <2>2
<1>4. 0 \in T
  BY <1>1
<1>5. ASSUME NEW n \in Nat, n \in T PROVE n + 1 \in T
  <2>1. PICK g \in [Billings -> S] : \A b \in Billings : bs[b].date < n => g[b] = Value(g, b)
    BY <1>5
  <2> DEFINE h == [b \in Billings |-> Value(g, b)]
  <2>2. h \in [Billings -> S]
    BY <1>3
  <2>3. ASSUME NEW b \in Billings, bs[b].date < n + 1, bs[b].prev # None
        PROVE  h[bs[b].prev] = g[bs[b].prev]
    <3>1. bs[b].prev \in Billings /\ bs[bs[b].prev].date < n
      BY <1>1, <1>2, <2>3
    <3> QED
      BY <2>1, <3>1
  <2>4. \A b \in Billings : bs[b].date < n + 1 => h[b] = Value(h, b)
    BY <2>3
  <2> HIDE DEF h, Value
  <2> QED
    BY <2>2, <2>4
<1>6. T = Nat
  <2> SUFFICES ASSUME NEW m \in Nat, m \notin T PROVE FALSE
    OBVIOUS
  <2> DEFINE U == {n \in Nat : n \notin T}
  <2> HIDE DEF T
  <2>1. PICK n \in U : \A k \in U : n <= k
    BY NatLeast
  <2>2. n # 0 /\ n - 1 \in Nat /\ n - 1 \notin U /\ (n - 1) + 1 = n
    BY <1>4, <2>1
  <2> QED
    BY <1>5, <2>1, <2>2
<1>7. PICK n \in Nat : \A b \in Billings : bs[b].date < n
  <2> DEFINE r == [b \in Billings |-> bs[b].date]
  <2>1. r \in [Billings -> Nat]
    BY <1>1
  <2> HIDE DEF r
  <2>2. PICK n \in Nat : \A b \in Billings : r[b] < n
    BY <2>1, HaveBound DEF BillingConstants
  <2> QED
    BY <2>2 DEF r
<1>8. PICK g \in [Billings -> S] : \A b \in Billings : g[b] = Value(g, b)
  BY <1>6, <1>7
<1>9. g = [b \in Billings |-> Value(g, b)]
  <2> HIDE DEF Value
  <2> QED
    BY <1>8
<1> QED
  BY <1>9 DEF IsFrom
-----------------------------------------------------------------------------
(* Recomputation *)

\* The chain of a billing: its previous one, and the chain of that.
LEMMA ChainIs ==
  ASSUME BillingConstants, NEW bs, BillsOk(bs)
  PROVE  /\ Chain(bs) \in [Billings -> SUBSET Billings]
         /\ \A b \in Billings :
              Chain(bs)[b] = IF bs[b].prev = None THEN {}
                               ELSE {bs[b].prev} \cup Chain(bs)[bs[b].prev]
<1> DEFINE first == [b \in Billings |-> {}]
           F == [e \in Billings \X SUBSET Billings |-> ({bs[e[1]].prev} \cap Billings) \cup e[2]]
           Is(g) == g = [b \in Billings |-> IF bs[b].prev = None THEN {}
                                            ELSE {bs[b].prev} \cup g[bs[b].prev]]
           chain == CHOOSE g : Is(g)
<1>1. \A b \in Billings : bs[b].prev # None => bs[b].prev \in Billings
  BY DEF BillsOk, PrevOk
<1>2. PICK g \in [Billings -> SUBSET Billings] : IsFrom(g, bs, first, F)
  <2>1. first \in [Billings -> SUBSET Billings]
    OBVIOUS
  <2>2. F \in [Billings \X SUBSET Billings -> SUBSET Billings]
    OBVIOUS
  <2> HIDE DEF first, F
  <2> QED
    BY <2>1, <2>2, FromPrevious
<1>3. ASSUME NEW b \in Billings, bs[b].prev # None
      PROVE  F[<<b, g[bs[b].prev]>>] = {bs[b].prev} \cup g[bs[b].prev]
  BY <1>1, <1>3
<1>4. Is(g)
  BY <1>2, <1>3 DEF IsFrom
<1>5. Is(chain)
  BY <1>4
<1>6. Chain(bs) = chain
  BY DEF Chain
<1> HIDE DEF chain
<1> HIDE DEF first, F
<1>9. \A b \in Billings :
        /\ chain[b] = IF bs[b].prev = None THEN {} ELSE {bs[b].prev} \cup chain[bs[b].prev]
        /\ g[b] = IF bs[b].prev = None THEN {} ELSE {bs[b].prev} \cup g[bs[b].prev]
  BY <1>4, <1>5
<1>7. ASSUME NEW b \in Billings PROVE chain[b] = g[b]
  <2> DEFINE T == {c \in Billings : chain[c] = g[c]}
  <2>1. \A c \in Billings : (bs[c].prev # None => bs[c].prev \in T) => c \in T
    <3> SUFFICES ASSUME NEW c \in Billings, bs[c].prev # None => chain[bs[c].prev] = g[bs[c].prev]
                 PROVE  chain[c] = g[c]
      OBVIOUS
    <3> QED
      BY <1>9
  <2> HIDE DEF T
  <2>2. b \in T
    BY <2>1, FromFirst
  <2> QED
    BY <2>2 DEF T
<1>8. chain = [b \in Billings |-> chain[b]] /\ g = [b \in Billings |-> g[b]]
  BY <1>5
<1> HIDE DEF Is
<1>10. chain = g
  BY <1>7, <1>8, Zenon
<1> QED
  BY <1>6, <1>9, <1>10

\* A billing is not in its own chain.
LEMMA ChainBefore ==
  ASSUME BillingConstants, NEW bs, BillsOk(bs), NEW b \in Billings
  PROVE  \A c \in Chain(bs)[b] : bs[c].date < bs[b].date
<1> DEFINE T == {d \in Billings : \A c \in Chain(bs)[d] : bs[c].date < bs[d].date}
<1>1. ASSUME NEW d \in Billings, bs[d].prev # None => bs[d].prev \in T PROVE d \in T
  <2>1. CASE bs[d].prev = None
    BY <2>1, ChainIs
  <2>2. CASE bs[d].prev # None
    <3>1. /\ bs[d].prev \in Billings /\ bs[bs[d].prev].date < bs[d].date
          /\ \A c \in Billings : bs[c].date \in Nat
      BY <2>2 DEF BillsOk, PrevOk, Records
    <3>2. Chain(bs)[d] = {bs[d].prev} \cup Chain(bs)[bs[d].prev]
      BY <2>2, ChainIs
    <3>3. Chain(bs)[bs[d].prev] \subseteq Billings
      BY <3>1, ChainIs
    <3>4. \A c \in Chain(bs)[bs[d].prev] : bs[c].date < bs[bs[d].prev].date
      BY <1>1, <2>2
    <3> QED
      BY <3>1, <3>2, <3>3, <3>4
  <2> QED
    BY <2>1, <2>2
<1> HIDE DEF T
<1>2. b \in T
  BY <1>1, FromFirst
<1> QED
  BY <1>2 DEF T

\* What is not in its chain does not matter for it.
LEMMA ChainSame ==
  ASSUME BillingConstants, NEW bs, BillsOk(bs), NEW cs, BillsOk(cs), NEW t,
         \A b \in Billings \ {t} : bs[b].prev = cs[b].prev
  PROVE  \A b \in Billings : t \notin {b} \cup Chain(bs)[b] => Chain(cs)[b] = Chain(bs)[b]
<1> DEFINE T == {b \in Billings : t \notin {b} \cup Chain(bs)[b] =>
                                    Chain(cs)[b] = Chain(bs)[b]}
<1>1. ASSUME NEW b \in Billings, bs[b].prev # None => bs[b].prev \in T PROVE b \in T
  <2> SUFFICES ASSUME t \notin {b} \cup Chain(bs)[b] PROVE Chain(cs)[b] = Chain(bs)[b]
    OBVIOUS
  <2>1. cs[b].prev = bs[b].prev
    OBVIOUS
  <2>2. CASE bs[b].prev = None
    BY <2>1, <2>2, ChainIs
  <2>3. CASE bs[b].prev # None
    <3>1. Chain(bs)[b] = {bs[b].prev} \cup Chain(bs)[bs[b].prev]
      BY <2>3, ChainIs
    <3>2. Chain(cs)[b] = {cs[b].prev} \cup Chain(cs)[cs[b].prev]
      BY <2>1, <2>3, ChainIs
    <3> QED
      BY <1>1, <2>1, <2>3, <3>1, <3>2
  <2> QED
    BY <2>2, <2>3
<1> HIDE DEF T
<1>2. Billings \subseteq T
  BY <1>1, FromFirst
<1> QED
  BY <1>2 DEF T

\* Each billing of a chain is the previous one of the billing itself or of another.
LEMMA ChainNext ==
  ASSUME BillingConstants, NEW bs, BillsOk(bs), NEW b \in Billings, NEW c \in Chain(bs)[b]
  PROVE  \E d \in {b} \cup Chain(bs)[b] : d \in Billings /\ bs[d].prev = c /\ bs[d].prev # None
<1> DEFINE Follows(d) == \A e \in Chain(bs)[d] : \E f \in {d} \cup Chain(bs)[d] :
                         f \in Billings /\ bs[f].prev = e /\ bs[f].prev # None
           T == {d \in Billings : Follows(d)}
<1>1. ASSUME NEW d \in Billings, bs[d].prev # None => bs[d].prev \in T PROVE d \in T
  <2>1. CASE bs[d].prev = None
    BY <2>1, ChainIs
  <2>2. CASE bs[d].prev # None
    <3>1. Chain(bs)[d] = {bs[d].prev} \cup Chain(bs)[bs[d].prev]
      BY <2>2, ChainIs
    <3>2. Follows(bs[d].prev)
      BY <1>1, <2>2
    <3> QED
      BY <2>2, <3>1, <3>2
  <2> QED
    BY <2>1, <2>2
<1> HIDE DEF T
<1>2. b \in T
  BY <1>1, FromFirst
<1> QED
  BY <1>2 DEF T

\* Totals of invoices and of billings are numbers.
LEMMA BillingSums ==
  ASSUME BillingConstants, NEW bs, BillsOk(bs), NEW rs \in [Invoices -> Nat]
  PROVE  /\ \A f, S : Sum(f, S) = Total(f, S)
         /\ Signed(rs) \in [Invoices -> Int]
         /\ \A S \in SUBSET Invoices : AmountTotal(S) \in Int
         /\ \A b \in Billings : LinesOpen(rs, b, bs) \in Int /\ EntryOpen(bs, b) \in Nat
<1>1. \A f, S : Sum(f, S) = Total(f, S)
  BY DEF Sum, Total
<1>2. \A r \in [Invoices -> Nat] : Signed(r) \in [Invoices -> Int]
  BY DEF Signed
<1>3. \A r \in [Invoices -> Nat], S \in SUBSET Invoices : Sum(Signed(r), S) \in Int
  BY <1>1, <1>2, TotalType DEF BillingConstants
<1>4. \A S \in SUBSET Invoices : AmountTotal(S) \in Int
  <2> SUFFICES ASSUME NEW S \in SUBSET Invoices PROVE AmountTotal(S) \in Int
    OBVIOUS
  <2>1. TaxDiff[S] \in Int /\ Sum(Signed(Amount), S) \in Int
    BY <1>3 DEF BillingConstants
  <2> QED
    BY <2>1 DEF AmountTotal
<1>5. ASSUME NEW b \in Billings PROVE LinesOpen(rs, b, bs) \in Int /\ EntryOpen(bs, b) \in Nat
  <2>1. /\ bs[b].lines \in SUBSET Invoices /\ bs[b].entries \in Seq(Entries)
        /\ bs[b].entry \in 0..Len(bs[b].entries)
    BY DEF BillsOk, Records
  <2>2. bs[b].entry # 0 => bs[b].entries[bs[b].entry] \in Entries
    BY <2>1
  <2> QED
    BY <1>3, <2>1, <2>2 DEF LinesOpen, EntryOpen, Entries
<1> QED
  BY <1>1, <1>2, <1>4, <1>5

\* What is open of the billings before b
Outstanding(bs, rs, b) ==
  Sum([c \in Candidates(bs, b) |-> LinesOpen(rs, c, bs) + EntryOpen(bs, c)],
      Candidates(bs, b))

\* It is a number.
LEMMA OutstandingType ==
  ASSUME BillingConstants, NEW bs, BillsOk(bs), NEW rs \in [Invoices -> Nat], NEW b
  PROVE  Outstanding(bs, rs, b) \in Int
<1> DEFINE all == Candidates(bs, b)
           f == [c \in all |-> LinesOpen(rs, c, bs) + EntryOpen(bs, c)]
<1>1. all \in SUBSET Billings /\ IsFiniteSet(all)
  BY FS_Subset DEF BillingConstants, Candidates
<1>2. f \in [all -> Int]
  <2>1. ASSUME NEW c \in all PROVE LinesOpen(rs, c, bs) + EntryOpen(bs, c) \in Int
    <3>1. c \in Billings
      BY <1>1
    <3>2. LinesOpen(rs, c, bs) \in Int /\ EntryOpen(bs, c) \in Int
      BY <3>1, BillingSums
    <3> QED
      BY <3>2
  <2> HIDE DEF all
  <2> QED
    BY <2>1
<1>3. Total(f, all) \in Int
  <2> HIDE DEF all, f
  <2> QED
    BY <1>1, <1>2, TotalType
<1> QED
  BY <1>3, BillingSums DEF Outstanding

\* The carry-over of a record: what was set for good, or what was computed
Carryover(r) ==
  IF r.manual THEN r.prevManual - r.paymentManual ELSE r.prevBilled - r.payment

\* What the record of b is when its amounts were computed
Renewed(bs, rs, b, new) ==
  /\ new \in Records
  /\ new = [bs[b] EXCEPT !.prevBilled = new.prevBilled, !.payment = new.payment,
                         !.total = new.total]
  /\ new.total = AmountTotal(new.lines) + Carryover(new)
  /\ new.prevBilled - new.payment = IF new.prev = None THEN 0 ELSE Outstanding(bs, rs, b)

\* That is what _compute_carryover_amounts makes of it.
LEMMA AmountsAre ==
  ASSUME BillingConstants, NEW bs, BillsOk(bs), NEW rs \in [Invoices -> Nat], NEW b \in Billings,
         NEW x \in Int
  PROVE  Renewed(bs, rs, b, Amounts(bs, rs, b, x))
<1> DEFINE r == bs[b]
           p == IF r.prev = None THEN 0 ELSE x
           y == IF r.prev = None THEN 0 ELSE p - Outstanding(bs, rs, b)
           t == AmountTotal(r.lines) + IF r.manual THEN r.prevManual - r.paymentManual ELSE p - y
           new == [r EXCEPT !.prevBilled = p, !.payment = y, !.total = t]
<1>1. r \in Records
  BY DEF BillsOk
<1>2. Outstanding(bs, rs, b) \in Int /\ AmountTotal(r.lines) \in Int
  BY <1>1, OutstandingType, BillingSums DEF Records
<1>3. p \in Int /\ y \in Int /\ p - y = IF r.prev = None THEN 0 ELSE Outstanding(bs, rs, b)
  BY <1>2
<1>4. Amounts(bs, rs, b, x) = new
  BY DEF Amounts, Outstanding
<1> HIDE DEF p, y, r
<1>5. t \in Int
  BY <1>1, <1>2, <1>3 DEF Records
<1>6. t = AmountTotal(r.lines) + IF r.manual THEN r.prevManual - r.paymentManual ELSE p - y
  OBVIOUS
<1> HIDE DEF t
<1>7. new \in Records
  BY <1>1, <1>3, <1>5 DEF Records
<1>8. /\ new.prevBilled = p /\ new.payment = y /\ new.total = t
      /\ new.lines = r.lines /\ new.manual = r.manual /\ new.prev = r.prev
      /\ new.prevManual = r.prevManual /\ new.paymentManual = r.paymentManual
  BY <1>1 DEF Records
<1>9. new = [r EXCEPT !.prevBilled = new.prevBilled, !.payment = new.payment, !.total = new.total]
  BY <1>8
<1> HIDE DEF new
<1> QED
  BY <1>3, <1>4, <1>6, <1>7, <1>8, <1>9 DEF Renewed, Carryover, r

\* Those that are touched or follow one that is
Hit(bs, touched) == {b \in Billings : ({b} \cup Chain(bs)[b]) \cap touched # {}}

\* Recomputation goes from the first billing on.
LEMMA RecomputeIs ==
  ASSUME BillingConstants, NEW bs, BillsOk(bs), NEW rs \in [Invoices -> Nat], NEW touched
  PROVE  /\ Recompute(bs, rs, touched) \in [Billings -> Records]
         /\ \A b \in Billings :
              Recompute(bs, rs, touched)[b] =
                IF b \notin Hit(bs, touched) THEN bs[b]
                ELSE Amounts(bs, rs, b, IF bs[b].prev = None THEN 0
                                          ELSE Recompute(bs, rs, touched)[bs[b].prev].total)
<1> DEFINE Old(b) == ({b} \cup Chain(bs)[b]) \cap touched = {}
           Anew(b, x) == IF Old(b) THEN bs[b] ELSE Amounts(bs, rs, b, x)
           first == [b \in Billings |-> Anew(b, 0)]
           F == [e \in Billings \X Records |-> Anew(e[1], e[2].total)]
           Is(g) == g = [b \in Billings |->
                          IF Old(b) THEN bs[b]
                          ELSE Amounts(bs, rs, b, IF bs[b].prev = None THEN 0
                                                    ELSE g[bs[b].prev].total)]
           new == CHOOSE g : Is(g)
<1>1. \A b \in Billings : bs[b].prev # None => bs[b].prev \in Billings
  BY DEF BillsOk, PrevOk
<1>2. \A b \in Billings, x \in Int : Anew(b, x) \in Records
  <2> SUFFICES ASSUME NEW b \in Billings, NEW x \in Int PROVE Anew(b, x) \in Records
    OBVIOUS
  <2>1. bs[b] \in Records /\ Amounts(bs, rs, b, x) \in Records
    BY AmountsAre DEF BillsOk, Renewed
  <2> QED
    BY <2>1
<1> HIDE DEF Anew
<1>3. PICK g \in [Billings -> Records] : IsFrom(g, bs, first, F)
  <2>1. first \in [Billings -> Records]
    BY <1>2
  <2>2. F \in [Billings \X Records -> Records]
    <3> SUFFICES ASSUME NEW b \in Billings, NEW r \in Records PROVE Anew(b, r.total) \in Records
      OBVIOUS
    <3> QED
      BY <1>2 DEF Records
  <2> HIDE DEF first, F
  <2> QED
    BY <2>1, <2>2, FromPrevious
<1>4. ASSUME NEW b \in Billings
      PROVE  g[b] = Anew(b, IF bs[b].prev = None THEN 0 ELSE g[bs[b].prev].total)
  <2>1. CASE bs[b].prev = None
    BY <1>3, <2>1 DEF IsFrom
  <2>2. CASE bs[b].prev # None
    <3>1. <<b, g[bs[b].prev]>> \in Billings \X Records
      BY <1>1, <2>2
    <3> QED
      BY <1>3, <2>2, <3>1 DEF IsFrom
  <2> QED
    BY <2>1, <2>2
<1>5. Is(g)
  <2>1. g = [b \in Billings |-> g[b]]
    OBVIOUS
  <2> QED
    BY <1>4, <2>1 DEF Anew
<1>6. Is(new)
  BY <1>5
<1>7. Recompute(bs, rs, touched) = new
  BY DEF Recompute
<1> HIDE DEF new, first, F
<1>8. new = [b \in Billings |-> new[b]]
  BY <1>6
<1>9. \A b \in Billings : new[b] = Anew(b, IF bs[b].prev = None THEN 0 ELSE new[bs[b].prev].total)
  BY <1>6 DEF Anew
<1> HIDE DEF Is
<1>10. ASSUME NEW b \in Billings PROVE new[b] \in Records
  <2> DEFINE T == {c \in Billings : new[c] \in Records}
  <2>1. ASSUME NEW c \in Billings, bs[c].prev # None => bs[c].prev \in T PROVE c \in T
    <3> DEFINE x == IF bs[c].prev = None THEN 0 ELSE new[bs[c].prev].total
    <3>1. x \in Int
      <4>1. \A q \in Records : q.total \in Int
        BY DEF Records
      <4>2. bs[c].prev # None => new[bs[c].prev] \in Records
        BY <2>1
      <4>3. 0 \in Int
        OBVIOUS
      <4> QED
        BY <4>1, <4>2, <4>3, Zenon
    <3>2. new[c] = Anew(c, x)
      BY <1>9
    <3> HIDE DEF x
    <3> QED
      BY <1>2, <3>1, <3>2 DEF T
  <2> HIDE DEF T
  <2>2. b \in T
    BY <2>1, FromFirst
  <2> QED
    BY <2>2 DEF T
<1>11. new \in [Billings -> Records]
  BY <1>8, <1>10
<1> QED
  BY <1>7, <1>9, <1>11 DEF Anew, Hit

\* What the computation of amounts leaves alone
Same(r, q) ==
  /\ q.state = r.state /\ q.date = r.date /\ q.lines = r.lines /\ q.prev = r.prev
  /\ q.manual = r.manual /\ q.prevManual = r.prevManual /\ q.paymentManual = r.paymentManual
  /\ q.entries = r.entries /\ q.entry = r.entry

\* Billings that differ in their amounts only are as they should be, and the same is open.
LEMMA SameBills ==
  ASSUME BillingConstants, NEW bs, BillsOk(bs), NEW rs, NEW cs \in [Billings -> Records],
         \A b \in Billings : Same(bs[b], cs[b]),
         \A b \in Billings : bs[b].state = "none" => cs[b] = bs[b]
  PROVE  /\ BillsOk(cs)
         /\ Chain(cs) = Chain(bs)
         /\ \A b \in Billings : Candidates(cs, b) = Candidates(bs, b)
         /\ \A b \in Billings : Outstanding(cs, rs, b) = Outstanding(bs, rs, b)
<1>1. BillsOk(cs)
  <2>1. PrevOk(cs)
    BY DEF BillsOk, PrevOk, Same
  <2> QED
    BY <2>1 DEF BillsOk, Same
<1>2. Chain(cs) = Chain(bs)
  <2>1. /\ Chain(bs) \in [Billings -> SUBSET Billings]
        /\ Chain(cs) \in [Billings -> SUBSET Billings]
    BY <1>1, ChainIs
  <2>2. \A b \in Billings : None \notin {b} \cup Chain(bs)[b]
    BY <2>1 DEF BillingConstants
  <2>3. \A b \in Billings \ {None} : bs[b].prev = cs[b].prev
    BY DEF Same
  <2>4. \A b \in Billings : Chain(cs)[b] = Chain(bs)[b]
    BY <1>1, <2>2, <2>3, ChainSame
  <2> QED
    BY <2>1, <2>4
<1>3. \A b \in Billings : Candidates(cs, b) = Candidates(bs, b)
  BY DEF Candidates, Same
<1>4. ASSUME NEW b \in Billings PROVE Outstanding(cs, rs, b) = Outstanding(bs, rs, b)
  <2>1. \A c \in Billings : /\ LinesOpen(rs, c, cs) = LinesOpen(rs, c, bs)
                            /\ EntryOpen(cs, c) = EntryOpen(bs, c)
    BY DEF LinesOpen, EntryOpen, Same
  <2> DEFINE all == Candidates(bs, b)
  <2>2. all \subseteq Billings
    BY DEF Candidates
  <2>3. [c \in all |-> LinesOpen(rs, c, cs) + EntryOpen(cs, c)]
          = [c \in all |-> LinesOpen(rs, c, bs) + EntryOpen(bs, c)]
    <3> HIDE DEF all
    <3> QED
      BY <2>1, <2>2
  <2> QED
    BY <1>3, <2>3 DEF Outstanding
<1> QED
  BY <1>1, <1>2, <1>3, <1>4

\* The total of r is that of its invoices and what it carries over.
TotalOk(r) == r.total = AmountTotal(r.lines) + Carryover(r)

\* What recomputation does
LEMMA RecomputeKeeps ==
  ASSUME BillingConstants, NEW bs, BillsOk(bs), NEW rs \in [Invoices -> Nat],
         NEW touched, \A b \in touched : b \in Billings /\ bs[b].state # "none",
         NEW new, new = Recompute(bs, rs, touched)
  PROVE  /\ BillsOk(new) /\ Chain(new) = Chain(bs)
         /\ \A b \in Billings : Same(bs[b], new[b])
         /\ \A b \in Billings \ Hit(bs, touched) : new[b] = bs[b]
         /\ \A b \in Hit(bs, touched) :
              /\ TotalOk(new[b])
              /\ new[b].prevBilled - new[b].payment =
                   IF new[b].prev = None THEN 0 ELSE Outstanding(new, rs, b)
<1>1. /\ new \in [Billings -> Records]
      /\ \A b \in Billings \ Hit(bs, touched) : new[b] = bs[b]
  BY RecomputeIs
<1>2. \A b \in Billings : bs[b].prev # None => bs[b].prev \in Billings
  BY DEF BillsOk, PrevOk
<1>3. ASSUME NEW b \in Hit(bs, touched)
      PROVE  /\ new[b] = [bs[b] EXCEPT !.prevBilled = new[b].prevBilled,
                                       !.payment = new[b].payment, !.total = new[b].total]
             /\ TotalOk(new[b])
             /\ new[b].prevBilled - new[b].payment =
                  IF new[b].prev = None THEN 0 ELSE Outstanding(bs, rs, b)
  <2> DEFINE x == IF bs[b].prev = None THEN 0 ELSE new[bs[b].prev].total
  <2>1. b \in Billings /\ x \in Int
    BY <1>1, <1>2 DEF Hit, Records
  <2>2. new[b] = Amounts(bs, rs, b, x)
    BY <1>3, <2>1, RecomputeIs
  <2> HIDE DEF x
  <2>3. Renewed(bs, rs, b, new[b])
    BY <2>1, <2>2, AmountsAre
  <2> QED
    BY <2>3 DEF Renewed, TotalOk
<1>4. ASSUME NEW b \in Billings PROVE Same(bs[b], new[b])
  <2>1. CASE b \in Hit(bs, touched)
    <3>1. bs[b] \in Records
      BY DEF BillsOk
    <3> QED
      BY <1>3, <2>1, <3>1 DEF Same, Records
  <2>2. CASE b \notin Hit(bs, touched)
    BY <1>1, <2>2 DEF Same
  <2> QED
    BY <2>1, <2>2
<1>5. ASSUME NEW b \in Billings, bs[b].state = "none" PROVE new[b] = bs[b]
  <2>1. bs[b].prev = None
    BY <1>5 DEF BillsOk, Missing
  <2>2. Chain(bs)[b] = {}
    BY <2>1, ChainIs
  <2>3. b \notin Hit(bs, touched)
    BY <1>5, <2>2 DEF Hit
  <2> QED
    BY <1>1, <2>3
<1>6. /\ BillsOk(new) /\ Chain(new) = Chain(bs)
      /\ \A b \in Billings : Outstanding(new, rs, b) = Outstanding(bs, rs, b)
  BY <1>1, <1>4, <1>5, SameBills
<1>7. Hit(bs, touched) \subseteq Billings
  BY DEF Hit
<1> QED
  BY <1>1, <1>3, <1>4, <1>6, <1>7

-----------------------------------------------------------------------------
(* The steps *)

\* One billing is written.
LEMMA BillWritten ==
  ASSUME BillingConstants, NEW bs, BillsOk(bs), NEW t \in Billings, NEW r \in Records, r.state # "none",
         r.entry <= Len(r.entries),
         bs[t].state # "none" => r.date = bs[t].date,
         r.prev # None => /\ r.prev \in Billings /\ bs[r.prev].state # "none"
                          /\ bs[r.prev].date < r.date
  PROVE  BillsOk([bs EXCEPT ![t] = r])
<1> DEFINE cs == [bs EXCEPT ![t] = r]
<1>1. /\ cs \in [Billings -> Records] /\ cs[t] = r
      /\ \A b \in Billings \ {t} : cs[b] = bs[b]
  BY DEF BillsOk
<1> HIDE DEF cs
<1>3. r.prev # t
  <2>1. bs[t].date \in Nat
    BY DEF BillsOk, Records
  <2>2. t # None => ~(bs[t].state # "none" /\ bs[t].date < bs[t].date)
    BY <2>1
  <2> QED
    BY <2>2 DEF BillingConstants
<1>2. PrevOk(cs)
  BY <1>1, <1>3 DEF BillsOk, PrevOk
<1> QED
  BY <1>1, <1>2 DEF BillsOk, cs

\* The previous billing that is searched is billed and earlier.
LEMMA PrevBillingIs ==
  ASSUME BillingConstants, NEW bs, NEW b \in Billings,
         \A c \in Billings : bs[c].date \in Nat
  PROVE  PrevBilling(bs, b) \in Candidates(bs, b) \cup {None}
<1> DEFINE later(c, d) == bs[c].date > bs[d].date \/ (bs[c].date = bs[d].date /\ c >= d)
           T == {S \in SUBSET Billings : S # {} => \E c \in S : \A d \in S : later(c, d)}
           all == Candidates(bs, b)
<1>1. Billings \subseteq Nat /\ IsFiniteSet(Billings)
  BY DEF BillingConstants
<1>2. ASSUME NEW S \in SUBSET Billings, \A x \in S : S \ {x} \in T
      PROVE  S \in T
  <2> SUFFICES ASSUME NEW x \in S PROVE \E c \in S : \A d \in S : later(c, d)
    OBVIOUS
  <2>1. CASE S \ {x} = {}
    <3>1. later(x, x) /\ \A d \in S : d = x
      BY <1>1, <2>1
    <3> QED
      BY <3>1
  <2>2. CASE S \ {x} # {}
    <3>1. PICK c \in S \ {x} : \A d \in S \ {x} : later(c, d)
      BY <1>2, <2>2
    <3>2. \A d \in S : d \in Nat /\ bs[d].date \in Nat
      BY <1>1
    <3>3. later(c, x) \/ (later(x, c) /\ later(x, x))
      BY <3>2
    <3>4. \A d \in S : later(x, c) /\ later(c, d) => later(x, d)
      BY <3>2
    <3> HIDE DEF later
    <3> QED
      BY <3>1, <3>3, <3>4
  <2> QED
    BY <2>1, <2>2
<1> HIDE DEF T
<1>3. all \in T
  <2>1. all \in SUBSET Billings
    BY DEF Candidates
  <2> HIDE DEF all
  <2>2. \A S \in SUBSET Billings : S \in T
    BY <1>1, <1>2, SubsetInduct
  <2> QED
    BY <2>1, <2>2
<1>4. all # {} => \E c \in all : \A d \in all : later(c, d)
  BY <1>3 DEF T
<1>5. PrevBilling(bs, b) =
        IF all = {} THEN None ELSE CHOOSE c \in all : \A d \in all : later(c, d)
  BY DEF PrevBilling
<1> HIDE DEF all, later
<1>6. PrevBilling(bs, b) \in all \cup {None}
  BY <1>4, <1>5
<1> QED
  BY <1>6 DEF all

\* The state of a billing is written, and its previous one is searched again.
LEMMA WithStateIs ==
  ASSUME BillingConstants, NEW bs, BillsOk(bs), NEW b \in Billings, bs[b].state # "none",
         NEW s \in {"draft", "billed", "cancel"}
  PROVE  \E p \in Billings \cup {None} :
           /\ WithState(bs, b, s) = [bs EXCEPT ![b] = [bs[b] EXCEPT !.state = s, !.prev = p]]
           /\ BillsOk(WithState(bs, b, s))
<1> DEFINE written == [bs EXCEPT ![b].state = s]
           p == PrevBilling(written, b)
           r == [bs[b] EXCEPT !.state = s, !.prev = p]
<1>1. bs \in [Billings -> Records]
  BY DEF BillsOk
<1>2. /\ \A c \in Billings : written[c].date = bs[c].date /\ bs[c].date \in Nat
      /\ \A c \in Billings \ {b} : written[c].state = bs[c].state
  BY <1>1 DEF Records
<1> HIDE DEF written
<1>3. p \in Candidates(written, b) \cup {None}
  BY <1>2, PrevBillingIs
<1> HIDE DEF p
<1>4. p # None => p \in Billings /\ p # b /\ bs[p].state = "billed" /\ bs[p].date < bs[b].date
  BY <1>2, <1>3 DEF Candidates
<1>5. WithState(bs, b, s) = [bs EXCEPT ![b] = r]
  BY <1>1 DEF WithState, written, p
<1>6. /\ r \in Records /\ r.state = s /\ r.prev = p /\ r.date = bs[b].date
      /\ r.entry = bs[b].entry /\ r.entries = bs[b].entries
  <2>1. bs[b] \in Records /\ p \in Billings \cup {None}
    BY <1>1, <1>4
  <2> QED
    BY <2>1 DEF Records
<1> HIDE DEF r
<1>7. r.entry <= Len(r.entries)
  BY <1>6 DEF BillsOk
<1>8. BillsOk([bs EXCEPT ![b] = r])
  BY <1>4, <1>6, <1>7, BillWritten
<1> QED
  BY <1>4, <1>5, <1>8 DEF r

-----------------------------------------------------------------------------
(***************************************************************************)
(* What holds of the billings bs and the states inv of the invoices, when  *)
(* users are careful: an invoice is in one open billing, those in open     *)
(* billings are posted, a billing has an entry when it is billed and needs *)
(* one, and its amounts are fixed when it is billed.                       *)
(***************************************************************************)

Opened(r) == r.state \in {"draft", "billed"}

OneOpened(bs) ==
  \A b, c \in Billings : \A i \in bs[b].lines :
    Opened(bs[b]) /\ Opened(bs[c]) /\ i \in bs[c].lines => b = c

Adjustment(r) ==
  IF r.state = "billed" /\ TaxDiff[r.lines] # 0
  THEN Len(r.entries) = 1 /\ r.entry = 1 /\ r.entries[1].amount = TaxDiff[r.lines]
  ELSE r.entries = <<>> /\ r.entry = 0

RecordRight(r, inv) ==
  /\ Opened(r) => \A i \in r.lines : inv[i] = "posted"
  /\ Adjustment(r)
  /\ r.state = "billed" => r.manual

BillsRight(bs, inv) == OneOpened(bs) /\ \A b \in Billings : RecordRight(bs[b], inv)

TotalsOk(bs) == \A b \in Billings : bs[b].state # "none" => TotalOk(bs[b])

BillInv ==
  /\ invoice \in [Invoices -> {"draft", "posted"}]
  /\ open \in [Invoices -> Nat]
  /\ BillsOk(bill) /\ TotalsOk(bill) /\ BillsRight(bill, invoice)

\* A step writes the record of t, if t is a billing, and computes amounts anew.
Writes(bs, t, touched) ==
  /\ BillsOk(bs) /\ BillsRight(bs, invoice')
  /\ \A b \in Billings \ {t} : bs[b] = bill[b]
  /\ touched \in SUBSET Billings /\ \A b \in touched : bs[b].state # "none"
  /\ \A b \in Billings : bs[b].state # "none" /\ b \notin touched => TotalOk(bs[b])
  /\ t \in Billings /\ t \notin touched =>
       /\ bs[t].state = "billed" /\ bill[t].prev = bs[t].prev
       /\ \A b \in Billings : bs[b].state # "none" /\ bs[b].prev = t => b \in touched
  /\ \A i \in Invoices, b, c \in Billings :
       open'[i] # open[i] /\ i \in bs[c].lines /\ bs[b].prev = c /\ bs[b].state # "none"
         => b \in touched
  /\ t \in Billings /\ bill[t].state = "billed" /\ bs[t].state = "billed" =>
       /\ bs[t].lines = bill[t].lines /\ bs[t].manual /\ Carryover(bs[t]) = Carryover(bill[t])
  /\ bill' = Recompute(bs, open', touched)

\* Sets with one element, or none
LEMMA OneAtMost ==
  ASSUME NEW S, IsFiniteSet(S)
  PROVE  Cardinality(S) <= 1 <=> \A x, y \in S : x = y
<1>1. ASSUME Cardinality(S) <= 1 PROVE \A x, y \in S : x = y
  <2>1. Cardinality(S) = 0 \/ Cardinality(S) = 1
    BY <1>1, FS_CardinalityType
  <2>2. S = {} \/ \E x : S = {x}
    BY <2>1, FS_EmptySet, FS_Singleton
  <2> QED
    BY <2>2
<1>2. ASSUME \A x, y \in S : x = y PROVE Cardinality(S) <= 1
  <2>1. S = {} \/ \E x : S = {x}
    BY <1>2
  <2>2. Cardinality(S) = 0 \/ Cardinality(S) = 1
    BY <2>1, FS_EmptySet, FS_Singleton
  <2> QED
    BY <2>2
<1> QED
  BY <1>1, <1>2

\* The billing that was written is checked, so that all have invoices of their own.
LEMMA BillableIs ==
  ASSUME BillingConstants, NEW bs, NEW cs, OneOpened(bs), NEW t \in Billings,
         \A b \in Billings \ {t} : cs[b] = bs[b],
         cs[t].lines \subseteq Invoices,
         Opened(cs[t]) => Billable(cs, t) \/ (Opened(bs[t]) /\ cs[t].lines = bs[t].lines)
  PROVE  OneOpened(cs)
<1>1. CASE Opened(cs[t]) /\ Billable(cs, t)
  <2>1. ASSUME NEW i \in cs[t].lines, NEW b \in Billings, Opened(cs[b]), i \in cs[b].lines
        PROVE  b = t
    <3>1. OpenBillings(cs, i) \in SUBSET Billings
      BY DEF OpenBillings
    <3>2. IsFiniteSet(OpenBillings(cs, i))
      BY <3>1, FS_Subset DEF BillingConstants
    <3>3. Cardinality(OpenBillings(cs, i)) <= 1
      BY <1>1 DEF Billable
    <3>4. b \in OpenBillings(cs, i) /\ t \in OpenBillings(cs, i)
      BY <1>1, <2>1 DEF OpenBillings, Opened
    <3> QED
      BY <3>2, <3>3, <3>4, OneAtMost
  <2> QED
    BY <2>1 DEF OneOpened
<1>2. CASE ~Opened(cs[t]) \/ (Opened(bs[t]) /\ cs[t].lines = bs[t].lines)
  BY <1>2 DEF OneOpened, Opened
<1> QED
  BY <1>1, <1>2

\* Careful users press the buttons that a billing has.
LEMMA ButtonIs ==
  ASSUME Careless = {}, NEW b, NEW states, Button(b, states)
  PROVE  b \in Billings /\ bill[b].state # "none" /\ bill[b].state \in states
BY DEF Button, Existing

\* An invoice is paid, or its payment undone.
LEMMA PayWrites ==
  ASSUME BillingConstants, BillInv, NEW i \in Invoices, NEW amount \in Nat, Pay(i, amount)
  PROVE  \E touched : Writes(bill, None, touched) /\ open' \in [Invoices -> Nat] /\ invoice' = invoice
<1> DEFINE listing == {b \in Existing : i \in bill[b].lines}
           touched == After(bill, listing)
<1>1. /\ open' = [open EXCEPT ![i] = amount] /\ invoice' = invoice
      /\ bill' = Recompute(bill, open', touched)
  BY DEF Pay
<1>2. /\ open' \in [Invoices -> Nat]
      /\ \A j \in Invoices : open'[j] # open[j] => j = i
  BY <1>1 DEF BillInv
<1>3. touched \in SUBSET Billings /\ \A b \in touched : bill[b].state # "none"
  BY DEF After
<1>4. ASSUME NEW b \in Billings, NEW c \in Billings, i \in bill[c].lines, bill[b].prev = c,
             bill[b].state # "none"
      PROVE  b \in touched
  <2>1. bill[c].state # "none"
    BY <1>4 DEF BillInv, BillsOk, Missing
  <2> QED
    BY <1>4, <2>1 DEF After, Existing
<1> HIDE DEF touched
<1>5. Writes(bill, None, touched)
  BY <1>1, <1>2, <1>3, <1>4 DEF Writes, BillInv, BillingConstants, TotalsOk
<1> QED
  BY <1>1, <1>2, <1>5

\* The adjustment of a billing is paid.
LEMMA PayEntryWrites ==
  ASSUME BillingConstants, BillInv, NEW t \in Billings, PayEntry(t)
  PROVE  \E bs, touched : Writes(bs, t, touched) /\ open' = open /\ invoice' = invoice
<1> DEFINE r == bill[t]
           new == [r.entries EXCEPT ![r.entry] = [@ EXCEPT !.open = 0]]
           q == [r EXCEPT !.entries = new]
           bs == [bill EXCEPT ![t] = q]
           touched == After(bs, {t})
<1>1. bill \in [Billings -> Records] /\ r \in Records /\ TotalOk(r) /\ RecordRight(r, invoice)
      /\ r.state # "none"
  BY DEF BillInv, BillsOk, BillsRight, PayEntry, Existing, TotalsOk
<1>2. r.entry # 0
  BY DEF PayEntry, EntryOpen
<1>3. /\ r.state = "billed" /\ TaxDiff[r.lines] # 0 /\ Len(r.entries) = 1 /\ r.entry = 1
      /\ r.entries[1].amount = TaxDiff[r.lines]
  BY <1>1, <1>2 DEF RecordRight, Adjustment
<1>4. [bill EXCEPT ![t].entries[bill[t].entry].open = 0] = bs
  BY <1>1
<1>5. bill' = Recompute(bs, open', touched) /\ open' = open /\ invoice' = invoice
  BY <1>4 DEF PayEntry
<1>6. new \in Seq(Entries) /\ Len(new) = 1 /\ new[1].amount = TaxDiff[r.lines]
  <2>1. r.entries \in Seq(Entries) /\ r.entries[1] \in Entries
    BY <1>1, <1>3 DEF Records
  <2> DEFINE e == [r.entries[1] EXCEPT !.open = 0]
  <2>2. e \in Entries /\ e.amount = r.entries[1].amount
    BY <2>1 DEF Entries
  <2>3. new = [r.entries EXCEPT ![1] = e]
    BY <1>3
  <2> HIDE DEF e
  <2> QED
    BY <1>3, <2>1, <2>2, <2>3
<1> HIDE DEF new
<1>7. /\ q \in Records /\ q.entries = new /\ q.state = "billed" /\ q.entry = 1 /\ q.prev = r.prev
      /\ q.lines = r.lines /\ q.date = r.date /\ q.total = r.total /\ q.manual = r.manual
      /\ Carryover(q) = Carryover(r)
  BY <1>1, <1>3, <1>6 DEF Records, Carryover
<1>8. RecordRight(q, invoice) /\ TotalOk(q) /\ q.manual
  BY <1>1, <1>3, <1>6, <1>7 DEF RecordRight, Adjustment, TotalOk, Opened
<1> HIDE DEF q
<1>9. bs \in [Billings -> Records] /\ bs[t] = q /\ \A b \in Billings \ {t} : bs[b] = bill[b]
  BY <1>1, <1>7
<1>10. BillsOk(bs)
  <2>1. r.prev # None => /\ r.prev \in Billings /\ bill[r.prev].state # "none"
                         /\ bill[r.prev].date < r.date
    BY <1>1 DEF BillInv, BillsOk, PrevOk
  <2>2. r = bill[t]
    OBVIOUS
  <2> HIDE DEF r
  <2>5. q.entry = 1 /\ Len(q.entries) = 1
    BY <1>6, <1>7, Zenon
  <2>6. q.prev # None => /\ q.prev \in Billings /\ bill[q.prev].state # "none"
                         /\ bill[q.prev].date < q.date
    BY <1>7, <2>1
  <2>7. q.state # "none" /\ q.date = bill[t].date /\ q \in Records /\ BillsOk(bill)
    BY <1>7, <2>2 DEF BillInv
  <2>8. q.entry <= Len(q.entries)
    BY <2>5
  <2> QED
    BY <2>6, <2>7, <2>8, BillWritten
<1> HIDE DEF bs, r
<1>11. OneOpened(bs)
  <2>1. q.lines \subseteq Invoices
    BY <1>7 DEF Records
  <2> QED
    BY <1>3, <1>7, <1>9, <2>1, BillableIs DEF BillInv, BillsRight, Opened, r
<1>12. BillsRight(bs, invoice)
  BY <1>8, <1>9, <1>11 DEF BillsRight, BillInv
<1>13. touched \in SUBSET Billings /\ \A b \in touched : bs[b].state # "none"
  BY DEF After
<1>14. \A b \in Billings : bs[b].state # "none" /\ bs[b].prev = t => b \in touched
  BY DEF After
<1>15. \A b \in Billings : bs[b].state # "none" => TotalOk(bs[b])
  BY <1>8, <1>9 DEF BillInv, TotalsOk
<1> HIDE DEF touched
<1>16. Writes(bs, t, touched)
  BY <1>5, <1>7, <1>8, <1>9, <1>10, <1>12, <1>13, <1>14, <1>15 DEF Writes, r
<1> QED
  BY <1>5, <1>16

\* Of a billing that is written, and touched, these are to be shown.
LEMMA TouchedWrites ==
  ASSUME BillingConstants, BillInv, open' = open, invoice' = invoice, NEW t \in Billings,
         NEW bs, BillsOk(bs), \A b \in Billings \ {t} : bs[b] = bill[b],
         RecordRight(bs[t], invoice), bs[t].state # "none",
         Opened(bs[t]) => Billable(bs, t) \/ (Opened(bill[t]) /\ bs[t].lines = bill[t].lines),
         bill[t].state = "billed" => bs[t].state # "billed",
         NEW changed, bill' = Recompute(bs, open', {t} \cup After(bs, changed)) \/ bill' = Recompute(bs, open', {t})
  PROVE  \E touched : Writes(bs, t, touched)
<1>1. bs[t].lines \subseteq Invoices
  BY DEF BillsOk, Records
<1>2. OneOpened(bs)
  BY <1>1, BillableIs DEF BillInv, BillsRight
<1>3. BillsRight(bs, invoice)
  BY <1>2 DEF BillsRight, BillInv
<1>4. PICK touched \in {{t}, {t} \cup After(bs, changed)} : bill' = Recompute(bs, open', touched)
  OBVIOUS
<1>5. /\ touched \in SUBSET Billings /\ \A b \in touched : bs[b].state # "none"
      /\ t \in touched
  BY <1>4 DEF After
<1>6. \A b \in Billings : bs[b].state # "none" /\ b \notin touched => TotalOk(bs[b])
  BY <1>5 DEF BillInv, TotalsOk
<1>7. Writes(bs, t, touched)
  BY <1>3, <1>4, <1>5, <1>6 DEF Writes
<1> QED
  BY <1>7

\* A billing is created, for invoices that are posted.
LEMMA CreateWrites ==
  ASSUME BillingConstants, BillInv, NEW lines \in SUBSET Invoices, NEW d \in Dates,
         CreateBilling(lines, d), \A i \in lines : invoice[i] = "posted"
  PROVE  \E bs, touched : \E t \in Billings :
           Writes(bs, t, touched) /\ open' = open /\ invoice' = invoice
<1> DEFINE free == Billings \ Existing
           t == CHOOSE c \in free : \A o \in free : c <= o
           made == [bill EXCEPT ![t].state = "draft", ![t].date = d, ![t].lines = lines]
           p == PrevBilling(made, t)
           bs == [made EXCEPT ![t].prev = p]
           r == [Missing EXCEPT !.state = "draft", !.date = d, !.lines = lines, !.prev = p]
<1>1. t \in free
  <2>1. free # {} /\ free \in SUBSET Nat
    BY DEF CreateBilling, Existing, BillingConstants
  <2>2. \E c \in free : \A o \in free : c <= o
    <3> HIDE DEF free
    <3> QED
      BY <2>1, NatLeast
  <2> HIDE DEF free
  <2> QED
    BY <2>2
<1>2. /\ bill' = Recompute(bs, open, {t}) /\ Billable(bs, t)
      /\ open' = open /\ invoice' = invoice
  BY DEF CreateBilling
<1> HIDE DEF t
<1>3. t \in Billings /\ bill[t].state = "none"
  BY <1>1 DEF Existing
<1>4. bill \in [Billings -> Records] /\ bill[t] = Missing
  BY <1>3 DEF BillInv, BillsOk
<1>5. d \in Nat
  BY DEF BillingConstants
<1>6. /\ \A c \in Billings : made[c].date \in Nat
      /\ \A c \in Billings \ {t} : made[c] = bill[c]
      /\ made[t].date = d
  BY <1>3, <1>4, <1>5 DEF Records
<1>7. bs = [bill EXCEPT ![t] = r]
  BY <1>3, <1>4 DEF Missing
<1> HIDE DEF made
<1>8. p \in Candidates(made, t) \cup {None}
  BY <1>3, <1>6, PrevBillingIs
<1> HIDE DEF p
<1>9. p # None => p \in Billings /\ p # t /\ bill[p].state = "billed" /\ bill[p].date < d
  BY <1>6, <1>8 DEF Candidates
<1>10. /\ r.state = "draft" /\ r.date = d /\ r.lines = lines /\ r.prev = p
       /\ r.entries = <<>> /\ r.entry = 0
  BY DEF Missing
<1>11. r \in Records
  <2>1. bill[t] \in Records /\ r = [bill[t] EXCEPT !.state = "draft", !.date = d, !.lines = lines, !.prev = p]
    BY <1>3, <1>4
  <2> QED
    BY <1>5, <1>9, <2>1 DEF Records
<1> HIDE DEF r, bs
<1>12. BillsOk(bs)
  <2>1. r.entry <= Len(r.entries) /\ r.state # "none"
    BY <1>10
  <2>2. r.prev # None => /\ r.prev \in Billings /\ bill[r.prev].state # "none"
                         /\ bill[r.prev].date < r.date
    BY <1>9, <1>10
  <2> QED
    BY <1>3, <1>7, <1>11, <2>1, <2>2, BillWritten DEF BillInv
<1>13. bs[t] = r /\ \A b \in Billings \ {t} : bs[b] = bill[b]
  BY <1>3, <1>4, <1>7
<1>14. RecordRight(bs[t], invoice) /\ bs[t].state # "none"
  BY <1>10, <1>13 DEF RecordRight, Adjustment
<1>15. \E touched : Writes(bs, t, touched)
  BY <1>2, <1>3, <1>12, <1>13, <1>14, TouchedWrites
<1> QED
  BY <1>2, <1>3, <1>15

\* The lines of a draft are computed.
LEMMA ComputeLinesWrites ==
  ASSUME BillingConstants, BillInv, Careless = {}, NEW t \in Billings, ComputeLines(t)
  PROVE  \E bs, touched : Writes(bs, t, touched) /\ open' = open /\ invoice' = invoice
<1> DEFINE moves == GetMoves(t)
           r == [bill[t] EXCEPT !.lines = moves]
           bs == [bill EXCEPT ![t] = r]
<1>1. bill \in [Billings -> Records] /\ RecordRight(bill[t], invoice) /\ bill[t].state = "draft"
  BY ButtonIs DEF BillInv, BillsOk, BillsRight, ComputeLines
<1>2. moves \in SUBSET Invoices /\ \A i \in moves : invoice[i] = "posted"
  BY DEF GetMoves
<1>3. [bill EXCEPT ![t].lines = GetMoves(t)] = bs
  BY <1>1
<1>4. /\ bill' = Recompute(bs, open, {t} \cup After(bs, {t})) /\ Billable(bs, t)
      /\ open' = open /\ invoice' = invoice
  BY <1>3 DEF ComputeLines
<1> HIDE DEF moves
<1>5. /\ r \in Records /\ r.state = "draft" /\ r.lines = moves /\ r.date = bill[t].date
      /\ r.prev = bill[t].prev /\ r.entries = bill[t].entries /\ r.entry = bill[t].entry
  BY <1>1, <1>2 DEF Records
<1> HIDE DEF r
<1>6. BillsOk(bs)
  <2>1. r.entry <= Len(r.entries)
    BY <1>5 DEF BillInv, BillsOk
  <2>2. r.prev # None => /\ r.prev \in Billings /\ bill[r.prev].state # "none"
                         /\ bill[r.prev].date < r.date
    BY <1>5 DEF BillInv, BillsOk, PrevOk
  <2>3. r.state # "none"
    BY <1>5
  <2> QED
    BY <1>5, <2>1, <2>2, <2>3, BillWritten DEF BillInv
<1>7. bs[t] = r /\ \A b \in Billings \ {t} : bs[b] = bill[b]
  BY <1>1
<1> HIDE DEF bs
<1>8. RecordRight(bs[t], invoice) /\ bs[t].state # "none"
  BY <1>1, <1>2, <1>5, <1>7 DEF RecordRight, Adjustment
<1>9. bill[t].state # "billed"
  BY <1>1
<1>10. \E touched : Writes(bs, t, touched)
  BY <1>4, <1>6, <1>7, <1>8, <1>9, TouchedWrites
<1> QED
  BY <1>4, <1>10

\* A billing is validated, and its tax adjusted.
LEMMA ValidateWrites ==
  ASSUME BillingConstants, BillInv, Careless = {}, NEW t \in Billings, Validate(t)
  PROVE  \E bs, touched : Writes(bs, t, touched) /\ open' = open /\ invoice' = invoice
<1> DEFINE r == bill[t]
           f == Frozen(bill, t)
           frozen == [bill EXCEPT ![t] = f]
           billed == WithState(frozen, t, "billed")
           q == Adjusted(billed[t])
           bs == [billed EXCEPT ![t] = q]
           diff == TaxDiff[r.lines]
           new == [amount |-> diff, open |-> IF diff < 0 THEN -diff ELSE diff]
<1>1. bill \in [Billings -> Records] /\ r \in Records /\ RecordRight(r, invoice)
      /\ r.state = "draft"
  BY ButtonIs DEF BillInv, BillsOk, BillsRight, Validate
<1>2. r.entries = <<>> /\ r.entry = 0
  BY <1>1 DEF RecordRight, Adjustment
<1>3. /\ bill' = Recompute(bs, open, {t} \cup After(bs, {t})) /\ Billable(billed, t)
      /\ open' = open /\ invoice' = invoice
  BY DEF Validate
<1>4. /\ f \in Records /\ f.state = "draft" /\ f.lines = r.lines /\ f.date = r.date
      /\ f.prev = r.prev /\ f.entries = r.entries /\ f.entry = r.entry /\ f.manual
  <2>1. CASE r.manual
    BY <1>1, <2>1 DEF Frozen
  <2>2. CASE ~r.manual
    <3> DEFINE x == IF r.prev = None THEN 0 ELSE bill[r.prev].total
               fresh == Amounts(bill, open, t, x)
    <3>1. x \in Int
      BY <1>1 DEF BillInv, BillsOk, PrevOk, Records
    <3>2. Renewed(bill, open, t, fresh)
      <4> HIDE DEF x, r
      <4> QED
        BY <3>1, AmountsAre DEF BillInv
    <3>3. f = [fresh EXCEPT !.manual = TRUE, !.prevManual = fresh.prevBilled,
                            !.paymentManual = fresh.payment]
      BY <2>2 DEF Frozen
    <3> HIDE DEF fresh, x, f
    <3>4. /\ fresh \in Records /\ fresh.state = r.state /\ fresh.lines = r.lines
          /\ fresh.date = r.date /\ fresh.prev = r.prev /\ fresh.entries = r.entries
          /\ fresh.entry = r.entry
      BY <1>1, <3>2 DEF Renewed, Records
    <3> QED
      BY <1>1, <3>3, <3>4 DEF Records
  <2> QED
    BY <2>1, <2>2
<1> HIDE DEF f
<1>5. BillsOk(frozen)
  <2>1. f.entry <= Len(f.entries) /\ f.state # "none"
    BY <1>2, <1>4
  <2>2. f.prev # None => /\ f.prev \in Billings /\ bill[f.prev].state # "none"
                         /\ bill[f.prev].date < f.date
    BY <1>4 DEF BillInv, BillsOk, PrevOk
  <2> QED
    BY <1>4, <2>1, <2>2, BillWritten DEF BillInv
<1>6. frozen[t] = f /\ \A b \in Billings \ {t} : frozen[b] = bill[b]
  BY <1>1
<1> HIDE DEF frozen
<1>7. PICK p \in Billings \cup {None} :
        /\ billed = [frozen EXCEPT ![t] = [frozen[t] EXCEPT !.state = "billed", !.prev = p]]
        /\ BillsOk(billed)
  BY <1>4, <1>5, <1>6, WithStateIs
<1> HIDE DEF billed
<1>8. /\ billed[t] \in Records /\ billed[t].state = "billed" /\ billed[t].manual
      /\ billed[t].lines = r.lines /\ billed[t].entries = <<>> /\ billed[t].entry = 0
      /\ billed[t].date = r.date
      /\ \A b \in Billings \ {t} : billed[b] = bill[b]
  <2>1. frozen \in [Billings -> Records]
    BY <1>5 DEF BillsOk
  <2>2. billed[t] = [f EXCEPT !.state = "billed", !.prev = p]
        /\ \A b \in Billings \ {t} : billed[b] = bill[b]
    BY <1>6, <1>7, <2>1
  <2>3. billed[t] \in Records
    BY <1>7 DEF BillsOk
  <2>4. /\ billed[t].state = "billed" /\ billed[t].manual = f.manual /\ billed[t].lines = f.lines
        /\ billed[t].entries = f.entries /\ billed[t].entry = f.entry /\ billed[t].date = f.date
    <3>1. f \in Records /\ billed[t] = [f EXCEPT !.state = "billed", !.prev = p]
      BY <1>4, <2>2
    <3> QED
      BY <3>1 DEF Records
  <2> QED
    BY <1>2, <1>4, <2>2, <2>3, <2>4
<1>9. diff \in Int
  BY <1>1 DEF Records, BillingConstants
<1>10. /\ q \in Records /\ q.state = "billed" /\ q.manual /\ q.lines = r.lines
       /\ q.prev = billed[t].prev /\ q.date = r.date
       /\ q.entry <= Len(q.entries) /\ Adjustment(q)
  <2>1. CASE diff = 0
    <3>1. q = billed[t]
      BY <1>8, <2>1 DEF Adjusted
    <3> QED
      BY <1>8, <2>1, <3>1 DEF Adjustment
  <2>2. CASE diff # 0
    <3>1. new \in Entries /\ new.amount = diff
      BY <1>9 DEF Entries
    <3>2. q = [billed[t] EXCEPT !.entries = Append(<<>>, new), !.entry = Len(<<>>) + 1]
      BY <1>8, <2>2 DEF Adjusted
    <3> DEFINE one == Append(<<>>, new)
    <3> HIDE DEF new
    <3>3. one \in Seq(Entries) /\ Len(one) = 1 /\ one[1] = new /\ Len(<<>>) + 1 = 1
      BY <3>1
    <3> HIDE DEF one
    <3>4. q = [billed[t] EXCEPT !.entries = one, !.entry = 1]
      BY <3>2, <3>3 DEF one
    <3> HIDE DEF q, diff
    <3>5. /\ q \in Records /\ q.state = "billed" /\ q.manual /\ q.lines = r.lines
          /\ q.prev = billed[t].prev /\ q.date = r.date /\ q.entries = one /\ q.entry = 1
      BY <1>8, <3>3, <3>4 DEF Records
    <3>6. q.entry <= Len(q.entries)
      <4>1. q.entry = 1 /\ Len(q.entries) = 1
        BY <3>3, <3>5, Zenon
      <4> QED
        BY <4>1
    <3>7. Adjustment(q)
      BY <2>2, <3>1, <3>3, <3>5 DEF Adjustment, diff
    <3> QED
      BY <3>5, <3>6, <3>7
  <2> QED
    BY <2>1, <2>2
<1> HIDE DEF q
<1>11. BillsOk(bs)
  <2>1. PrevOk(billed) /\ BillsOk(billed)
    BY <1>7 DEF BillsOk
  <2>2. q.prev = billed[t].prev /\ q.date = billed[t].date
    BY <1>8, <1>10
  <2>3. q.prev # None => /\ q.prev \in Billings /\ billed[q.prev].state # "none"
                         /\ billed[q.prev].date < q.date
    BY <2>1, <2>2 DEF PrevOk
  <2>4. q.state # "none" /\ q \in Records /\ q.entry <= Len(q.entries)
    BY <1>10
  <2> QED
    BY <2>1, <2>2, <2>3, <2>4, BillWritten
<1>12. bs[t] = q /\ \A b \in Billings \ {t} : bs[b] = bill[b]
  BY <1>7, <1>8 DEF BillsOk
<1> HIDE DEF bs
<1>13. Billable(bs, t)
  <2>1. bs[t].lines = billed[t].lines
    BY <1>8, <1>10, <1>12
  <2>2. \A i : OpenBillings(bs, i) = OpenBillings(billed, i)
    BY <1>8, <1>10, <1>12 DEF OpenBillings
  <2> QED
    BY <1>3, <2>1, <2>2 DEF Billable
<1>14. RecordRight(bs[t], invoice) /\ bs[t].state # "none"
  BY <1>1, <1>10, <1>12 DEF RecordRight, Opened
<1>15. bill[t].state # "billed"
  BY <1>1
<1>16. \E touched : Writes(bs, t, touched)
  BY <1>3, <1>11, <1>12, <1>13, <1>14, <1>15, TouchedWrites
<1> QED
  BY <1>3, <1>16

\* A billing is cancelled, and its adjustment.
LEMMA CancelWrites ==
  ASSUME BillingConstants, BillInv, Careless = {}, NEW t \in Billings, Cancel(t)
  PROVE  \E bs, touched : Writes(bs, t, touched) /\ open' = open /\ invoice' = invoice
<1> DEFINE r == bill[t]
           state == WithState(bill, t, "cancel")
           entries == IF r.entry = 0 THEN r.entries ELSE RemoveAt(r.entries, r.entry)
           bs == [state EXCEPT ![t].entries = entries, ![t].entry = 0]
<1>1. bill \in [Billings -> Records] /\ r \in Records /\ RecordRight(r, invoice)
      /\ r.state \in {"draft", "billed"}
  BY ButtonIs DEF BillInv, BillsOk, BillsRight, Cancel
<1>2. entries = <<>>
  <2>1. CASE r.entry = 0
    BY <1>1, <2>1 DEF RecordRight, Adjustment
  <2>2. CASE r.entry # 0
    <3>1. r.entry = 1 /\ Len(r.entries) = 1 /\ r.entries \in Seq(Entries)
      BY <1>1, <2>2 DEF RecordRight, Adjustment, Records
    <3>2. RemoveAt(r.entries, 1) = SubSeq(r.entries, 1, 0) \o SubSeq(r.entries, 2, 1)
      BY <3>1 DEF RemoveAt
    <3>3. SubSeq(r.entries, 1, 0) = <<>> /\ SubSeq(r.entries, 2, 1) = <<>>
      BY <3>1
    <3> QED
      BY <2>2, <3>1, <3>2, <3>3
  <2> QED
    BY <2>1, <2>2
<1>3. /\ bill' = Recompute(bs, open, {t} \cup After(bs, {t}))
      /\ open' = open /\ invoice' = invoice
  BY DEF Cancel
<1> HIDE DEF entries
<1>4. PICK p \in Billings \cup {None} :
        /\ state = [bill EXCEPT ![t] = [r EXCEPT !.state = "cancel", !.prev = p]]
        /\ BillsOk(state)
  <2>1. r.state # "none" /\ BillsOk(bill)
    BY <1>1 DEF BillInv
  <2> QED
    BY <2>1, WithStateIs
<1> HIDE DEF state
<1> DEFINE q == [state[t] EXCEPT !.entries = <<>>, !.entry = 0]
<1>5. /\ state \in [Billings -> Records] /\ state[t] \in Records
      /\ state[t].state = "cancel" /\ state[t].date = r.date
      /\ \A b \in Billings \ {t} : state[b] = bill[b]
  BY <1>1, <1>4 DEF BillsOk, Records
<1>6. bs = [state EXCEPT ![t] = q]
  BY <1>2, <1>5
<1>7. /\ q \in Records /\ q.state = "cancel" /\ q.entries = <<>> /\ q.entry = 0
      /\ q.date = state[t].date /\ q.prev = state[t].prev
  <2>1. <<>> \in Seq(Entries)
    OBVIOUS
  <2> DEFINE none == <<>>
  <2>2. none \in Seq(Entries) /\ q = [state[t] EXCEPT !.entries = none, !.entry = 0]
    BY <2>1
  <2> HIDE DEF q, none
  <2>3. /\ q \in Records /\ q.state = "cancel" /\ q.entries = none /\ q.entry = 0
        /\ q.date = state[t].date /\ q.prev = state[t].prev
    BY <1>5, <2>2 DEF Records
  <2> QED
    BY <2>3 DEF none
<1> HIDE DEF q, bs
<1>8. BillsOk(bs)
  <2>1. q.prev # None => /\ q.prev \in Billings /\ state[q.prev].state # "none"
                         /\ state[q.prev].date < q.date
    BY <1>4, <1>7 DEF BillsOk, PrevOk
  <2>2. q.state # "none" /\ q.entry <= Len(q.entries)
    BY <1>7
  <2> QED
    BY <1>4, <1>6, <1>7, <2>1, <2>2, BillWritten
<1>9. bs[t] = q /\ \A b \in Billings \ {t} : bs[b] = bill[b]
  BY <1>5, <1>6
<1>10. RecordRight(bs[t], invoice) /\ bs[t].state # "none" /\ bs[t].state # "billed" /\ ~Opened(bs[t])
  BY <1>7, <1>9 DEF RecordRight, Adjustment, Opened
<1>11. \E touched : Writes(bs, t, touched)
  BY <1>3, <1>8, <1>9, <1>10, TouchedWrites
<1> QED
  BY <1>3, <1>11

\* A cancelled billing is a draft again.
LEMMA SetToDraftWrites ==
  ASSUME BillingConstants, BillInv, Careless = {}, NEW t \in Billings, SetToDraft(t)
  PROVE  \E bs, touched : Writes(bs, t, touched) /\ open' = open /\ invoice' = invoice
<1> DEFINE r == bill[t]
           bs == WithState(bill, t, "draft")
<1>1. bill \in [Billings -> Records] /\ r \in Records /\ RecordRight(r, invoice)
      /\ r.state = "cancel" /\ BillsOk(bill)
  BY ButtonIs DEF BillInv, BillsOk, BillsRight, SetToDraft
<1>2. /\ bill' = Recompute(bs, open, {t}) /\ Billable(bs, t)
      /\ open' = open /\ invoice' = invoice
      /\ \A i \in r.lines : invoice[i] = "posted"
  BY DEF SetToDraft
<1>3. PICK p \in Billings \cup {None} :
        /\ bs = [bill EXCEPT ![t] = [r EXCEPT !.state = "draft", !.prev = p]]
        /\ BillsOk(bs)
  <2>1. r.state # "none"
    BY <1>1
  <2> QED
    BY <1>1, <2>1, WithStateIs
<1> HIDE DEF bs
<1>4. /\ bs[t].state = "draft" /\ bs[t].lines = r.lines
      /\ bs[t].entries = r.entries /\ bs[t].entry = r.entry
      /\ \A b \in Billings \ {t} : bs[b] = bill[b]
  BY <1>1, <1>3 DEF Records
<1>5. RecordRight(bs[t], invoice) /\ bs[t].state # "none" /\ bs[t].state # "billed"
  BY <1>1, <1>2, <1>4 DEF RecordRight, Adjustment
<1>6. \E touched : Writes(bs, t, touched)
  BY <1>2, <1>3, <1>4, <1>5, TouchedWrites
<1> QED
  BY <1>2, <1>6

\* Each step leaves the billings alone, or writes one of them at most.
LEMMA StepWrites ==
  ASSUME BillingConstants, BillInv, Careless = {}, Step
  PROVE  /\ invoice' \in [Invoices -> {"draft", "posted"}]
         /\ open' \in [Invoices -> Nat]
         /\ \/ open' = open /\ bill' = bill /\ BillsRight(bill, invoice')
            \/ \E bs, touched : \E t \in Billings \cup {None} : Writes(bs, t, touched)
<1>1. /\ invoice \in [Invoices -> {"draft", "posted"}] /\ open \in [Invoices -> Nat]
      /\ BillsRight(bill, invoice)
  BY DEF BillInv
<1>2. ASSUME NEW i \in Invoices, PostInvoice(i)
      PROVE  /\ invoice' \in [Invoices -> {"draft", "posted"}] /\ open' = open /\ bill' = bill
             /\ BillsRight(bill, invoice')
  <2>1. invoice' = [invoice EXCEPT ![i] = "posted"] /\ open' = open /\ bill' = bill
    BY <1>2 DEF PostInvoice
  <2>2. \A j \in Invoices : invoice[j] = "posted" => invoice'[j] = "posted"
    BY <1>1, <2>1
  <2>3. \A b \in Billings : bill[b].lines \subseteq Invoices
    BY DEF BillInv, BillsOk, Records
  <2> QED
    BY <1>1, <2>1, <2>2, <2>3 DEF BillsRight, RecordRight
<1>3. ASSUME NEW i \in Invoices, ResetInvoice(i)
      PROVE  /\ invoice' \in [Invoices -> {"draft", "posted"}] /\ open' = open /\ bill' = bill
             /\ BillsRight(bill, invoice')
  <2>1. /\ invoice' = [invoice EXCEPT ![i] = "draft"] /\ open' = open /\ bill' = bill
        /\ OpenBillings(bill, i) = {}
    BY <1>3 DEF ResetInvoice
  <2>2. \A j \in Invoices \ {i} : invoice'[j] = invoice[j]
    BY <1>1, <2>1
  <2>3. \A b \in Billings : Opened(bill[b]) => i \notin bill[b].lines
    BY <2>1 DEF OpenBillings, Opened
  <2>4. \A b \in Billings : bill[b].lines \subseteq Invoices
    BY DEF BillInv, BillsOk, Records
  <2> QED
    BY <1>1, <2>1, <2>2, <2>3, <2>4 DEF BillsRight, RecordRight
<1>4. ASSUME NEW i \in Invoices, NEW amount \in {0, Amount[i]}, Pay(i, amount)
      PROVE  /\ invoice' = invoice /\ open' \in [Invoices -> Nat]
             /\ \E touched : Writes(bill, None, touched)
  <2>1. amount \in Nat
    BY DEF BillingConstants
  <2> QED
    BY <1>4, <2>1, PayWrites
<1>5. ASSUME NEW d \in Dates, CreateBilling({}, d)
      PROVE  /\ invoice' = invoice /\ open' = open
             /\ \E bs, touched : \E t \in Billings : Writes(bs, t, touched)
  <2>1. {} \in SUBSET Invoices /\ \A i \in {} : invoice[i] = "posted"
    OBVIOUS
  <2> QED
    BY <1>5, <2>1, CreateWrites
<1>6. ASSUME NEW selected \in SUBSET Invoices, NEW d \in Dates, CreateFromInvoices(selected, d)
      PROVE  /\ invoice' = invoice /\ open' = open
             /\ \E bs, touched : \E t \in Billings : Writes(bs, t, touched)
  <2>1. CreateBilling(selected, d) /\ \A i \in selected : invoice[i] = "posted"
    BY <1>6 DEF CreateFromInvoices
  <2> QED
    BY <2>1, CreateWrites
<1>7. ASSUME NEW b \in Billings,
             PayEntry(b) \/ ComputeLines(b) \/ Validate(b) \/ Cancel(b) \/ SetToDraft(b)
      PROVE  /\ invoice' = invoice /\ open' = open
             /\ \E bs, touched : Writes(bs, b, touched)
  BY <1>7, PayEntryWrites, ComputeLinesWrites, ValidateWrites, CancelWrites, SetToDraftWrites
<1> QED
  BY <1>1, <1>2, <1>3, <1>4, <1>5, <1>6, <1>7 DEF Step

\* What is right stays right as amounts are computed.
LEMMA WritesRight ==
  ASSUME BillingConstants, BillInv, NEW bs, NEW t, NEW touched, Writes(bs, t, touched),
         invoice' \in [Invoices -> {"draft", "posted"}], open' \in [Invoices -> Nat]
  PROVE  BillInv'
<1>1. BillsOk(bs) /\ BillsRight(bs, invoice')
  BY DEF Writes
<1>2. /\ BillsOk(bill') /\ \A b \in Billings : Same(bs[b], bill'[b])
      /\ \A b \in Billings \ Hit(bs, touched) : bill'[b] = bs[b]
      /\ \A b \in Hit(bs, touched) : TotalOk(bill'[b])
  <2>1. \A b \in touched : b \in Billings /\ bs[b].state # "none"
    BY DEF Writes
  <2>2. bill' = Recompute(bs, open', touched)
    BY DEF Writes
  <2> QED
    BY <1>1, <2>1, <2>2, RecomputeKeeps
<1>3. \A b \in Billings : b \notin Hit(bs, touched) => b \notin touched
  BY DEF Hit
<1>4. \A b \in Billings : bill'[b].state # "none" => TotalOk(bill'[b])
  BY <1>2, <1>3 DEF Writes, Same
<1>5. BillsRight(bill', invoice')
  <2>1. OneOpened(bill')
    BY <1>1, <1>2 DEF BillsRight, OneOpened, Same, Opened
  <2>2. \A b \in Billings : RecordRight(bill'[b], invoice')
    BY <1>1, <1>2 DEF BillsRight, RecordRight, Adjustment, Same, Opened
  <2> QED
    BY <2>1, <2>2 DEF BillsRight
<1> QED
  BY <1>2, <1>4, <1>5 DEF BillInv, TotalsOk

\* The total of a billing that is billed stays.
LEMMA WritesFrozen ==
  ASSUME BillingConstants, BillInv, NEW bs, NEW t, NEW touched, Writes(bs, t, touched),
         invoice' \in [Invoices -> {"draft", "posted"}], open' \in [Invoices -> Nat],
         NEW b \in Billings, bill[b].state = "billed", bill'[b].state = "billed"
  PROVE  bill'[b].total = bill[b].total
<1>1. Same(bs[b], bill'[b])
  <2>1. BillsOk(bs) /\ \A c \in touched : c \in Billings /\ bs[c].state # "none"
    BY DEF Writes
  <2>2. bill' = Recompute(bs, open', touched)
    BY DEF Writes
  <2> QED
    BY <2>1, <2>2, RecomputeKeeps
<1>2. BillInv'
  BY WritesRight
<1>3. TotalOk(bill[b]) /\ TotalOk(bill'[b]) /\ bill[b].manual
  BY <1>2 DEF BillInv, TotalsOk, BillsRight, RecordRight
<1>4. /\ bs[b].lines = bill[b].lines /\ bs[b].manual /\ Carryover(bs[b]) = Carryover(bill[b])
  <2>1. CASE b = t
    BY <1>1, <2>1 DEF Writes, Same
  <2>2. CASE b # t
    <3>1. bs[b] = bill[b]
      BY <2>2 DEF Writes
    <3> QED
      BY <1>3, <3>1
  <2> QED
    BY <2>1, <2>2
<1>5. Carryover(bill'[b]) = Carryover(bs[b])
  BY <1>1, <1>4 DEF Same, Carryover
<1> QED
  BY <1>1, <1>3, <1>4, <1>5 DEF TotalOk, Same

-----------------------------------------------------------------------------
(***************************************************************************)
(* What drafts carry over.  The total of a draft is computed from what was *)
(* open of the billings before it, and is computed again whenever one of   *)
(* its chain is touched: so it is up to date as long as its chain is that  *)
(* of all billed ones before it.                                           *)
(***************************************************************************)

CarryInv ==
  \A b \in straight :
    /\ b \in Billings /\ bill[b].state = "draft"
    /\ Chain(bill)[b] = Candidates(bill, b)
    /\ ~bill[b].manual =>
         bill[b].total = AmountTotal(bill[b].lines) + Outstanding(bill, open, b)

\* Nothing is outstanding when nothing was billed.
LEMMA OutstandingNone ==
  ASSUME BillingConstants, NEW bs, BillsOk(bs), NEW rs \in [Invoices -> Nat], NEW b,
         Candidates(bs, b) = {}
  PROVE  Outstanding(bs, rs, b) = 0
<1> DEFINE f == [c \in Candidates(bs, b) |-> LinesOpen(rs, c, bs) + EntryOpen(bs, c)]
<1>1. Outstanding(bs, rs, b) = Total(f, {})
  BY BillingSums DEF Outstanding
<1> HIDE DEF f
<1>2. {} \in SUBSET Invoices /\ IsFiniteSet(Invoices)
  BY DEF BillingConstants
<1> QED
  BY <1>1, <1>2, TotalStep

\* The same is outstanding when the same billings are before b and the same is open of them.
LEMMA OutstandingSame ==
  ASSUME BillingConstants, NEW bs, BillsOk(bs), NEW cs, BillsOk(cs),
         NEW rs \in [Invoices -> Nat], NEW ss \in [Invoices -> Nat], NEW b \in Billings,
         Candidates(cs, b) = Candidates(bs, b),
         \A c \in Candidates(bs, b) : Same(bs[c], cs[c]),
         \A c \in Candidates(bs, b) : \A i \in bs[c].lines : ss[i] = rs[i]
  PROVE  Outstanding(cs, ss, b) = Outstanding(bs, rs, b)
<1> DEFINE all == Candidates(bs, b)
<1>1. all \in SUBSET Billings
  BY DEF Candidates
<1>2. ASSUME NEW c \in all
      PROVE  /\ LinesOpen(ss, c, cs) = LinesOpen(rs, c, bs)
             /\ EntryOpen(cs, c) = EntryOpen(bs, c)
  <2>1. cs[c].lines = bs[c].lines /\ bs[c].lines \in SUBSET Invoices
    BY <1>1 DEF Same, BillsOk, Records
  <2>2. \A i \in bs[c].lines : Signed(ss)[i] = Signed(rs)[i]
    BY <2>1 DEF Signed
  <2>3. Total(Signed(ss), bs[c].lines) = Total(Signed(rs), bs[c].lines)
    BY <2>1, <2>2, TotalSame DEF BillingConstants
  <2>4. LinesOpen(ss, c, cs) = LinesOpen(rs, c, bs)
    BY <2>1, <2>3, BillingSums DEF LinesOpen
  <2> QED
    BY <2>4 DEF EntryOpen, Same
<1> HIDE DEF all
<1>3. [c \in all |-> LinesOpen(ss, c, cs) + EntryOpen(cs, c)]
        = [c \in all |-> LinesOpen(rs, c, bs) + EntryOpen(bs, c)]
  BY <1>2
<1> QED
  BY <1>3 DEF Outstanding, all

\* CarryInv of the next state, in terms of the billings then.
LEMMA CarryInvNext ==
  (\A b \in straight' :
     /\ b \in Billings /\ bill'[b].state = "draft"
     /\ Chain(bill')[b] = Candidates(bill', b)
     /\ ~bill'[b].manual =>
          bill'[b].total = AmountTotal(bill'[b].lines) + Outstanding(bill', open', b))
  => CarryInv'
BY DEF CarryInv, Outstanding, Candidates, LinesOpen, EntryOpen, Chain

\* CarryInv stays when nothing is billed or paid.
LEMMA CarryStays ==
  ASSUME CarryInv, bill' = bill, open' = open, straight' \subseteq straight
  PROVE  CarryInv'
<1>1. \A b \in straight' :
        /\ b \in Billings /\ bill'[b].state = "draft"
        /\ Chain(bill')[b] = Candidates(bill', b)
        /\ ~bill'[b].manual =>
             bill'[b].total = AmountTotal(bill'[b].lines) + Outstanding(bill', open', b)
  BY DEF CarryInv
<1> QED
  BY <1>1, CarryInvNext

\* A draft carries over what is outstanding after billing t was written.
LEMMA WritesCarry ==
  ASSUME BillingConstants, BillInv, CarryInv, straight' = Straight,
         NEW bs, NEW t, NEW touched, Writes(bs, t, touched),
         invoice' \in [Invoices -> {"draft", "posted"}], open' \in [Invoices -> Nat]
  PROVE  CarryInv'
<1> SUFFICES ASSUME NEW b \in straight'
             PROVE  /\ b \in Billings /\ bill'[b].state = "draft"
                    /\ Chain(bill')[b] = Candidates(bill', b)
                    /\ ~bill'[b].manual =>
                         bill'[b].total = AmountTotal(bill'[b].lines) + Outstanding(bill', open', b)
  BY CarryInvNext
<1>1. /\ b \in Billings /\ bill'[b].state = "draft"
      /\ Chain(bill')[b] = Candidates(bill', b)
      /\ b \in straight \/ bill[b].state # "draft"
  BY DEF Straight
<1> SUFFICES ASSUME ~bill'[b].manual
             PROVE  bill'[b].total = AmountTotal(bill'[b].lines) + Outstanding(bill', open', b)
  BY <1>1
<1>2. BillsOk(bs) /\ touched \in SUBSET Billings /\ \A c \in touched : bs[c].state # "none"
  BY DEF Writes
<1>3. /\ BillsOk(bill') /\ Chain(bill') = Chain(bs)
      /\ \A c \in Billings : Same(bs[c], bill'[c])
      /\ \A c \in Billings \ Hit(bs, touched) : bill'[c] = bs[c]
      /\ \A c \in Hit(bs, touched) :
           /\ TotalOk(bill'[c])
           /\ bill'[c].prevBilled - bill'[c].payment =
                IF bill'[c].prev = None THEN 0 ELSE Outstanding(bill', open', c)
  <2>1. bill' = Recompute(bs, open', touched)
    BY DEF Writes
  <2> QED
    BY <1>2, <2>1, RecomputeKeeps
<1>4. CASE b \in Hit(bs, touched)
  <2>1. bill'[b].total = AmountTotal(bill'[b].lines) + (bill'[b].prevBilled - bill'[b].payment)
    BY <1>3, <1>4 DEF TotalOk, Carryover
  <2>2. CASE bill'[b].prev = None
    <3>1. Candidates(bill', b) = {}
      BY <1>1, <1>3, <2>2, ChainIs
    <3>2. Outstanding(bill', open', b) = 0
      BY <1>3, <3>1, OutstandingNone
    <3> QED
      BY <1>3, <1>4, <2>1, <2>2, <3>2
  <2>3. CASE bill'[b].prev # None
    BY <1>3, <1>4, <2>1, <2>3
  <2> QED
    BY <2>2, <2>3
<1>5. CASE b \notin Hit(bs, touched)
  <2> DEFINE all == Chain(bs)[b]
  <2>1. bill'[b] = bs[b] /\ b \notin touched /\ all \cap touched = {} /\ all \in SUBSET Billings
    BY <1>1, <1>2, <1>3, <1>5, ChainIs DEF Hit
  <2>2. b # t
    BY <1>1, <2>1 DEF Writes
  <2>3. bs[b] = bill[b] /\ bill[b].state = "draft" /\ b \in straight
    BY <1>1, <2>1, <2>2 DEF Writes
  <2>4. ASSUME NEW c \in all PROVE \E d \in Billings : bs[d].prev = c /\ d \notin touched
                                                       /\ bs[d].state # "none"
    <3>1. PICK d \in {b} \cup all : d \in Billings /\ bs[d].prev = c /\ bs[d].prev # None
      BY <1>1, <1>2, ChainNext
    <3>2. bs[d].state # "none"
      BY <1>2, <3>1 DEF BillsOk, Missing
    <3> QED
      BY <2>1, <3>1, <3>2
  <2>5. t \notin all
    BY <2>1, <2>4 DEF Writes
  <2>6. \A c \in all : \A i \in bs[c].lines : open'[i] = open[i]
    <3> SUFFICES ASSUME NEW c \in all, NEW i \in bs[c].lines PROVE open'[i] = open[i]
      OBVIOUS
    <3>1. c \in Billings /\ i \in Invoices
      BY <1>2, <2>1 DEF BillsOk, Records
    <3> QED
      BY <2>4, <3>1 DEF Writes
  <2>7. \A c \in all : bs[c] = bill[c]
    BY <2>1, <2>5 DEF Writes
  <2>8. Chain(bill)[b] = all
    <3>1. \A c \in Billings \ {t} : bs[c].prev = bill[c].prev
      BY DEF Writes
    <3> QED
      BY <1>1, <1>2, <2>2, <2>5, <3>1, ChainSame DEF BillInv
  <2>9. Candidates(bill, b) = all /\ Candidates(bill', b) = all
    BY <1>1, <1>3, <2>3, <2>8 DEF CarryInv
  <2>10. Outstanding(bill', open', b) = Outstanding(bill, open, b)
    <3>1. \A c \in all : Same(bill[c], bill'[c])
      BY <1>3, <2>1, <2>7
    <3>2. \A c \in all : \A i \in bill[c].lines : open'[i] = open[i]
      BY <2>6, <2>7
    <3>3. BillsOk(bill) /\ open \in [Invoices -> Nat]
      BY DEF BillInv
    <3> QED
      BY <1>1, <1>3, <2>9, <3>1, <3>2, <3>3, OutstandingSame
  <2> QED
    BY <2>1, <2>3, <2>10 DEF CarryInv
<1> QED
  BY <1>4, <1>5

-----------------------------------------------------------------------------
(* The invariants *)

\* They hold before anything was billed.
LEMMA BillingInit ==
  ASSUME BillingConstants, InitBilling
  PROVE  BillInv /\ CarryInv
<1>1. /\ invoice = [i \in Invoices |-> "posted"] /\ open = Amount /\ straight = {}
      /\ bill = [b \in Billings |-> Missing]
  BY DEF InitBilling
<1>2. Missing \in Records
  BY DEF Missing, Records
<1>3. /\ Missing.entry = 0 /\ Missing.entries = <<>> /\ Missing.prev = None
      /\ Missing.state = "none"
  BY DEF Missing
<1>4. BillsOk(bill)
  BY <1>1, <1>2, <1>3 DEF BillsOk, PrevOk
<1>5. BillsRight(bill, invoice)
  BY <1>1, <1>3 DEF BillsRight, OneOpened, RecordRight, Adjustment, Opened
<1>6. TotalsOk(bill)
  BY <1>1, <1>3 DEF TotalsOk
<1> QED
  BY <1>1, <1>4, <1>5, <1>6 DEF BillInv, CarryInv, BillingConstants

\* Steps keep them.
LEMMA BillingStep ==
  ASSUME BillingConstants, Careless = {}, BillInv, CarryInv, [NextBilling]_billingVars
  PROVE  BillInv' /\ CarryInv'
<1>1. CASE UNCHANGED billingVars
  <2>1. /\ bill' = bill /\ open' = open /\ straight' = straight /\ invoice' = invoice
    BY <1>1 DEF billingVars
  <2>2. BillInv'
    BY <2>1 DEF BillInv
  <2> QED
    BY <2>1, <2>2, CarryStays
<1>2. CASE NextBilling
  <2>1. Step /\ straight' = Straight
    BY <1>2 DEF NextBilling
  <2>2. invoice' \in [Invoices -> {"draft", "posted"}] /\ open' \in [Invoices -> Nat]
    BY <2>1, StepWrites
  <2>3. CASE open' = open /\ bill' = bill /\ BillsRight(bill, invoice')
    <3>1. BillInv'
      BY <2>2, <2>3 DEF BillInv
    <3>2. straight' \subseteq straight
      <4>1. \A b \in straight' : bill'[b].state = "draft" /\ (b \in straight \/ bill[b].state # "draft")
        BY <2>1 DEF Straight
      <4> QED
        BY <2>3, <4>1
    <3>3. CarryInv'
      BY <2>3, <3>2, CarryStays
    <3> QED
      BY <3>1, <3>3
  <2>4. CASE \E bs, touched : \E t \in Billings \cup {None} : Writes(bs, t, touched)
    BY <2>1, <2>2, <2>4, WritesRight, WritesCarry
  <2> QED
    BY <2>1, <2>3, <2>4, StepWrites
<1> QED
  BY <1>1, <1>2

\* The invariant as careful users keep it.
LEMMA BillingInvariant ==
  ASSUME Careless = {}
  PROVE  SpecBilling => [](BillInv /\ CarryInv)
<1>1. InitBilling => BillInv /\ CarryInv
  BY BillingConstantsAre, BillingInit
<1>2. BillInv /\ CarryInv /\ [NextBilling]_billingVars => (BillInv /\ CarryInv)'
  BY BillingConstantsAre, BillingStep
<1> QED
  BY <1>1, <1>2, PTL DEF SpecBilling

\* For careful users, with any invoices, billings and differences of tax: an invoice is in
\* one billing at most that is not cancelled, the invoices of a billed billing are posted,
\* and its tax is adjusted by one entry, which a cancelled billing has no more (the
\* constraint of account_billing on billable invoices, button_draft, and the entry of
\* validate_billing and action_cancel in l10n_jp_summary_invoice).
THEOREM BilledOnceAndAdjusted ==
  ASSUME Careless = {}
  PROVE  SpecBilling => []BilledAndAdjusted
<1>1. ASSUME BillInv PROVE BilledAndAdjusted
  <2>1. BillsOk(bill) /\ BillsRight(bill, invoice) /\ BillingConstants
    BY <1>1, BillingConstantsAre DEF BillInv
  <2>2. ASSUME NEW i \in Invoices PROVE Cardinality(OpenBillings(bill, i)) <= 1
    <3>1. IsFiniteSet(OpenBillings(bill, i))
      <4>1. OpenBillings(bill, i) \in SUBSET Billings
        BY DEF OpenBillings
      <4> QED
        BY <2>1, <4>1, FS_Subset DEF BillingConstants
    <3>2. \A b, c \in OpenBillings(bill, i) : b = c
      BY <2>1 DEF BillsRight, OneOpened, Opened, OpenBillings
    <3> QED
      BY <3>1, <3>2, OneAtMost
  <2>3. ASSUME NEW b \in Existing
        PROVE  /\ bill[b].state = "billed" => \A i \in bill[b].lines : invoice[i] = "posted"
               /\ IF bill[b].state = "billed" /\ TaxDiff[bill[b].lines] # 0
                  THEN /\ Len(bill[b].entries) = 1 /\ bill[b].entry = 1
                       /\ bill[b].entries[1].amount = TaxDiff[bill[b].lines]
                  ELSE Len(bill[b].entries) = 0
    <3>1. b \in Billings /\ RecordRight(bill[b], invoice)
      BY <2>1 DEF Existing, BillsRight
    <3>2. Len(<<>>) = 0
      OBVIOUS
    <3> QED
      BY <3>1, <3>2 DEF RecordRight, Adjustment, Opened
  <2> QED
    BY <2>2, <2>3 DEF BilledAndAdjusted
<1> QED
  BY <1>1, BillingInvariant, PTL

\* Whatever careful users pay, bill or cancel, the total of a billing that stays billed does
\* not change: validate_billing of the carryover module made its amounts manual ones, and
\* the total that is computed anew is that of the same lines and the same amounts.
THEOREM BilledTotalStays ==
  ASSUME Careless = {}
  PROVE  SpecBilling => TotalIsFrozen
<1> DEFINE Stays == \A b \in Existing :
             bill[b].state = "billed" /\ bill'[b].state = "billed" => bill'[b].total = bill[b].total
<1>1. ASSUME BillInv, [NextBilling]_billingVars PROVE [Stays]_billingVars
  <2>1. BillingConstants
    BY BillingConstantsAre
  <2> SUFFICES ASSUME NextBilling, NEW b \in Existing, bill[b].state = "billed", bill'[b].state = "billed"
               PROVE  bill'[b].total = bill[b].total
    BY <1>1
  <2>2. b \in Billings
    BY DEF Existing
  <2>3. Step
    BY DEF NextBilling
  <2>4. /\ invoice' \in [Invoices -> {"draft", "posted"}] /\ open' \in [Invoices -> Nat]
        /\ bill' = bill \/ \E bs, touched : \E t \in Billings \cup {None} : Writes(bs, t, touched)
    BY <1>1, <2>1, <2>3, StepWrites
  <2> QED
    BY <1>1, <2>1, <2>2, <2>4, WritesFrozen
<1> QED
  BY <1>1, BillingInvariant, PTL DEF SpecBilling, TotalIsFrozen

\* What is owed for a billing is what is open of it, when no adjustment is a credit note.
LEMMA OwedIs ==
  ASSUME BillingConstants, BillInv, \A S \in SUBSET Invoices : TaxDiff[S] >= 0, NEW c \in Billings
  PROVE  Owed(c) = LinesOpen(open, c, bill) + EntryOpen(bill, c)
<1>1. bill[c] \in Records /\ Adjustment(bill[c])
  BY DEF BillInv, BillsOk, BillsRight, RecordRight
<1>2. CASE bill[c].entry = 0
  BY <1>2 DEF Owed, EntryOpen
<1>3. CASE bill[c].entry # 0
  <2>1. bill[c].entry = 1 /\ bill[c].entries[1].amount = TaxDiff[bill[c].lines]
    BY <1>1, <1>3 DEF Adjustment
  <2>2. TaxDiff[bill[c].lines] >= 0 /\ TaxDiff[bill[c].lines] \in Int
    BY <1>1 DEF Records, BillingConstants
  <2>3. ~(bill[c].entries[1].amount < 0)
    BY <2>1, <2>2
  <2> QED
    BY <1>3, <2>1, <2>3 DEF Owed, EntryOpen
<1> QED
  BY <1>2, <1>3

\* For careful users, when no adjustment is a credit note: a draft whose chain has always
\* been that of all billed ones before it has a total of its lines and what is still owed
\* for those (_compute_carryover_amounts, although it depends on the payments of the
\* previous billing only: what is paid of one before reaches it along prev_billing_id).
THEOREM DraftCarriesWhatIsOwed ==
  ASSUME Careless = {}, \A S \in SUBSET Invoices : TaxDiff[S] >= 0
  PROVE  SpecBilling => []CarriesWhatIsOwed
<1>1. ASSUME BillInv, CarryInv PROVE CarriesWhatIsOwed
  <2>1. BillingConstants
    BY BillingConstantsAre
  <2> SUFFICES ASSUME NEW b \in straight, ~bill[b].manual
               PROVE  bill[b].total = AmountTotal(bill[b].lines)
                        + Sum([c \in Candidates(bill, b) |-> Owed(c)], Candidates(bill, b))
    BY DEF CarriesWhatIsOwed
  <2>2. Candidates(bill, b) \subseteq Billings
    BY DEF Candidates
  <2>3. \A c \in Candidates(bill, b) :
          Owed(c) = LinesOpen(open, c, bill) + EntryOpen(bill, c)
    BY <1>1, <2>1, <2>2, OwedIs
  <2>4. [c \in Candidates(bill, b) |-> Owed(c)]
          = [c \in Candidates(bill, b) |-> LinesOpen(open, c, bill) + EntryOpen(bill, c)]
    BY <2>3
  <2> QED
    BY <1>1, <2>4 DEF CarryInv, Outstanding
<1> QED
  BY <1>1, BillingInvariant, PTL
==============================================================================
