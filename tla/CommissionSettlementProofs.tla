--------------------- MODULE CommissionSettlementProofs ---------------------
(***************************************************************************)
(* Commissions are paid once, for no cancelled invoice and in the period   *)
(* they belong to, for any lines, dates, settlements and bills.            *)
(***************************************************************************)
EXTENDS CommissionSettlement, FiniteSetTheorems, TLAPS

-----------------------------------------------------------------------------
(* Induction, with a set in the place of a predicate *)

\* A set of numbers that is not empty has a least one.
LEMMA NatLeast ==
  ASSUME NEW T \in SUBSET Nat, T # {}
  PROVE  \E n \in T : \A m \in T : n <= m
<1>1. \A x, y \in Nat : y < x => <<y, x>> \in OpToRel(<, Nat)
  BY DEF OpToRel
<1>2. PICK n \in T : \A m \in T : ~(<<m, n>> \in OpToRel(<, Nat))
  BY NatLessThanWellFounded, WFMin
<1>3. \A m \in T : m \in Nat /\ n \in Nat
  OBVIOUS
<1>4. \A m \in T : ~(m < n)
  BY <1>1, <1>2, <1>3, Zenon
<1> QED
  BY <1>3, <1>4

\* A set that has 0 and, with each number, the next one has them all.
LEMMA NatInduct ==
  ASSUME NEW T, 0 \in T, \A n \in Nat : n \in T => n + 1 \in T
  PROVE  \A n \in Nat : n \in T
<1> SUFFICES ASSUME \E n \in Nat : n \notin T PROVE FALSE
  OBVIOUS
<1> DEFINE U == {n \in Nat : n \notin T}
<1>1. PICK n \in U : \A m \in U : n <= m
  BY NatLeast
<1>2. n # 0 /\ n - 1 \in Nat /\ n - 1 \notin U
  BY <1>1
<1> QED
  BY <1>1, <1>2

\* The first value of the function is x and the others follow, each by its own
\* step, from the one before.
IsRecursive(g, k, x, F) ==
  g = [n \in 0..k |-> IF n = 0 THEN x ELSE F[<<n, g[n - 1]>>]]

\* What is defined by such a recursion exists.
LEMMA RecursionExists ==
  ASSUME NEW S, NEW x \in S, NEW k \in Nat, NEW F \in [(1..k) \X S -> S]
  PROVE  \E g \in [0..k -> S] : IsRecursive(g, k, x, F)
<1> DEFINE Steps(g, m) == [n \in 0..m |-> IF n = 0 THEN x ELSE F[<<n, g[n - 1]>>]]
           T == {m \in Nat : m <= k => \E g \in [0..m -> S] : g = Steps(g, m)}
<1>1. 0 \in T
  <2> DEFINE g == [n \in 0..0 |-> x]
  <2>1. g \in [0..0 -> S] /\ g = Steps(g, 0)
    OBVIOUS
  <2> QED
    BY <2>1
<1>2. ASSUME NEW m \in Nat, m \in T PROVE m + 1 \in T
  <2> SUFFICES ASSUME m + 1 <= k PROVE \E h \in [0..(m + 1) -> S] : h = Steps(h, m + 1)
    OBVIOUS
  <2>1. PICK g \in [0..m -> S] : g = Steps(g, m)
    BY <1>2
  <2> DEFINE h == Steps(g, m + 1)
  <2>2. ASSUME NEW n \in 0..(m + 1), n # 0 PROVE n - 1 \in 0..m /\ F[<<n, g[n - 1]>>] \in S
    <3>1. n - 1 \in 0..m /\ n \in 1..k
      BY <2>2
    <3>2. <<n, g[n - 1]>> \in (1..k) \X S
      BY <3>1
    <3> QED
      BY <3>1, <3>2
  <2>3. h \in [0..(m + 1) -> S]
    BY <2>2
  <2>4. \A n \in 0..m : h[n] = g[n]
    BY <2>1
  <2>5. h = Steps(h, m + 1)
    BY <2>2, <2>4
  <2> HIDE DEF h
  <2> QED
    BY <2>3, <2>5
<1>3. k \in T
  <2> HIDE DEF T
  <2> QED
    BY <1>1, <1>2, NatInduct
<1> QED
  BY <1>3 DEF IsRecursive

-----------------------------------------------------------------------------

\* States of a settlement that is not cancelled, and of a bill that is not.
Kept == {"settled", "invoiced", "except_invoice"}
LiveBill == {"draft", "posted"}

Periods == [from : Int, to : Int]

\* Types of the variables.
Types ==
  /\ kind \in Kinds
  /\ invoice \in [Lines -> {"draft", "posted", "paid", "cancel"}]
  /\ settlement \in [Settlements -> Kept \cup {"none", "cancel"}]
  /\ period \in [Settlements -> Periods]
  /\ earned \in [Settlements -> SUBSET Lines]
  /\ linked \in [Settlements -> SUBSET Lines]
  /\ bill \in [Bills -> LiveBill \cup {"none", "cancel"}]
  /\ billed \in [Bills -> SUBSET Settlements]
  /\ paysFor \in [Bills -> SUBSET Lines]
  /\ wizard \subseteq Settlements /\ crossed \subseteq Lines

\* A settlement that is not there has no lines and is in no bill or wizard.
NoneInv ==
  \A s \in Settlements : settlement[s] = "none" =>
    /\ earned[s] = {} /\ linked[s] = {}
    /\ s \notin wizard /\ \A v \in Bills : s \notin billed[v]

\* What holds whatever users do.
BookInv == Types /\ NoneInv /\ EachInItsPeriod

\* The lines of a settlement that is not cancelled are its own: their agent lines
\* are there and point to it.
LinesInv ==
  /\ \A s \in Settlements : settlement[s] \in Kept => linked[s] = earned[s]
  /\ \A s, t \in Settlements :
       settlement[s] \in Kept /\ settlement[t] \in Kept /\ earned[s] \cap earned[t] # {} => s = t

\* Lines of settlements that are not cancelled belong to invoices that are not, but for
\* those that were cancelled meanwhile.
InvoiceInv ==
  \A s \in Settlements : settlement[s] \in Kept =>
    \A l \in earned[s] \ crossed : invoice[l] # "cancel"

\* A bill that is not cancelled pays for its settlements as they are now, which
\* can be neither changed nor billed again while it has them.
BillInv ==
  /\ \A v \in Bills : bill[v] = "none" => billed[v] = {} /\ paysFor[v] = {}
  /\ \A v \in Bills : bill[v] \in LiveBill =>
       /\ \A s \in billed[v] : settlement[s] \in {"invoiced", "except_invoice"}
       /\ paysFor[v] = LinesOf(billed[v])
  /\ \A v, w \in Bills :
       bill[v] \in LiveBill /\ bill[w] \in LiveBill /\ billed[v] \cap billed[w] # {} => v = w
  /\ \A s \in Settlements : settlement[s] = "invoiced" => HasLiveBill(s)

\* What holds if users are careful.
PaidInv == LinesInv /\ InvoiceInv /\ BillInv

IInv == BookInv /\ PaidInv

-----------------------------------------------------------------------------
(* The calendar                                                            *)

\* A day is in the period that is computed for it, or is the last of its month
\* and the period ends the day before.
InPeriod(p, d) ==
  /\ p.from <= d
  /\ \/ d <= p.to
     \/ d = p.to + 1 /\ kind = "biweekly" /\ d + 1 \in Range(FirstDays)

\* The first days as numbers.
LEMMA Firsts ==
  /\ DOMAIN FirstDays = 1..14
  /\ FirstDays[1] = 0 /\ FirstDays[2] = 31 /\ FirstDays[3] = 60 /\ FirstDays[4] = 91
  /\ FirstDays[5] = 121 /\ FirstDays[6] = 152 /\ FirstDays[7] = 182 /\ FirstDays[8] = 213
  /\ FirstDays[9] = 244 /\ FirstDays[10] = 274 /\ FirstDays[11] = 305 /\ FirstDays[12] = 335
  /\ FirstDays[13] = 366 /\ FirstDays[14] = 397
BY DEF FirstDays

\* The month of a day is the only one that it lies in.
LEMMA MonthIs ==
  ASSUME NEW m \in 1..13, NEW d \in Int, FirstDays[m] <= d, d < FirstDays[m + 1]
  PROVE  MonthOf(d) = m
<1> DEFINE In(n) == FirstDays[n] <= d /\ d < FirstDays[n + 1]
<1>1. \A n \in 1..13 : In(n) => n = m
  <2>1. \A n \in 1..13 : n = 1 \/ n = 2 \/ n = 3 \/ n = 4 \/ n = 5 \/ n = 6 \/ n = 7 \/ n = 8 \/ n = 9 \/ n = 10 \/ n = 11 \/ n = 12 \/ n = 13
    OBVIOUS
  <2> QED
    BY <2>1, Firsts, SMTT(60)
<1>2. MonthOf(d) = CHOOSE n \in 1..13 : In(n)
  BY DEF MonthOf
<1> QED
  BY <1>1, <1>2

\* Every day of the year lies in a month.
LEMMA HasMonth ==
  ASSUME NEW d \in 0..365
  PROVE  \E m \in 1..12 : FirstDays[m] <= d /\ d < FirstDays[m + 1]
<1> SUFFICES ASSUME \A m \in 1..12 : ~(FirstDays[m] <= d /\ d < FirstDays[m + 1]) PROVE FALSE
  OBVIOUS
<1>1. /\ ~(FirstDays[1] <= d /\ d < FirstDays[2]) /\ ~(FirstDays[2] <= d /\ d < FirstDays[3])
      /\ ~(FirstDays[3] <= d /\ d < FirstDays[4]) /\ ~(FirstDays[4] <= d /\ d < FirstDays[5])
      /\ ~(FirstDays[5] <= d /\ d < FirstDays[6]) /\ ~(FirstDays[6] <= d /\ d < FirstDays[7])
      /\ ~(FirstDays[7] <= d /\ d < FirstDays[8]) /\ ~(FirstDays[8] <= d /\ d < FirstDays[9])
      /\ ~(FirstDays[9] <= d /\ d < FirstDays[10]) /\ ~(FirstDays[10] <= d /\ d < FirstDays[11])
      /\ ~(FirstDays[11] <= d /\ d < FirstDays[12]) /\ ~(FirstDays[12] <= d /\ d < FirstDays[13])
  OBVIOUS
<1> QED
  BY <1>1, Firsts

\* Dates of invoices are numbers.
LEMMA DaysAreNumbers == \A l \in Lines : DayOf[l] \in 0..365 /\ DayOf[l] \in Int
<1>1. \A l \in Lines : DayOf[l] \in 0..365
  BY SettlementAssumption
<1>2. \A d \in 0..365 : d \in Int
  OBVIOUS
<1> QED
  BY <1>1, <1>2

\* The first days of the months follow each other.
LEMMA Increasing ==
  \A m, n \in 1..14 : m <= n =>
    FirstDays[m] \in Int /\ FirstDays[n] \in Int /\ FirstDays[m] <= FirstDays[n]
<1>1. \A n \in 1..14 : \/ n = 1 \/ n = 2 \/ n = 3 \/ n = 4 \/ n = 5 \/ n = 6 \/ n = 7
                        \/ n = 8 \/ n = 9 \/ n = 10 \/ n = 11 \/ n = 12 \/ n = 13 \/ n = 14
  OBVIOUS
<1> QED
  BY <1>1, Firsts, SMTT(60)

\* A period of n months starts with a month that is not after the given one, and
\* ends, in the same year, after it.
LEMMA FirstOfIs ==
  ASSUME NEW n \in {1, 3, 6, 12}, NEW m \in 1..12
  PROVE  \E q \in 1..m : FirstOf(n, m) = FirstDays[q] /\ m < q + n /\ q + n <= 13
<1> DEFINE q == ((m - 1) \div n) * n + 1
<1>1. CASE n = 1
  BY <1>1 DEF FirstOf
<1>2. CASE n = 3
  <2>1. q \in 1..m /\ m < q + n /\ q + n <= 13
    BY <1>2
  <2> QED
    BY <2>1 DEF FirstOf
<1>3. CASE n = 6
  <2>1. q \in 1..m /\ m < q + n /\ q + n <= 13
    BY <1>3
  <2> QED
    BY <2>1 DEF FirstOf
<1>4. CASE n = 12
  <2>1. q \in 1..m /\ m < q + n /\ q + n <= 13
    BY <1>4
  <2> QED
    BY <2>1 DEF FirstOf
<1> QED
  BY <1>1, <1>2, <1>3, <1>4

\* A day is in the period that is computed for it, which is never the one that
\* stands for none.
LEMMA PeriodOfIs ==
  ASSUME kind \in AllKinds, NEW d \in 0..365
  PROVE  PeriodOf(kind, d) \in Periods \ {NoPeriod} /\ InPeriod(PeriodOf(kind, d), d)
<1>1. PICK m \in 1..12 : FirstDays[m] <= d /\ d < FirstDays[m + 1]
  BY HasMonth
<1>2. MonthOf(d) = m
  BY <1>1, MonthIs
<1>3. \A q \in 1..13 : MonthOf(FirstDays[q]) = q
  <2>1. \A q \in 1..13 : FirstDays[q] \in Int /\ FirstDays[q] < FirstDays[q + 1]
    <3>1. \A q \in 1..13 : \/ q = 1 \/ q = 2 \/ q = 3 \/ q = 4 \/ q = 5 \/ q = 6 \/ q = 7
                            \/ q = 8 \/ q = 9 \/ q = 10 \/ q = 11 \/ q = 12 \/ q = 13
      OBVIOUS
    <3> QED
      BY <3>1, Firsts
  <2> QED
    BY <2>1, MonthIs
<1> DEFINE start == PeriodStart(kind, d)
           next == NextPeriod(kind, start)
<1>4. /\ start \in Int /\ next \in Int /\ start <= d /\ next >= 2
      /\ \/ d < next
         \/ d = next /\ kind = "biweekly" /\ next + 1 \in Range(FirstDays)
  <2>1. CASE kind = "biweekly"
    <3>1. start = IF d >= FirstDays[m] + 15 THEN FirstDays[m] + 15 ELSE FirstDays[m]
      BY <1>2, <2>1 DEF PeriodStart
    <3>2. FirstDays[m] \in Nat /\ FirstDays[m + 1] \in Nat /\ FirstDays[m] + 15 < FirstDays[m + 1]
      <4>1. \/ m = 1 \/ m = 2 \/ m = 3 \/ m = 4 \/ m = 5 \/ m = 6 \/ m = 7
            \/ m = 8 \/ m = 9 \/ m = 10 \/ m = 11 \/ m = 12
        OBVIOUS
      <4> QED
        BY <4>1, Firsts
    <3>3. MonthOf(start) = m
      BY <3>1, <3>2, <1>1, MonthIs
    <3>4. next = IF start = FirstDays[m] THEN start + 15 ELSE FirstDays[m + 1] - 1
      BY <3>3, <2>1 DEF NextPeriod
    <3>5. FirstDays[m + 1] \in Range(FirstDays)
      BY Firsts DEF Range
    <3> QED
      BY <3>1, <3>2, <3>4, <3>5, <1>1, <2>1
  <2>2. ASSUME NEW n \in {1, 3, 6, 12}, start = FirstOf(n, m),
               \A q \in 1..m : start = FirstDays[q] => next = FirstDays[q + n]
        PROVE  start \in Int /\ next \in Int /\ start <= d /\ d < next /\ next >= 2
    <3>1. PICK q \in 1..m : start = FirstDays[q] /\ m < q + n /\ q + n <= 13
      BY <2>2, FirstOfIs
    <3>2. next = FirstDays[q + n]
      BY <3>1, <2>2
    <3>3. q \in 1..14 /\ m \in 1..14 /\ m + 1 \in 1..14 /\ q + n \in 1..14 /\ q <= m /\ m + 1 <= q + n
          /\ 2 \in 1..14 /\ 2 <= q + n
      BY <3>1
    <3>4. FirstDays[q] \in Int /\ FirstDays[q + n] \in Int /\ FirstDays[m] \in Int
          /\ FirstDays[m + 1] \in Int
          /\ FirstDays[q] <= FirstDays[m] /\ FirstDays[m + 1] <= FirstDays[q + n]
          /\ FirstDays[2] <= FirstDays[q + n]
      <4> HIDE DEF start, next
      <4> QED
        BY <3>3, Increasing
    <3> QED
      BY <3>1, <3>2, <3>4, <1>1, Firsts
  <2>3. CASE kind = "monthly"
    <3>1. start = FirstOf(1, m)
      BY <1>2, <2>3 DEF PeriodStart
    <3>2. \A q \in 1..m : start = FirstDays[q] => next = FirstDays[q + 1]
      BY <1>3, <2>3 DEF NextPeriod
    <3> QED
      BY <3>1, <3>2, <2>2
  <2>4. CASE kind = "quaterly"
    <3>1. start = FirstOf(3, m)
      BY <1>2, <2>4 DEF PeriodStart
    <3>2. \A q \in 1..m : start = FirstDays[q] => next = FirstDays[q + 3]
      BY <1>3, <2>4 DEF NextPeriod
    <3> QED
      BY <3>1, <3>2, <2>2
  <2>5. CASE kind = "semi"
    <3>1. start = FirstOf(6, m)
      BY <1>2, <2>5 DEF PeriodStart
    <3>2. \A q \in 1..m : start = FirstDays[q] => next = FirstDays[q + 6]
      BY <1>3, <2>5 DEF NextPeriod
    <3> QED
      BY <3>1, <3>2, <2>2
  <2>6. CASE kind = "annual"
    <3>1. start = FirstOf(12, m)
      BY <1>2, <2>6 DEF PeriodStart
    <3>2. \A q \in 1..m : start = FirstDays[q] => next = FirstDays[q + 12]
      BY <1>3, <2>6 DEF NextPeriod
    <3> QED
      BY <3>1, <3>2, <2>2
  <2> QED
    BY <2>1, <2>3, <2>4, <2>5, <2>6 DEF AllKinds
<1>5. PeriodOf(kind, d) = [from |-> start, to |-> next - 1]
  BY DEF PeriodOf
<1> HIDE DEF start, next
<1> QED
  BY <1>4, <1>5 DEF Periods, InPeriod, NoPeriod

-----------------------------------------------------------------------------
(* The loop of the wizard that settles                                     *)

Accs == [into : Settlements \cup {0}, period : [Settlements \cup {0} -> Periods],
         earned : [Settlements \cup {0} -> SUBSET Lines]]

\* After n lines: each is in one settlement at most, of its period and open; the
\* settlement in use has one of them.
GoodAcc(lines, n, acc) ==
  /\ acc \in Accs
  /\ acc.period[0] = [from |-> -1, to |-> -1]
  /\ \A s \in Settlements : settlement[s] # "none" => acc.period[s] = period[s]
  /\ \A s \in Settlements \cup {0} : \A l \in acc.earned[s] :
       ~Skipped(l) /\ \E i \in 1..n : lines[i] = l
  /\ \A s \in Settlements : acc.earned[s] # {} =>
       settlement[s] = "settled" \/ (settlement[s] = "none" /\ acc.period[s] # NoPeriod)
  /\ \A s \in Settlements : \A l \in acc.earned[s] : InPeriod(acc.period[s], DayOf[l])
  /\ \A s, t \in Settlements \cup {0} : acc.earned[s] \cap acc.earned[t] # {} => s = t
  /\ acc.into # 0 => acc.earned[acc.into] # {}

\* The loop starts well.
LEMMA NothingIsGood ==
  ASSUME Types, NEW lines
  PROVE  GoodAcc(lines, 0, NothingCollected)
<1>1. NothingCollected \in Accs
  BY DEF NothingCollected, Types, Accs, Periods
<1> QED
  BY <1>1 DEF NothingCollected, GoodAcc, Settlements

\* What one pass makes of the settlements, in terms of the one that it chooses.
Adds(acc, l, s, new, res) ==
  res = [into |-> s,
         period |-> IF s \in new THEN [acc.period EXCEPT ![s] = PeriodOf(kind, DayOf[l])]
                    ELSE acc.period,
         earned |-> [acc.earned EXCEPT ![s] = @ \cup {l}]]

\* A pass skips the line or adds it to the settlement in use, to an open one of
\* its period, to a new one or, when there is none, to no settlement.
LEMMA CollectIs ==
  ASSUME NEW acc, NEW l, ~Skipped(l)
  PROVE  LET p == PeriodOf(kind, DayOf[l])
             new == {s \in Settlements : settlement[s] = "none" /\ acc.period[s] = NoPeriod}
         IN \E s : /\ Adds(acc, l, s, new, Collect(acc, l))
                   /\ \/ s = acc.into /\ DayOf[l] <= acc.period[acc.into].to
                      \/ /\ s \in Settlements /\ settlement[s] \in {"none", "settled"}
                         /\ acc.period[s] = p
                      \/ s \in new
                      \/ s = 0
<1> DEFINE p == PeriodOf(kind, DayOf[l])
           new == {s \in Settlements : settlement[s] = "none" /\ acc.period[s] = NoPeriod}
           open == OpenSettlements(acc.period, p)
           s == IF DayOf[l] <= acc.period[acc.into].to THEN acc.into
                ELSE IF open # {} THEN CHOOSE x \in open : TRUE
                ELSE IF new # {} THEN CHOOSE x \in new : TRUE ELSE 0
<1>1. Adds(acc, l, s, new, Collect(acc, l))
  BY DEF Adds, Collect
<1>2. \/ s = acc.into /\ DayOf[l] <= acc.period[acc.into].to
      \/ s \in open \/ s \in new \/ s = 0
  OBVIOUS
<1>3. s \in open => /\ s \in Settlements /\ settlement[s] \in {"none", "settled"}
                    /\ acc.period[s] = p
  BY DEF OpenSettlements
<1> HIDE DEF s, open
<1> QED
  BY <1>1, <1>2, <1>3

\* The type of what a pass returns.
LEMMA CollectType ==
  ASSUME Types, NEW acc \in Accs, NEW l \in Lines
  PROVE  Collect(acc, l) \in Accs
<1>1. CASE Skipped(l)
  BY <1>1 DEF Collect
<1>2. CASE ~Skipped(l)
  <2> DEFINE new == {s \in Settlements : settlement[s] = "none" /\ acc.period[s] = NoPeriod}
  <2>1. PICK s \in Settlements \cup {0} : Adds(acc, l, s, new, Collect(acc, l))
    BY <1>2, CollectIs DEF Accs
  <2>2. PeriodOf(kind, DayOf[l]) \in Periods
    <3>1. kind \in AllKinds /\ DayOf[l] \in 0..365
      BY DaysAreNumbers, SettlementAssumption DEF Types
    <3> QED
      BY <3>1, PeriodOfIs
  <2> QED
    BY <2>1, <2>2 DEF Adds, Accs
<1> QED
  BY <1>1, <1>2

\* The lines that are due, each once, in the order of their dates.
LEMMA AgentLinesAre ==
  ASSUME NEW day, NEW lines \in AgentLines(day)
  PROVE  /\ lines \in Seq(DueLines(day))
         /\ \A i, j \in 1..Len(lines) : i # j => lines[i] # lines[j]
         /\ \A i, j \in 1..Len(lines) : i < j => DayOf[lines[i]] <= DayOf[lines[j]]
<1> DEFINE D == 1..Cardinality(DueLines(day))
<1>1. /\ lines \in [D -> DueLines(day)]
      /\ \A i, j \in D : i # j => lines[i] # lines[j]
      /\ \A i, j \in D : i < j => DayOf[lines[i]] <= DayOf[lines[j]]
  BY DEF AgentLines, SetToSeqs
<1>2. Cardinality(DueLines(day)) \in Nat
  BY FS_Subset, FS_CardinalityType, SettlementAssumption DEF DueLines
<1>3. lines \in Seq(DueLines(day)) /\ Len(lines) = Cardinality(DueLines(day))
  BY <1>1, <1>2
<1> QED
  BY <1>1, <1>3

\* A pass over the next line goes well.
LEMMA CollectIsGood ==
  ASSUME Types, NEW day, NEW lines \in AgentLines(day), NEW n \in 1..Len(lines),
         NEW acc, GoodAcc(lines, n - 1, acc)
  PROVE  GoodAcc(lines, n, Collect(acc, lines[n]))
<1> DEFINE l == lines[n]
           p == PeriodOf(kind, DayOf[l])
           new == {s \in Settlements : settlement[s] = "none" /\ acc.period[s] = NoPeriod}
           res == Collect(acc, l)
<1>1. /\ lines \in Seq(DueLines(day))
      /\ \A i, j \in 1..Len(lines) : i # j => lines[i] # lines[j]
      /\ \A i, j \in 1..Len(lines) : i < j => DayOf[lines[i]] <= DayOf[lines[j]]
  BY AgentLinesAre
<1>2. /\ n \in Int /\ 1 <= n /\ n <= Len(lines) /\ Len(lines) \in Nat
      /\ l \in Lines /\ DayOf[l] \in 0..365 /\ DayOf[l] \in Int
  BY <1>1, DaysAreNumbers DEF DueLines
<1>3. p \in Periods \ {NoPeriod} /\ InPeriod(p, DayOf[l])
  BY <1>2, PeriodOfIs, SettlementAssumption DEF Types
<1>4. CASE Skipped(l)
  <2>1. res = acc
    BY <1>4 DEF Collect
  <2>2. \A i \in 1..(n - 1) : i \in 1..n
    BY <1>2
  <2> QED
    BY <2>1, <2>2 DEF GoodAcc
<1>5. CASE ~Skipped(l)
  <2>1. PICK s : /\ Adds(acc, l, s, new, res)
                 /\ \/ s = acc.into /\ DayOf[l] <= acc.period[acc.into].to
                    \/ /\ s \in Settlements /\ settlement[s] \in {"none", "settled"}
                       /\ acc.period[s] = p
                    \/ s \in new
                    \/ s = 0
    BY <1>5, CollectIs
  <2>2. acc \in Accs
    BY DEF GoodAcc
  <2>3. \A i \in 1..(n - 1) : /\ i \in 1..n /\ lines[i] # l
                              /\ DayOf[lines[i]] \in Int /\ DayOf[lines[i]] <= DayOf[l]
    <3> SUFFICES ASSUME NEW i \in 1..(n - 1)
                 PROVE  /\ i \in 1..n /\ lines[i] # l
                        /\ DayOf[lines[i]] \in Int /\ DayOf[lines[i]] <= DayOf[l]
      OBVIOUS
    <3>1. i \in 1..Len(lines) /\ n \in 1..Len(lines) /\ i < n /\ i \in 1..n
      BY <1>2
    <3>2. lines[i] \in Lines
      BY <1>1, <3>1 DEF DueLines
    <3>3. lines[i] # l /\ DayOf[lines[i]] <= DayOf[l]
      BY <1>1, <3>1
    <3>4. DayOf[lines[i]] \in Int
      BY <3>2, DaysAreNumbers
    <3> QED
      BY <3>1, <3>3, <3>4
  <2>4. s \in Settlements \cup {0}
    BY <2>1, <2>2 DEF Accs
  <2>5. /\ res \in Accs /\ res.into = s
        /\ \A t \in Settlements \cup {0} :
             /\ res.period[t] = IF t = s /\ s \in new THEN p ELSE acc.period[t]
             /\ res.earned[t] = IF t = s THEN acc.earned[s] \cup {l} ELSE acc.earned[t]
    BY <1>2, <1>3, <2>1, <2>2, <2>4 DEF Adds, Accs
  <2>6. 0 \notin Settlements
    BY DEF Settlements
  <2>7. s \in new => acc.earned[s] = {}
    BY DEF GoodAcc
  <2>8. \A t \in Settlements : res.earned[t] # {} =>
          settlement[t] = "settled" \/ (settlement[t] = "none" /\ res.period[t] # NoPeriod)
    BY <1>3, <2>1, <2>5, <2>6, <2>7 DEF GoodAcc
  <2>9. \A t \in Settlements : \A k \in res.earned[t] : InPeriod(res.period[t], DayOf[k])
    <3>1. s \in Settlements => InPeriod(res.period[s], DayOf[l])
      <4>1. CASE s = acc.into /\ DayOf[l] <= acc.period[acc.into].to
        <5> SUFFICES ASSUME s \in Settlements PROVE InPeriod(acc.period[s], DayOf[l])
          BY <2>5, <2>7, <4>1, <2>6 DEF GoodAcc
        <5>1. PICK k \in acc.earned[s] : TRUE
          BY <4>1, <2>6 DEF GoodAcc
        <5>2. InPeriod(acc.period[s], DayOf[k]) /\ \E i \in 1..(n - 1) : lines[i] = k
          BY <5>1 DEF GoodAcc
        <5>3. DayOf[k] \in Int /\ DayOf[k] <= DayOf[l]
          BY <5>2, <2>3
        <5>4. acc.period[s].from \in Int
          BY <2>2 DEF Accs, Periods
        <5>5. acc.period[s].from <= DayOf[k]
          BY <5>2 DEF InPeriod
        <5>6. acc.period[s].from <= DayOf[l]
          BY <1>2, <5>3, <5>4, <5>5
        <5> QED
          BY <4>1, <5>6 DEF InPeriod
      <4>2. CASE s \in new \/ (s \in Settlements /\ acc.period[s] = p)
        <5>1. s \in Settlements /\ res.period[s] = p
          BY <4>2, <2>5
        <5> QED
          BY <5>1, <1>3
      <4> QED
        BY <2>1, <2>6, <4>1, <4>2
    <3> HIDE DEF new
    <3> QED
      BY <2>5, <2>7, <3>1 DEF GoodAcc
  <2>10. s = 0 => s \notin new
    BY <2>6
  <2>11. /\ \A t \in Settlements \cup {0} : \A k \in res.earned[t] :
              ~Skipped(k) /\ \E i \in 1..n : lines[i] = k
         /\ \A t \in Settlements \cup {0} : l \notin acc.earned[t]
    <3>1. n \in 1..n
      BY <1>2
    <3> QED
      BY <1>5, <2>3, <2>5, <3>1 DEF GoodAcc
  <2>12. \A t, u \in Settlements \cup {0} : res.earned[t] \cap res.earned[u] # {} => t = u
    BY <2>5, <2>11 DEF GoodAcc
  <2>13. /\ res.period[0] = [from |-> -1, to |-> -1]
         /\ \A t \in Settlements : settlement[t] # "none" => res.period[t] = period[t]
         /\ res.into # 0 => res.earned[res.into] # {}
    BY <2>4, <2>5, <2>6, <2>10 DEF GoodAcc
  <2> HIDE DEF res, new, p
  <2>14. GoodAcc(lines, n, res)
    BY <2>5, <2>8, <2>9, <2>11, <2>12, <2>13 DEF GoodAcc
  <2> QED
    BY <2>14 DEF res
<1> QED
  BY <1>4, <1>5

\* The loop ends well.
LEMMA CollectedIsGood ==
  ASSUME Types, NEW day, NEW lines \in AgentLines(day)
  PROVE  GoodAcc(lines, Len(lines), Collected(lines))
<1> DEFINE k == Len(lines)
           Pass(g) == [n \in 0..k |-> IF n = 0 THEN NothingCollected
                                      ELSE Collect(g[n - 1], lines[n])]
           pass == CHOOSE g : g = Pass(g)
<1>1. k \in Nat
  BY AgentLinesAre
<1>2. \A n \in 1..k : \A acc : GoodAcc(lines, n - 1, acc) => GoodAcc(lines, n, Collect(acc, lines[n]))
  BY CollectIsGood
<1>3. \E g : g = Pass(g)
  <2> DEFINE F == [e \in (1..k) \X Accs |-> Collect(e[2], lines[e[1]])]
  <2>1. F \in [(1..k) \X Accs -> Accs]
    <3>1. \A n \in 1..k : lines[n] \in Lines
      <4>1. lines \in Seq(DueLines(day))
        BY AgentLinesAre
      <4> QED
        BY <4>1 DEF DueLines
    <3> QED
      BY <3>1, CollectType
  <2>2. NothingCollected \in Accs
    BY NothingIsGood DEF GoodAcc
  <2>3. \A n \in 1..k : \A acc \in Accs : F[<<n, acc>>] = Collect(acc, lines[n])
    OBVIOUS
  <2> HIDE DEF F
  <2>4. PICK g \in [0..k -> Accs] : IsRecursive(g, k, NothingCollected, F)
    BY <1>1, <2>1, <2>2, RecursionExists
  <2>5. \A n \in 0..k : n # 0 => F[<<n, g[n - 1]>>] = Collect(g[n - 1], lines[n])
    <3> SUFFICES ASSUME NEW n \in 0..k, n # 0
                 PROVE  F[<<n, g[n - 1]>>] = Collect(g[n - 1], lines[n])
      OBVIOUS
    <3>1. n \in 1..k /\ n - 1 \in 0..k
      BY <1>1
    <3>2. g[n - 1] \in Accs
      BY <3>1
    <3> QED
      BY <2>3, <3>1, <3>2
  <2>6. g = Pass(g)
    BY <2>4, <2>5 DEF IsRecursive
  <2> QED
    BY <2>6
<1>4. pass = Pass(pass)
  BY <1>3
<1> HIDE DEF pass
<1>5. pass[0] = NothingCollected /\ \A n \in 1..k : pass[n] = Collect(pass[n - 1], lines[n])
  BY <1>1, <1>4
<1> DEFINE T == {n \in Nat : n <= k => GoodAcc(lines, n, pass[n])}
<1>6. 0 \in T
  BY <1>5, NothingIsGood
<1>7. \A n \in Nat : n \in T => n + 1 \in T
  <2> SUFFICES ASSUME NEW n \in Nat, n \in T, n + 1 <= k PROVE GoodAcc(lines, n + 1, pass[n + 1])
    BY <1>1
  <2>1. n + 1 \in 1..k /\ (n + 1) - 1 = n /\ n <= k
    BY <1>1
  <2> QED
    BY <1>2, <1>5, <2>1
<1>8. k \in T
  <2> HIDE DEF T
  <2> QED
    BY <1>1, <1>6, <1>7, NatInduct
<1>9. Collected(lines) = pass[k]
  BY DEF Collected, pass
<1> QED
  BY <1>8, <1>9

-----------------------------------------------------------------------------
(* Whatever users do                                                       *)

\* The initial state is right in every way.
LEMMA InitIInv == Init => IInv
<1> SUFFICES ASSUME Init PROVE IInv
  OBVIOUS
<1>1. Types
  BY DEF Init, Types, Kept, LiveBill, Periods, NoPeriod
<1>2. NoneInv /\ EachInItsPeriod
  BY DEF Init, NoneInv, EachInItsPeriod
<1>3. PaidInv
  BY DEF Init, PaidInv, LinesInv, InvoiceInv, BillInv, Kept, LiveBill
<1> QED
  BY <1>1, <1>2, <1>3 DEF IInv, BookInv

\* What the wizard that settles does: it adds lines that are due and not settled to
\* settlements that are open, one for each line, and of its period; invoices may be
\* cancelled meanwhile.
Settles(add, cancelled) ==
  /\ add \in [Settlements -> SUBSET Lines]
  /\ earned' = [s \in Settlements |-> earned[s] \cup add[s]]
  /\ linked' = [s \in Settlements |-> linked[s] \cup add[s]]
  /\ settlement' = [s \in Settlements |-> IF settlement[s] = "none" /\ add[s] # {}
                                         THEN "settled" ELSE settlement[s]]
  /\ period' \in [Settlements -> Periods]
  /\ \A s \in Settlements : settlement[s] # "none" => period'[s] = period[s]
  /\ \A s \in Settlements : \A l \in add[s] :
       ~Skipped(l) /\ ~Settled(l) /\ InPeriod(period'[s], DayOf[l])
  /\ \A s, t \in Settlements : add[s] \cap add[t] # {} => s = t
  /\ \A s \in Settlements : add[s] # {} => settlement[s] \in {"none", "settled"}
  /\ invoice' = [l \in Lines |-> IF l \in cancelled THEN "cancel" ELSE invoice[l]]
  /\ crossed' = crossed \cup cancelled
  /\ UNCHANGED <<kind, bill, billed, paysFor, wizard>>

\* The settling wizard leaves such sets of lines.
LEMMA SettleIs ==
  ASSUME Types, NEW day, NEW cancelled, Settle(day, cancelled)
  PROVE  \E add : Settles(add, cancelled)
<1>1. PICK lines \in AgentLines(day) :
        LET end == Collected(lines) IN
        /\ period' = [s \in Settlements |-> end.period[s]]
        /\ settlement' = [s \in Settlements |-> IF settlement[s] = "none" /\ end.earned[s] # {}
                                               THEN "settled" ELSE settlement[s]]
        /\ earned' = [s \in Settlements |-> earned[s] \cup end.earned[s]]
        /\ linked' = [s \in Settlements |-> linked[s] \cup end.earned[s]]
  BY DEF Settle
<1> DEFINE end == Collected(lines)
           add == [s \in Settlements |-> end.earned[s]]
<1>2. GoodAcc(lines, Len(lines), end)
  BY CollectedIsGood
<1>3. \A i \in 1..Len(lines) : ~Settled(lines[i])
  <2>1. lines \in Seq(DueLines(day))
    BY AgentLinesAre
  <2> QED
    BY <2>1 DEF DueLines
<1> HIDE DEF end
<1>4. /\ add \in [Settlements -> SUBSET Lines]
      /\ period' \in [Settlements -> Periods]
  BY <1>1, <1>2 DEF GoodAcc, Accs, end
<1>5. \A s \in Settlements : settlement[s] # "none" => period'[s] = period[s]
  BY <1>1, <1>2 DEF GoodAcc, end
<1>6. \A s \in Settlements : \A l \in add[s] : ~Skipped(l) /\ ~Settled(l)
  BY <1>2, <1>3 DEF GoodAcc
<1>7. \A s \in Settlements : \A l \in add[s] : InPeriod(period'[s], DayOf[l])
  <2>1. \A s \in Settlements : period'[s] = end.period[s]
    BY <1>1 DEF end
  <2> QED
    BY <1>2, <2>1 DEF GoodAcc
<1>8. /\ \A s, t \in Settlements : add[s] \cap add[t] # {} => s = t
      /\ \A s \in Settlements : add[s] # {} => settlement[s] \in {"none", "settled"}
  BY <1>2 DEF GoodAcc
<1>9. /\ earned' = [s \in Settlements |-> earned[s] \cup add[s]]
      /\ linked' = [s \in Settlements |-> linked[s] \cup add[s]]
      /\ settlement' = [s \in Settlements |-> IF settlement[s] = "none" /\ add[s] # {}
                                             THEN "settled" ELSE settlement[s]]
  BY <1>1 DEF end
<1>10. /\ invoice' = [l \in Lines |-> IF l \in cancelled THEN "cancel" ELSE invoice[l]]
       /\ crossed' = crossed \cup cancelled
       /\ UNCHANGED <<kind, bill, billed, paysFor, wizard>>
  BY DEF Settle
<1> HIDE DEF add
<1> QED
  BY <1>4, <1>5, <1>6, <1>7, <1>8, <1>9, <1>10 DEF Settles

\* Customer invoices.
LEMMA InvoiceBook ==
  ASSUME BookInv, NEW l \in Lines,
         PostInvoice(l) \/ PayInvoice(l) \/ ResetInvoice(l) \/ CancelInvoice(l) \/ RegenerateAgents(l)
  PROVE  BookInv'
<1>1. CASE RegenerateAgents(l)
  BY <1>1 DEF BookInv, Types, NoneInv, EachInItsPeriod, RegenerateAgents
<1>2. ASSUME NEW from, NEW to \in {"draft", "posted", "paid", "cancel"}, SetInvoice(l, from, to)
      PROVE  BookInv'
  BY <1>2 DEF BookInv, Types, NoneInv, EachInItsPeriod, SetInvoice
<1> QED
  BY <1>1, <1>2 DEF PostInvoice, PayInvoice, ResetInvoice, CancelInvoice

\* The wizard that settles.
LEMMA SettleBook ==
  ASSUME BookInv, NEW day, NEW cancelled \in SUBSET Lines, Settle(day, cancelled)
  PROVE  BookInv'
<1>1. PICK add : Settles(add, cancelled)
  BY SettleIs DEF BookInv
<1>2. Types'
  BY <1>1 DEF Settles, BookInv, Types, Kept
<1>3. NoneInv'
  BY <1>1 DEF Settles, BookInv, NoneInv
<1>4. EachInItsPeriod'
  <2> SUFFICES ASSUME NEW s \in Settlements, NEW l \in earned'[s]
               PROVE  InPeriod(period[s], DayOf[l])'
    BY DEF EachInItsPeriod, InPeriod
  <2>1. InPeriod(period'[s], DayOf[l])
    <3>1. CASE l \in add[s]
      BY <1>1, <3>1 DEF Settles
    <3>2. CASE l \in earned[s]
      BY <1>1, <3>2 DEF Settles, BookInv, NoneInv, EachInItsPeriod, InPeriod
    <3> QED
      BY <1>1, <3>1, <3>2 DEF Settles
  <2>2. kind' = kind
    BY <1>1 DEF Settles
  <2> QED
    BY <2>1, <2>2 DEF InPeriod
<1> QED
  BY <1>2, <1>3, <1>4 DEF BookInv

\* Settlements, and the wizard that bills them.
LEMMA SettlementBook ==
  ASSUME BookInv,
         \/ \E s \in Settlements : CancelSettlement(s) \/ ResetSettlement(s) \/ DeleteSettlement(s)
         \/ \E ss \in SUBSET Billable : OpenWizard(ss)
  PROVE  BookInv'
<1>1. ASSUME NEW s \in Settlements, NEW from \in Kept, NEW to \in {"settled", "cancel"},
             SetSettlement(s, from, to)
      PROVE  BookInv'
  BY <1>1 DEF BookInv, Types, NoneInv, EachInItsPeriod, SetSettlement, Kept
<1>2. ASSUME NEW s \in Settlements, DeleteSettlement(s)
      PROVE  BookInv'
  <2>1. Types'
    BY <1>2 DEF BookInv, Types, DeleteSettlement, NoPeriod, Periods
  <2>2. NoneInv' /\ EachInItsPeriod'
    BY <1>2 DEF BookInv, Types, NoneInv, EachInItsPeriod, DeleteSettlement
  <2> QED
    BY <2>1, <2>2 DEF BookInv
<1>3. ASSUME NEW ss \in SUBSET Billable, OpenWizard(ss)
      PROVE  BookInv'
  BY <1>3 DEF BookInv, Types, NoneInv, EachInItsPeriod, OpenWizard, Billable
<1> QED
  BY <1>1, <1>2, <1>3 DEF CancelSettlement, ResetSettlement, Kept
\* What the button of the wizard does: bills that were not there become the bills of
\* one group of settlements each.
Bills4(of, groups, ss) ==
  /\ of \in Injection(groups, {v \in Bills : bill[v] = "none"})
  /\ \A v \in Bills :
       /\ bill'[v] = IF \E g \in groups : of[g] = v THEN "draft" ELSE bill[v]
       /\ \A g \in groups : of[g] = v =>
            billed'[v] = billed[v] \cup g /\ paysFor'[v] = paysFor[v] \cup LinesOf(g)
       /\ (\A g \in groups : of[g] # v) => billed'[v] = billed[v] /\ paysFor'[v] = paysFor[v]
  /\ \A s \in Settlements : settlement'[s] = IF s \in ss THEN "invoiced" ELSE settlement[s]

\* The invoicing wizard bills settlements one by one or together: those it was opened for,
\* or all that can be billed.
LEMMA ButtonIs ==
  ASSUME Types, NEW grouped \in BOOLEAN, ButtonCreate(grouped)
  PROVE  \E ss \in SUBSET Settlements, groups \in SUBSET SUBSET Settlements :
           /\ ss = Billable \/ (ss = wizard /\ (Careless = {} => ss \subseteq Billable))
           /\ groups = {ss} \/ groups = {{s} : s \in ss}
           /\ \E of : Bills4(of, groups, ss)
           /\ Types'
           /\ wizard' = {} /\ UNCHANGED <<kind, invoice, period, earned, linked, crossed>>
<1> DEFINE ss == IF wizard # {} THEN wizard ELSE Billable
           groups == IF grouped THEN {ss} ELSE {{s} : s \in ss}
<1>1. /\ ss \in SUBSET Settlements /\ groups \in SUBSET SUBSET Settlements
      /\ ss = Billable \/ (ss = wizard /\ (Careless = {} => ss \subseteq Billable))
      /\ groups = {ss} \/ groups = {{s} : s \in ss}
      /\ MakeBills(ss, groups)
      /\ wizard' = {} /\ UNCHANGED <<kind, invoice, period, earned, linked, crossed>>
  BY DEF ButtonCreate, Types, Billable
<1> HIDE DEF ss, groups
<1>2. PICK of \in Injection(groups, {v \in Bills : bill[v] = "none"}) :
        LET made(v) == UNION {g \in groups : of[g] = v} IN
        /\ bill' = [v \in Bills |-> IF \E g \in groups : of[g] = v THEN "draft" ELSE bill[v]]
        /\ billed' = [v \in Bills |-> billed[v] \cup made(v)]
        /\ paysFor' = [v \in Bills |-> paysFor[v] \cup LinesOf(made(v))]
  BY <1>1 DEF MakeBills
<1> DEFINE made(v) == UNION {g \in groups : of[g] = v}
<1>3. \A g, h \in groups : of[g] = of[h] => g = h
  BY DEF Injection, IsInjective
<1>4. \A v \in Bills : \A g \in groups : of[g] = v => made(v) = g
  <2> SUFFICES ASSUME NEW v \in Bills, NEW g \in groups, of[g] = v PROVE made(v) = g
    OBVIOUS
  <2>1. {h \in groups : of[h] = v} = {g}
    BY <1>3
  <2> QED
    BY <2>1
<1>5. \A v \in Bills : (\A g \in groups : of[g] # v) => made(v) = {}
  OBVIOUS
<1>6. LinesOf({}) = {}
  BY DEF LinesOf
<1>7. \A v \in Bills : made(v) \subseteq Settlements
  BY <1>1
<1>8. \A ts \in SUBSET Settlements : LinesOf(ts) \subseteq Lines
  BY DEF LinesOf, Types
<1>9. /\ billed' = [v \in Bills |-> billed[v] \cup made(v)]
      /\ paysFor' = [v \in Bills |-> paysFor[v] \cup LinesOf(made(v))]
  BY <1>2
<1> HIDE DEF made
<1>10. /\ billed' \in [Bills -> SUBSET Settlements]
       /\ paysFor' \in [Bills -> SUBSET Lines]
  BY <1>7, <1>8, <1>9 DEF Types
<1>11. settlement' = [s \in Settlements |-> IF s \in ss THEN "invoiced" ELSE settlement[s]]
  BY <1>1 DEF MakeBills
<1>12. Types'
  BY <1>1, <1>2, <1>10, <1>11 DEF Types, Kept, LiveBill
<1>13. Bills4(of, groups, ss)
  BY <1>2, <1>4, <1>5, <1>6, <1>9, <1>11 DEF Bills4
<1> QED
  BY <1>1, <1>12, <1>13

\* Bills of the agent.
LEMMA BillBook ==
  ASSUME BookInv,
         \/ \E grouped \in BOOLEAN : ButtonCreate(grouped)
         \/ \E v \in Bills : PostBill(v) \/ CancelBill(v) \/ ResetBill(v) \/ DeleteBill(v)
  PROVE  BookInv'
<1>1. ASSUME NEW grouped \in BOOLEAN, ButtonCreate(grouped)
      PROVE  BookInv'
  <2>1. PICK ss \in SUBSET Settlements, groups \in SUBSET SUBSET Settlements :
          /\ ss = Billable \/ (ss = wizard /\ (Careless = {} => ss \subseteq Billable))
          /\ groups = {ss} \/ groups = {{s} : s \in ss}
          /\ \E of : Bills4(of, groups, ss)
          /\ Types'
          /\ wizard' = {} /\ UNCHANGED <<kind, invoice, period, earned, linked, crossed>>
    BY <1>1, ButtonIs DEF BookInv
  <2>2. PICK of : Bills4(of, groups, ss)
    BY <2>1
  <2>3. \A s \in ss : settlement[s] # "none"
    BY <2>1 DEF BookInv, NoneInv, Billable
  <2>4. \A g \in groups : g \subseteq ss
    BY <2>1
  <2>5. NoneInv'
    <3> SUFFICES ASSUME NEW s \in Settlements, settlement'[s] = "none"
                 PROVE  /\ earned'[s] = {} /\ linked'[s] = {}
                        /\ s \notin wizard' /\ \A v \in Bills : s \notin billed'[v]
      BY DEF NoneInv
    <3>1. s \notin ss /\ settlement[s] = "none"
      BY <2>2 DEF Bills4
    <3>2. \A v \in Bills : s \notin billed'[v]
      BY <2>2, <2>4, <3>1 DEF Bills4, BookInv, NoneInv
    <3> QED
      BY <2>1, <3>1, <3>2 DEF BookInv, NoneInv
  <2>6. EachInItsPeriod'
    BY <2>1 DEF BookInv, EachInItsPeriod
  <2> QED
    BY <2>1, <2>5, <2>6 DEF BookInv
<1>2. ASSUME NEW v \in Bills, PostBill(v)
      PROVE  BookInv'
  <2>1. Types'
    BY <1>2 DEF BookInv, Types, PostBill, SetBill, Kept, LiveBill
  <2> QED
    BY <1>2, <2>1 DEF BookInv, Types, NoneInv, EachInItsPeriod, PostBill, SetBill
<1>3. ASSUME NEW v \in Bills, CancelBill(v)
      PROVE  BookInv'
  <2>1. Types'
    BY <1>3 DEF BookInv, Types, CancelBill, SetBill, Kept, LiveBill
  <2> QED
    BY <1>3, <2>1 DEF BookInv, Types, NoneInv, EachInItsPeriod, CancelBill, SetBill
<1>4. ASSUME NEW v \in Bills, ResetBill(v)
      PROVE  BookInv'
  BY <1>4 DEF BookInv, Types, NoneInv, EachInItsPeriod, ResetBill, SetBill, LiveBill
<1>5. ASSUME NEW v \in Bills, DeleteBill(v)
      PROVE  BookInv'
  <2>1. Types'
    BY <1>5 DEF BookInv, Types, DeleteBill, SetBill, Kept, LiveBill
  <2> QED
    BY <1>5, <2>1 DEF BookInv, Types, NoneInv, EachInItsPeriod, DeleteBill, SetBill
<1> QED
  BY <1>1, <1>2, <1>3, <1>4, <1>5

\* Every step keeps the book right, whatever users do.
LEMMA NextBook == BookInv /\ [Next]_vars => BookInv'
<1> SUFFICES ASSUME BookInv, [Next]_vars PROVE BookInv'
  OBVIOUS
<1>1. CASE Next
  BY <1>1, InvoiceBook, SettleBook, SettlementBook, BillBook, SettlementAssumption DEF Next
<1>2. CASE UNCHANGED vars
  BY <1>2 DEF vars, BookInv, Types, NoneInv, EachInItsPeriod
<1> QED
  BY <1>1, <1>2

\* The settlements keep the lines of their periods, whatever users do.
THEOREM LinesOfThePeriod == Spec => []EachInItsPeriod
<1>1. Init => BookInv
  BY InitIInv DEF IInv
<1>2. BookInv => EachInItsPeriod
  BY DEF BookInv
<1> QED
  BY <1>1, <1>2, NextBook, PTL DEF Spec
-----------------------------------------------------------------------------
(* If users are careful                                                    *)

\* Only settlements that are not cancelled count as the ones of a line, and their
\* lines are linked to them.
LEMMA SettledIs ==
  ASSUME Types, LinesInv, NEW l \in Lines
  PROVE  Settled(l) <=> \E s \in Settlements : settlement[s] \in Kept /\ l \in earned[s]
BY DEF Types, LinesInv, Settled, Kept

\* Customer invoices.
LEMMA InvoicePaid ==
  ASSUME IInv, Careless = {}, NEW l \in Lines,
         PostInvoice(l) \/ PayInvoice(l) \/ ResetInvoice(l) \/ CancelInvoice(l) \/ RegenerateAgents(l)
  PROVE  PaidInv'
<1>1. Types /\ LinesInv /\ InvoiceInv /\ BillInv
  BY DEF IInv, BookInv, PaidInv
<1>2. CASE RegenerateAgents(l)
  <2>1. ~Settled(l)
    BY <1>2 DEF RegenerateAgents
  <2>2. LinesInv'
    BY <1>1, <1>2, <2>1, SettledIs DEF LinesInv, RegenerateAgents, Types
  <2>3. InvoiceInv' /\ BillInv'
    BY <1>1, <1>2 DEF InvoiceInv, BillInv, RegenerateAgents, LinesOf, HasLiveBill
  <2> QED
    BY <2>2, <2>3 DEF PaidInv
<1>3. ASSUME NEW from, NEW to, SetInvoice(l, from, to), to = "cancel" => ~Settled(l)
      PROVE  PaidInv'
  <2>1. LinesInv' /\ BillInv'
    BY <1>1, <1>3 DEF LinesInv, BillInv, SetInvoice, LinesOf, HasLiveBill
  <2>2. InvoiceInv'
    BY <1>1, <1>3, SettledIs DEF InvoiceInv, SetInvoice, Types
  <2> QED
    BY <2>1, <2>2 DEF PaidInv
<1> QED
  BY <1>2, <1>3 DEF PostInvoice, PayInvoice, ResetInvoice, CancelInvoice

\* The wizard that settles.
LEMMA SettlePaid ==
  ASSUME IInv, NEW day, NEW cancelled \in SUBSET Lines, Settle(day, cancelled)
  PROVE  PaidInv'
<1>1. PICK add : Settles(add, cancelled)
  BY SettleIs DEF IInv, BookInv
<1>2. Types /\ NoneInv /\ LinesInv /\ InvoiceInv /\ BillInv
  BY DEF IInv, BookInv, PaidInv
<1>3. \A s \in Settlements :
        /\ earned'[s] = earned[s] \cup add[s] /\ linked'[s] = linked[s] \cup add[s]
        /\ settlement'[s] = IF settlement[s] = "none" /\ add[s] # {} THEN "settled" ELSE settlement[s]
  BY <1>1 DEF Settles
<1>4. \A s, t \in Settlements : \A l \in add[s] : settlement[t] \in Kept => l \notin earned[t]
  BY <1>1, <1>2, SettledIs DEF Settles
<1>5. LinesInv'
  <2>1. \A s \in Settlements : settlement'[s] \in Kept =>
          \/ settlement[s] \in Kept
          \/ settlement[s] = "none" /\ earned[s] = {} /\ linked[s] = {}
    BY <1>2, <1>3 DEF NoneInv, Kept
  <2>2. \A s \in Settlements : settlement'[s] \in Kept => linked'[s] = earned'[s]
    BY <1>2, <1>3, <2>1 DEF LinesInv
  <2>3. \A s, t \in Settlements :
          settlement'[s] \in Kept /\ settlement'[t] \in Kept /\ earned'[s] \cap earned'[t] # {} => s = t
    <3> SUFFICES ASSUME NEW s \in Settlements, NEW t \in Settlements,
                        settlement'[s] \in Kept, settlement'[t] \in Kept,
                        NEW l, l \in earned'[s], l \in earned'[t]
                 PROVE  s = t
      OBVIOUS
    <3>1. CASE l \in add[s] /\ l \in add[t]
      BY <1>1, <3>1 DEF Settles
    <3>2. CASE l \in add[s] /\ l \notin add[t]
      BY <1>3, <1>4, <2>1, <3>2
    <3>3. CASE l \notin add[s] /\ l \in add[t]
      BY <1>3, <1>4, <2>1, <3>3
    <3>4. CASE l \notin add[s] /\ l \notin add[t]
      BY <1>2, <1>3, <2>1, <3>4 DEF LinesInv
    <3> QED
      BY <3>1, <3>2, <3>3, <3>4
  <2> QED
    BY <2>2, <2>3 DEF LinesInv
<1>6. InvoiceInv'
  <2>1. \A s \in Settlements : \A l \in add[s] : invoice[l] # "cancel"
    BY <1>1 DEF Settles, Skipped
  <2>2. \A s \in Settlements : settlement'[s] \in Kept =>
          settlement[s] \in Kept \/ earned[s] = {}
    BY <1>2, <1>3 DEF NoneInv
  <2>3. /\ invoice' = [l \in Lines |-> IF l \in cancelled THEN "cancel" ELSE invoice[l]]
        /\ crossed' = crossed \cup cancelled
    BY <1>1 DEF Settles
  <2> SUFFICES ASSUME NEW s \in Settlements, settlement'[s] \in Kept,
                      NEW l \in earned'[s] \ crossed'
               PROVE  invoice'[l] # "cancel"
    BY DEF InvoiceInv
  <2>4. l \notin crossed /\ l \notin cancelled /\ (l \in earned[s] \/ l \in add[s])
    BY <1>3, <2>3
  <2>5. l \in Lines
    BY <1>1, <1>2, <2>4 DEF Settles, Types
  <2>6. invoice[l] # "cancel"
    BY <1>2, <2>1, <2>2, <2>4 DEF InvoiceInv
  <2> QED
    BY <2>3, <2>4, <2>5, <2>6
<1>7. BillInv'
  <2>1. /\ bill' = bill /\ billed' = billed /\ paysFor' = paysFor
        /\ \A s \in Settlements : settlement[s] \in {"invoiced", "except_invoice"} =>
             add[s] = {} /\ settlement'[s] = settlement[s] /\ earned'[s] = earned[s]
    BY <1>1, <1>3 DEF Settles, Types
  <2>2. \A v \in Bills : bill[v] \in LiveBill => (LinesOf(billed[v]))' = LinesOf(billed[v])
    <3> SUFFICES ASSUME NEW v \in Bills, bill[v] \in LiveBill
                 PROVE  UNION {earned'[s] : s \in billed[v]} = UNION {earned[s] : s \in billed[v]}
      BY <2>1 DEF LinesOf
    <3>1. \A s \in billed[v] : earned'[s] = earned[s]
      BY <1>2, <2>1 DEF BillInv, Types
    <3> QED
      BY <3>1
  <2>3. \A s \in Settlements : settlement'[s] = "invoiced" => settlement[s] = "invoiced"
    BY <1>3
  <2> QED
    BY <1>2, <2>1, <2>2, <2>3 DEF BillInv, HasLiveBill, Types
<1> QED
  BY <1>5, <1>6, <1>7 DEF PaidInv

\* Settlements, and the wizard that bills them: none that a bill has is touched.
LEMMA SettlementPaid ==
  ASSUME IInv, Careless = {},
         \/ \E s \in Settlements : CancelSettlement(s) \/ ResetSettlement(s) \/ DeleteSettlement(s)
         \/ \E ss \in SUBSET Billable : OpenWizard(ss)
  PROVE  PaidInv'
<1>1. Types /\ LinesInv /\ InvoiceInv /\ BillInv
  BY DEF IInv, BookInv, PaidInv
<1>2. ASSUME NEW s \in Settlements, NEW from \in Kept, NEW to \in {"settled", "cancel"},
             SetSettlement(s, from, to), ~HasLiveBill(s)
      PROVE  PaidInv'
  <2>1. LinesInv' /\ InvoiceInv'
    BY <1>1, <1>2 DEF LinesInv, InvoiceInv, SetSettlement, Types, Kept
  <2>2. BillInv'
    BY <1>1, <1>2 DEF BillInv, SetSettlement, Types, HasLiveBill, LinesOf, LiveBill
  <2> QED
    BY <2>1, <2>2 DEF PaidInv
<1>3. ASSUME NEW s \in Settlements, DeleteSettlement(s)
      PROVE  PaidInv'
  <2>1. ~HasLiveBill(s)
    BY <1>3 DEF DeleteSettlement
  <2>2. LinesInv' /\ InvoiceInv'
    BY <1>1, <1>3 DEF LinesInv, InvoiceInv, DeleteSettlement, Types, Kept
  <2>3. \A v \in Bills : bill[v] \in LiveBill =>
          /\ s \notin billed[v] /\ billed'[v] = billed[v]
          /\ UNION {earned'[t] : t \in billed[v]} = UNION {earned[t] : t \in billed[v]}
    <3> SUFFICES ASSUME NEW v \in Bills, bill[v] \in LiveBill
                 PROVE  /\ s \notin billed[v] /\ billed'[v] = billed[v]
                        /\ UNION {earned'[t] : t \in billed[v]} = UNION {earned[t] : t \in billed[v]}
      OBVIOUS
    <3>1. s \notin billed[v]
      BY <2>1 DEF HasLiveBill, LiveBill
    <3>2. \A t \in billed[v] : earned'[t] = earned[t]
      BY <1>1, <1>3, <3>1 DEF DeleteSettlement, Types
    <3>3. billed'[v] = billed[v]
      BY <1>3, <3>1 DEF DeleteSettlement
    <3> QED
      BY <3>1, <3>2, <3>3
  <2>4. \A v \in Bills : bill[v] \in LiveBill => (LinesOf(billed[v]))' = LinesOf(billed[v])
    BY <2>3 DEF LinesOf
  <2>5. /\ bill' = bill /\ paysFor' = paysFor
        /\ \A v \in Bills : billed'[v] = billed[v] \ {s}
        /\ \A t \in Settlements : settlement'[t] = IF t = s THEN "none" ELSE settlement[t]
    BY <1>1, <1>3 DEF DeleteSettlement, Types
  <2>6. \A v \in Bills : bill'[v] \in LiveBill =>
          /\ \A t \in billed'[v] : settlement'[t] \in {"invoiced", "except_invoice"}
          /\ paysFor'[v] = (LinesOf(billed[v]))'
    BY <1>1, <2>3, <2>4, <2>5 DEF BillInv, Types
  <2>7. \A t \in Settlements : settlement'[t] = "invoiced" => HasLiveBill(t)'
    BY <1>1, <2>1, <2>5 DEF BillInv, HasLiveBill
  <2>8. BillInv'
    BY <1>1, <2>5, <2>6, <2>7 DEF BillInv
  <2> QED
    BY <2>2, <2>8 DEF PaidInv
<1>4. ASSUME NEW ss \in SUBSET Billable, OpenWizard(ss)
      PROVE  PaidInv'
  BY <1>1, <1>4 DEF PaidInv, LinesInv, InvoiceInv, BillInv, OpenWizard, HasLiveBill, LinesOf
<1>5. \A s \in Settlements : settlement[s] = "settled" => ~HasLiveBill(s)
  BY <1>1 DEF BillInv, HasLiveBill, LiveBill
<1> QED
  BY <1>2, <1>3, <1>4, <1>5 DEF CancelSettlement, ResetSettlement, SetSettlement, Kept
\* The button of the wizard bills settlements that no bill has.
LEMMA ButtonPaid ==
  ASSUME IInv, Careless = {}, NEW grouped \in BOOLEAN, ButtonCreate(grouped)
  PROVE  PaidInv'
<1>1. Types /\ LinesInv /\ InvoiceInv /\ BillInv
  BY DEF IInv, BookInv, PaidInv
<1>2. PICK ss \in SUBSET Settlements, groups \in SUBSET SUBSET Settlements :
        /\ ss \subseteq Billable
        /\ groups = {ss} \/ groups = {{s} : s \in ss}
        /\ \E of : Bills4(of, groups, ss)
        /\ UNCHANGED <<invoice, earned, linked, crossed>>
  BY <1>1, ButtonIs
<1>3. PICK of : Bills4(of, groups, ss)
  BY <1>2
<1>4. /\ \A s \in ss : settlement[s] = "settled" /\ settlement'[s] = "invoiced"
      /\ \A s \in Settlements \ ss : settlement'[s] = settlement[s]
  BY <1>2, <1>3 DEF Bills4, Billable
<1>5. LinesInv' /\ InvoiceInv'
  <2>1. \A s \in Settlements : settlement'[s] \in Kept <=> settlement[s] \in Kept
    BY <1>4 DEF Kept
  <2> QED
    BY <1>1, <1>2, <2>1 DEF LinesInv, InvoiceInv
<1>6. /\ \A g \in groups : g \subseteq ss
      /\ \A g, h \in groups : g \cap h # {} => g = h
      /\ \A s \in ss : \E g \in groups : s \in g
  <2>1. CASE groups = {ss}
    BY <2>1
  <2>2. CASE groups = {{s} : s \in ss}
    <3>1. (\A g \in groups : \E s \in ss : g = {s}) /\ \A s \in ss : {s} \in groups
      BY <2>2
    <3>2. \A s \in ss : s \in {s}
      OBVIOUS
    <3>3. \A s \in ss : \E g \in groups : s \in g
      BY <3>1, <3>2
    <3>4. \A g, h \in groups : g \cap h # {} => g = h
      <4> SUFFICES ASSUME NEW g \in groups, NEW h \in groups, NEW t, t \in g, t \in h
                   PROVE  g = h
        OBVIOUS
      <4>1. g = {t} /\ h = {t}
        BY <3>1
      <4> QED
        BY <4>1
    <3> QED
      BY <3>1, <3>3, <3>4
  <2> QED
    BY <1>2, <2>1, <2>2
<1>7. /\ of \in [groups -> {v \in Bills : bill[v] = "none"}]
      /\ \A g, h \in groups : of[g] = of[h] => g = h
  BY <1>3 DEF Bills4, Injection, IsInjective
<1>8. \A ts : (LinesOf(ts))' = LinesOf(ts)
  BY <1>2 DEF LinesOf
<1>9. \A g \in groups : /\ of[g] \in Bills /\ bill[of[g]] = "none" /\ bill'[of[g]] = "draft"
                        /\ billed'[of[g]] = g /\ paysFor'[of[g]] = LinesOf(g)
  <2> SUFFICES ASSUME NEW g \in groups
               PROVE  /\ of[g] \in Bills /\ bill[of[g]] = "none" /\ bill'[of[g]] = "draft"
                      /\ billed'[of[g]] = g /\ paysFor'[of[g]] = LinesOf(g)
    OBVIOUS
  <2>1. of[g] \in Bills /\ bill[of[g]] = "none"
    BY <1>7
  <2>2. billed[of[g]] = {} /\ paysFor[of[g]] = {}
    BY <1>1, <2>1 DEF BillInv
  <2>3. /\ bill'[of[g]] = "draft"
        /\ billed'[of[g]] = billed[of[g]] \cup g /\ paysFor'[of[g]] = paysFor[of[g]] \cup LinesOf(g)
    BY <1>3, <2>1 DEF Bills4
  <2> QED
    BY <2>1, <2>2, <2>3
<1>10. \A v \in Bills : (\A g \in groups : of[g] # v) =>
         bill'[v] = bill[v] /\ billed'[v] = billed[v] /\ paysFor'[v] = paysFor[v]
  BY <1>3 DEF Bills4
<1>11. \A v \in Bills : bill[v] \in LiveBill => \A s \in billed[v] : s \notin ss
  BY <1>1, <1>4 DEF BillInv
<1>12. BillInv'
  <2>1. \A v \in Bills : bill'[v] = "none" => billed'[v] = {} /\ paysFor'[v] = {}
    BY <1>1, <1>9, <1>10 DEF BillInv
  <2>2. \A v \in Bills : bill'[v] \in LiveBill =>
          /\ \A s \in billed'[v] : settlement'[s] \in {"invoiced", "except_invoice"}
          /\ paysFor'[v] = LinesOf(billed'[v])
    <3> SUFFICES ASSUME NEW v \in Bills, bill'[v] \in LiveBill
                 PROVE  /\ \A s \in billed'[v] : settlement'[s] \in {"invoiced", "except_invoice"}
                        /\ paysFor'[v] = LinesOf(billed'[v])
      OBVIOUS
    <3>1. CASE \E g \in groups : of[g] = v
      BY <1>4, <1>6, <1>9, <3>1
    <3>2. CASE \A g \in groups : of[g] # v
      BY <1>1, <1>4, <1>10, <1>11, <3>2 DEF BillInv, Types
    <3> QED
      BY <3>1, <3>2
  <2>3. \A v, w \in Bills :
          bill'[v] \in LiveBill /\ bill'[w] \in LiveBill /\ billed'[v] \cap billed'[w] # {} => v = w
    <3> SUFFICES ASSUME NEW v \in Bills, NEW w \in Bills, bill'[v] \in LiveBill, bill'[w] \in LiveBill,
                        NEW s, s \in billed'[v], s \in billed'[w]
                 PROVE  v = w
      OBVIOUS
    <3>1. CASE \E g \in groups : of[g] = v
      <4>1. PICK g \in groups : of[g] = v
        BY <3>1
      <4>2. s \in g /\ s \in ss
        BY <1>6, <1>9, <4>1
      <4>3. PICK h \in groups : of[h] = w
        BY <1>10, <1>11, <4>2
      <4> QED
        BY <1>6, <1>9, <4>1, <4>2, <4>3
    <3>2. CASE \E g \in groups : of[g] = w
      <4>1. PICK g \in groups : of[g] = w
        BY <3>2
      <4>2. s \in g /\ s \in ss
        BY <1>6, <1>9, <4>1
      <4>3. PICK h \in groups : of[h] = v
        BY <1>10, <1>11, <4>2
      <4> QED
        BY <1>6, <1>9, <4>1, <4>2, <4>3
    <3>3. CASE \A g \in groups : of[g] # v /\ of[g] # w
      BY <1>1, <1>10, <3>3 DEF BillInv
    <3> QED
      BY <3>1, <3>2, <3>3
  <2>4. \A s \in Settlements : settlement'[s] = "invoiced" => HasLiveBill(s)'
    <3> SUFFICES ASSUME NEW s \in Settlements, settlement'[s] = "invoiced"
                 PROVE  \E v \in Bills : bill'[v] \in LiveBill /\ s \in billed'[v]
      BY DEF HasLiveBill, LiveBill
    <3>1. CASE s \in ss
      BY <1>6, <1>9, <3>1 DEF LiveBill
    <3>2. CASE s \notin ss
      <4>1. PICK v \in Bills : bill[v] \in LiveBill /\ s \in billed[v]
        BY <1>1, <1>4, <3>2 DEF BillInv, HasLiveBill, LiveBill
      <4>2. \A g \in groups : of[g] # v
        BY <1>9, <4>1 DEF LiveBill
      <4> QED
        BY <1>10, <4>1, <4>2
    <3> QED
      BY <3>1, <3>2
  <2> QED
    BY <1>8, <2>1, <2>2, <2>3, <2>4 DEF BillInv
<1> QED
  BY <1>5, <1>12 DEF PaidInv

\* Bills of the agent.
LEMMA BillPaid ==
  ASSUME IInv, Careless = {}, NEW v \in Bills,
         PostBill(v) \/ CancelBill(v) \/ ResetBill(v) \/ DeleteBill(v)
  PROVE  PaidInv'
<1>1. Types /\ LinesInv /\ InvoiceInv /\ BillInv
  BY DEF IInv, BookInv, PaidInv
<1>2. UNCHANGED <<invoice, earned, linked, crossed>>
  BY DEF PostBill, CancelBill, ResetBill, DeleteBill, SetBill
<1>3. \A ts : (LinesOf(ts))' = LinesOf(ts)
  BY <1>2 DEF LinesOf
<1>4. ASSUME \A s \in Settlements : settlement'[s] \in Kept => settlement[s] \in Kept
      PROVE  LinesInv' /\ InvoiceInv'
  BY <1>1, <1>2, <1>4 DEF LinesInv, InvoiceInv
<1>5. bill[v] \in LiveBill => \A s \in billed[v] : settlement[s] \in Kept
  BY <1>1 DEF BillInv, Kept
<1>6. CASE PostBill(v)
  <2>1. LinesInv' /\ InvoiceInv'
    BY <1>1, <1>4, <1>5, <1>6 DEF PostBill, SetBill, LiveBill, Types
  <2>2. BillInv'
    BY <1>1, <1>3, <1>6 DEF BillInv, PostBill, SetBill, LiveBill, Types, HasLiveBill
  <2> QED
    BY <2>1, <2>2 DEF PaidInv
<1>7. CASE CancelBill(v)
  <2>1. LinesInv' /\ InvoiceInv'
    BY <1>1, <1>4, <1>5, <1>7 DEF CancelBill, SetBill, LiveBill, Types
  <2>2. BillInv'
    BY <1>1, <1>3, <1>7 DEF BillInv, CancelBill, SetBill, LiveBill, Types, HasLiveBill
  <2> QED
    BY <2>1, <2>2 DEF PaidInv
<1>8. CASE ResetBill(v)
  <2>1. LinesInv' /\ InvoiceInv'
    BY <1>1, <1>4, <1>8 DEF ResetBill
  <2>2. BillInv'
    <3>1. bill[v] \in LiveBill \/ bill[v] = "cancel"
      BY <1>8 DEF ResetBill, SetBill, LiveBill
    <3>2. bill[v] \notin LiveBill =>
            /\ \A s \in billed[v] : settlement[s] = "except_invoice" /\ ~HasLiveBill(s)
            /\ paysFor[v] = LinesOf(billed[v])
      BY <1>8, <3>1 DEF ResetBill, LiveBill
    <3>3. /\ settlement' = settlement /\ billed' = billed /\ paysFor' = paysFor
          /\ \A w \in Bills : bill'[w] = IF w = v THEN "draft" ELSE bill[w]
      BY <1>1, <1>8 DEF ResetBill, SetBill, Types
    <3>4. \A w \in Bills : bill[w] \in LiveBill => bill'[w] \in LiveBill
      BY <3>3 DEF LiveBill
    <3>5. \A w \in Bills : bill'[w] = "none" => billed'[w] = {} /\ paysFor'[w] = {}
      BY <1>1, <3>3 DEF BillInv
    <3>6. \A w \in Bills : bill'[w] \in LiveBill =>
            /\ \A s \in billed'[w] : settlement'[s] \in {"invoiced", "except_invoice"}
            /\ paysFor'[w] = (LinesOf(billed[w]))'
      BY <1>1, <1>3, <3>2, <3>3 DEF BillInv
    <3>7. \A w \in Bills : w # v /\ bill[w] \in LiveBill => billed[v] \cap billed[w] = {}
      BY <1>1, <3>2 DEF BillInv, HasLiveBill, LiveBill
    <3>8. \A w, x \in Bills :
            bill'[w] \in LiveBill /\ bill'[x] \in LiveBill /\ billed'[w] \cap billed'[x] # {} => w = x
      BY <1>1, <3>3, <3>7 DEF BillInv
    <3>9. \A s \in Settlements : settlement'[s] = "invoiced" => HasLiveBill(s)'
      BY <1>1, <3>3, <3>4 DEF BillInv, HasLiveBill, LiveBill
    <3> QED
      BY <3>5, <3>6, <3>8, <3>9 DEF BillInv
  <2> QED
    BY <2>1, <2>2 DEF PaidInv
<1>9. CASE DeleteBill(v)
  <2>1. LinesInv' /\ InvoiceInv'
    BY <1>1, <1>4, <1>9 DEF DeleteBill, Kept, Types
  <2>2. BillInv'
    <3> DEFINE back == {s \in billed[v] : settlement[s] = "invoiced"}
    <3>1. back # {} => bill[v] \in LiveBill
      BY <1>9 DEF DeleteBill, SetBill, LiveBill
    <3>2. \A s \in back : \A w \in Bills : bill[w] \in LiveBill /\ s \in billed[w] => w = v
      BY <1>1, <3>1 DEF BillInv
    <3>3. /\ \A s \in Settlements : settlement'[s] = IF s \in back THEN "settled" ELSE settlement[s]
          /\ bill'[v] = "none" /\ billed'[v] = {} /\ paysFor'[v] = {}
          /\ \A w \in Bills : w # v =>
               bill'[w] = bill[w] /\ billed'[w] = billed[w] /\ paysFor'[w] = paysFor[w]
      BY <1>1, <1>9 DEF DeleteBill, SetBill, Types
    <3>4. \A w \in Bills : bill'[w] \in LiveBill => w # v
      BY <3>3 DEF LiveBill
    <3>5. \A w \in Bills : bill'[w] \in LiveBill =>
            \A s \in billed'[w] : settlement'[s] \in {"invoiced", "except_invoice"}
      BY <1>1, <3>2, <3>3, <3>4 DEF BillInv, Types
    <3>6. \A s \in Settlements : settlement'[s] = "invoiced" => HasLiveBill(s)'
      <4> SUFFICES ASSUME NEW s \in Settlements, settlement'[s] = "invoiced"
                   PROVE  \E w \in Bills : bill'[w] \in LiveBill /\ s \in billed'[w]
        BY DEF HasLiveBill, LiveBill
      <4>1. settlement[s] = "invoiced" /\ s \notin back
        BY <3>3
      <4>2. PICK w \in Bills : bill[w] \in LiveBill /\ s \in billed[w]
        BY <1>1, <4>1 DEF BillInv, HasLiveBill, LiveBill
      <4>3. w # v
        BY <4>1, <4>2
      <4> QED
        BY <3>3, <4>2, <4>3
    <3>7. \A w \in Bills : bill'[w] = "none" => billed'[w] = {} /\ paysFor'[w] = {}
      BY <1>1, <3>3 DEF BillInv
    <3>8. \A w \in Bills : bill'[w] \in LiveBill => paysFor'[w] = (LinesOf(billed[w]))'
      BY <1>1, <1>3, <3>3, <3>4 DEF BillInv
    <3>9. \A w, x \in Bills :
            bill'[w] \in LiveBill /\ bill'[x] \in LiveBill /\ billed'[w] \cap billed'[x] # {} => w = x
      BY <1>1, <3>3, <3>4 DEF BillInv
    <3> HIDE DEF back
    <3> QED
      BY <3>5, <3>6, <3>7, <3>8, <3>9 DEF BillInv
  <2> QED
    BY <2>1, <2>2 DEF PaidInv
<1> QED
  BY <1>6, <1>7, <1>8, <1>9

\* Every step keeps what is paid right, where users are careful.
LEMMA NextIInv == Careless = {} /\ IInv /\ [Next]_vars => IInv'
<1> SUFFICES ASSUME Careless = {}, IInv, [Next]_vars PROVE IInv'
  OBVIOUS
<1>1. BookInv'
  BY NextBook DEF IInv
<1>2. CASE Next
  <2>1. PaidInv'
    BY <1>2, InvoicePaid, SettlePaid, SettlementPaid, ButtonPaid, BillPaid, SettlementAssumption
       DEF Next
  <2> QED
    BY <1>1, <2>1 DEF IInv
<1>3. CASE UNCHANGED vars
  BY <1>1, <1>3 DEF vars, IInv, PaidInv, LinesInv, InvoiceInv, BillInv, HasLiveBill, LinesOf
<1> QED
  BY <1>2, <1>3

\* The invariants hold if users avoid the four ways named in AllCareless.
THEOREM Invariance ==
  ASSUME Careless = {}
  PROVE  Spec => []IInv
<1>1. IInv /\ [Next]_vars => IInv'
  BY NextIInv
<1> QED
  BY <1>1, InitIInv, PTL DEF Spec

\* Then no commission is paid for an invoice that is cancelled.
THEOREM CancelledEarnsNothing ==
  ASSUME Careless = {}
  PROVE  Spec => []NoneForCancelled
<1>1. IInv => NoneForCancelled
  BY DEF IInv, BookInv, PaidInv, Types, NoneInv, InvoiceInv, NoneForCancelled, Kept
<1> QED
  BY <1>1, Invariance, PTL

\* And each is paid by one bill, which exists once its settlement is invoiced.
THEOREM EachPaidOnce ==
  ASSUME Careless = {}
  PROVE  Spec => []PaidOnce
<1>1. IInv => PaidOnce
  <2> SUFFICES ASSUME IInv PROVE PaidOnce
    OBVIOUS
  <2>1. Types /\ LinesInv /\ BillInv
    BY DEF IInv, BookInv, PaidInv
  <2>2. \A l \in Lines : \A v, w \in Bills :
          bill[v] = "posted" /\ l \in paysFor[v] /\ bill[w] = "posted" /\ l \in paysFor[w] => v = w
    <3> SUFFICES ASSUME NEW l \in Lines, NEW v \in Bills, NEW w \in Bills,
                        bill[v] = "posted", l \in paysFor[v], bill[w] = "posted", l \in paysFor[w]
                 PROVE  v = w
      OBVIOUS
    <3>1. PICK s \in billed[v] : l \in earned[s]
      BY <2>1 DEF BillInv, LiveBill, LinesOf
    <3>2. PICK t \in billed[w] : l \in earned[t]
      BY <2>1 DEF BillInv, LiveBill, LinesOf
    <3>3. s \in Settlements /\ t \in Settlements /\ settlement[s] \in Kept /\ settlement[t] \in Kept
      BY <2>1 DEF Types, BillInv, LiveBill, Kept
    <3>4. s = t
      BY <2>1, <3>1, <3>2, <3>3 DEF LinesInv
    <3> QED
      BY <2>1, <3>4 DEF BillInv, LiveBill
  <2>3. \A s \in Settlements : settlement[s] = "invoiced" =>
          \E v \in Bills : /\ bill[v] \in {"draft", "posted"}
                           /\ s \in billed[v] /\ earned[s] \subseteq paysFor[v]
    <3> SUFFICES ASSUME NEW s \in Settlements, settlement[s] = "invoiced"
                 PROVE  \E v \in Bills : /\ bill[v] \in {"draft", "posted"}
                                         /\ s \in billed[v] /\ earned[s] \subseteq paysFor[v]
      OBVIOUS
    <3>1. PICK v \in Bills : bill[v] \in {"draft", "posted"} /\ s \in billed[v]
      BY <2>1 DEF BillInv, HasLiveBill
    <3>2. earned[s] \subseteq paysFor[v]
      BY <2>1, <3>1 DEF BillInv, LiveBill, LinesOf
    <3> QED
      BY <3>1, <3>2
  <2> QED
    BY <2>2, <2>3 DEF PaidOnce
<1> QED
  BY <1>1, Invariance, PTL
=============================================================================
