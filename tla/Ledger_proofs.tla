----------------------------- MODULE Ledger_proofs -----------------------------
(***************************************************************************)
(* Theorems about Allocation and PlanLedger, for any figures, payments,    *)
(* counters and days, and about Counter, for any prices, payments and      *)
(* schedules.  Requests and nightly runs overlap as they like and fail     *)
(* midway; where one has written over what it had not seen, `clashed` says *)
(* so and the properties that name it claim nothing more.                  *)
(***************************************************************************)
EXTENDS PlanLedger, Counter, SequenceTheorems, FiniteSetTheorems, WellFoundedInduction, TLAPS

-----------------------------------------------------------------------------
(* Sums over a finite set: SumFunction of the community modules *)

\* Induction over the natural numbers, for a set of them.
LEMMA NatSetInduction ==
  ASSUME NEW P, 0 \in P, \A n \in Nat : n \in P => n + 1 \in P
  PROVE  Nat \subseteq P
<1> DEFINE Less == OpToRel(<, Nat)
           Bad == Nat \ P
<1>1. SUFFICES ASSUME Bad # {} PROVE FALSE  OBVIOUS
<1>2. IsWellFoundedOn(Less, Nat)  BY NatLessThanWellFounded
<1>3. PICK n \in Bad : \A m \in Bad : ~(<<m, n>> \in Less)
  BY <1>1, <1>2, WFMin
<1>4. \A m \in Bad : ~(m < n)  BY <1>3 DEF OpToRel
<1>5. n # 0 /\ n - 1 \in Nat  OBVIOUS
<1>6. n - 1 \in P  BY <1>4, <1>5
<1> QED  BY <1>5, <1>6

Turn(g, f) ==
  [s \in SUBSET (DOMAIN g) |->
     IF s = {} THEN 0 ELSE g[CHOOSE x \in s : TRUE] + f[s \ {CHOOSE x \in s : TRUE}]]
Sums(g) == CHOOSE f : f = Turn(g, f)

\* A sum is the last value of the recursion it is defined by.
LEMMA SumIsLast == \A g : SumFunction(g) = Sums(g)[DOMAIN g]
BY DEF SumFunction, SumFunctionOnSet, FoldFunctionOnSet, MapThenFoldSet, Sums, Turn

\* f counts right up to sets of k elements.
CountsTo(g, f, k) ==
  \A s \in SUBSET (DOMAIN g) : Cardinality(s) <= k => f[s] = Turn(g, f)[s]

\* A set without one of its elements.
LEMMA OneLess ==
  ASSUME NEW S, IsFiniteSet(S), NEW s \in SUBSET S, NEW x \in s
  PROVE  /\ x \in S /\ s \ {x} \in SUBSET S
         /\ Cardinality(s) \in Nat /\ Cardinality(s \ {x}) = Cardinality(s) - 1 /\ Cardinality(s) >= 1
<1>1. IsFiniteSet(s)  BY FS_Subset
<1>2. Cardinality(s \ {x}) = Cardinality(s) - 1  BY <1>1, FS_RemoveElement
<1>3. Cardinality(s) \in Nat /\ Cardinality(s \ {x}) \in Nat  BY <1>1, FS_RemoveElement, FS_CardinalityType
<1> QED  BY <1>2, <1>3

\* The recursion goes down.
LEMMA Smaller ==
  ASSUME NEW S, IsFiniteSet(S), NEW s \in SUBSET S, s # {}
  PROVE  LET x == CHOOSE x \in s : TRUE IN
         /\ x \in s /\ x \in S /\ s \ {x} \in SUBSET S
         /\ Cardinality(s) \in Nat /\ Cardinality(s \ {x}) = Cardinality(s) - 1 /\ Cardinality(s) >= 1
<1> DEFINE x == CHOOSE x \in s : TRUE
<1>1. x \in s  OBVIOUS
<1> HIDE DEF x
<1> QED  BY <1>1, OneLess DEF x

\* It starts at the empty set.
LEMMA SmallIsEmpty ==
  ASSUME NEW S, IsFiniteSet(S), NEW s \in SUBSET S, Cardinality(s) <= 0
  PROVE  s = {}
<1> SUFFICES ASSUME s # {} PROVE FALSE  OBVIOUS
<1>1. Cardinality(s) \in Nat /\ Cardinality(s) >= 1  BY Smaller
<1> QED  BY <1>1

\* Right up to k elements, one turn is right up to k + 1.
LEMMA CountsOn ==
  ASSUME NEW g, IsFiniteSet(DOMAIN g), NEW f, NEW k \in Nat, CountsTo(g, f, k)
  PROVE  CountsTo(g, Turn(g, f), k + 1)
<1> SUFFICES ASSUME NEW s \in SUBSET (DOMAIN g), Cardinality(s) <= k + 1
             PROVE  Turn(g, f)[s] = Turn(g, Turn(g, f))[s]
  BY DEF CountsTo
<1>1. CASE s = {}  BY <1>1 DEF Turn
<1>2. CASE s # {}
  <2> DEFINE x == CHOOSE x \in s : TRUE
  <2>1. s \ {x} \in SUBSET (DOMAIN g) /\ Cardinality(s \ {x}) <= k
    BY <1>2, Smaller
  <2>2. f[s \ {x}] = Turn(g, f)[s \ {x}]  BY <2>1 DEF CountsTo
  <2>3. Turn(g, f)[s] = g[x] + f[s \ {x}]  BY <1>2 DEF Turn
  <2>4. \A h : Turn(g, h)[s] = g[x] + h[s \ {x}]  BY <1>2 DEF Turn
  <2> QED  BY <2>2, <2>3, <2>4
<1> QED  BY <1>1, <1>2

\* The recursion has a solution, so a sum is what it says.
LEMMA SumsDefined ==
  ASSUME NEW g, IsFiniteSet(DOMAIN g)
  PROVE  Sums(g) = Turn(g, Sums(g))
<1> DEFINE P == {k \in Nat : \E f : CountsTo(g, f, k)}
<1>1. 0 \in P
  <2> DEFINE f == [s \in SUBSET (DOMAIN g) |-> 0]
  <2>1. ASSUME NEW s \in SUBSET (DOMAIN g), Cardinality(s) <= 0 PROVE f[s] = Turn(g, f)[s]
    <3>1. s = {}  BY <2>1, SmallIsEmpty
    <3> QED  BY <3>1 DEF Turn
  <2>2. CountsTo(g, f, 0)  BY <2>1 DEF CountsTo
  <2> QED  BY <2>2
<1>2. \A n \in Nat : n \in P => n + 1 \in P  BY CountsOn
<1>3. Nat \subseteq P
  <2> HIDE DEF P
  <2> QED  BY <1>1, <1>2, NatSetInduction
<1>4. Cardinality(DOMAIN g) \in Nat  BY FS_CardinalityType
<1>5. PICK f : CountsTo(g, f, Cardinality(DOMAIN g))  BY <1>3, <1>4
<1>6. \A s \in SUBSET (DOMAIN g) : f[s] = Turn(g, f)[s]
  BY <1>4, <1>5, FS_Subset DEF CountsTo
<1> DEFINE h == [s \in SUBSET (DOMAIN g) |-> f[s]]
<1>7. h = Turn(g, h)
  <2>1. ASSUME NEW s \in SUBSET (DOMAIN g) PROVE h[s] = Turn(g, h)[s]
    <3>1. CASE s = {}  BY <1>6, <3>1 DEF Turn
    <3>2. CASE s # {}
      <4> DEFINE x == CHOOSE x \in s : TRUE
      <4>1. s \ {x} \in SUBSET (DOMAIN g)  OBVIOUS
      <4>2. \A z : Turn(g, z)[s] = g[x] + z[s \ {x}]  BY <3>2 DEF Turn
      <4>3. h[s \ {x}] = f[s \ {x}]  BY <4>1
      <4> QED  BY <1>6, <4>2, <4>3
    <3> QED  BY <3>1, <3>2
  <2>2. h = [s \in SUBSET (DOMAIN g) |-> h[s]] /\ Turn(g, h) = [s \in SUBSET (DOMAIN g) |-> Turn(g, h)[s]]
    BY DEF Turn
  <2> QED  BY <2>1, <2>2
<1>8. \E z : z = Turn(g, z)  BY <1>7
<1> QED  BY <1>8 DEF Sums

\* One turn of a sum.
LEMMA SumTurns ==
  ASSUME NEW g, IsFiniteSet(DOMAIN g)
  PROVE  /\ Sums(g)[{}] = 0
         /\ \A s \in SUBSET (DOMAIN g) : s # {} =>
              Sums(g)[s] = g[CHOOSE x \in s : TRUE] + Sums(g)[s \ {CHOOSE x \in s : TRUE}]
<1>1. {} \in SUBSET (DOMAIN g)  OBVIOUS
<1>2. \A s \in SUBSET (DOMAIN g) : Sums(g)[s] = Turn(g, Sums(g))[s]  BY SumsDefined
<1> QED  BY <1>1, <1>2 DEF Turn

\* Induction over the subsets of a finite set, an element at a time.
LEMMA SubsetInduction ==
  ASSUME NEW S, IsFiniteSet(S), NEW P, {} \in P,
         \A s \in SUBSET S : s # {} /\ s \ {CHOOSE x \in s : TRUE} \in P => s \in P
  PROVE  SUBSET S \subseteq P
<1> DEFINE Q == {k \in Nat : \A s \in SUBSET S : Cardinality(s) <= k => s \in P}
<1>1. 0 \in Q
  <2>1. ASSUME NEW s \in SUBSET S, Cardinality(s) <= 0 PROVE s \in P
    <3>1. s = {}  BY <2>1, SmallIsEmpty
    <3> QED  BY <3>1
  <2> QED  BY <2>1
<1>2. ASSUME NEW n \in Nat, n \in Q PROVE n + 1 \in Q
  <2>1. ASSUME NEW s \in SUBSET S, Cardinality(s) <= n + 1 PROVE s \in P
    <3>1. CASE s = {}  BY <3>1
    <3>2. CASE s # {}
      <4> DEFINE t == s \ {CHOOSE x \in s : TRUE}
      <4>1. t \in SUBSET S /\ Cardinality(t) <= n  BY <2>1, <3>2, Smaller
      <4> HIDE DEF t
      <4>2. t \in P  BY <1>2, <4>1
      <4> QED  BY <3>2, <4>2 DEF t
    <3> QED  BY <3>1, <3>2
  <2> QED  BY <2>1
<1>3. Nat \subseteq Q
  <2> HIDE DEF Q
  <2> QED  BY <1>1, <1>2, NatSetInduction
<1>4. ASSUME NEW s \in SUBSET S PROVE s \in P
  <2>1. Cardinality(s) \in Nat /\ Cardinality(s) <= Cardinality(s)
    BY FS_Subset, FS_CardinalityType
  <2> QED  BY <1>3, <2>1
<1> QED  BY <1>4

\* A sum of integers is one.
LEMMA SumIsInt ==
  ASSUME NEW S, IsFiniteSet(S), NEW g \in [S -> Int]
  PROVE  SumFunction(g) \in Int
<1> DEFINE P == {s \in SUBSET S : Sums(g)[s] \in Int}
<1>0. DOMAIN g = S  OBVIOUS
<1>1. {} \in P  BY <1>0, SumTurns
<1>2. ASSUME NEW s \in SUBSET S, s # {}, s \ {CHOOSE x \in s : TRUE} \in P PROVE s \in P
  <2> DEFINE x == CHOOSE x \in s : TRUE
  <2>1. x \in S  BY <1>2
  <2>2. Sums(g)[s] = g[x] + Sums(g)[s \ {x}]  BY <1>0, <1>2, SumTurns
  <2>3. Sums(g)[s \ {x}] \in Int /\ g[x] \in Int  BY <1>2, <2>1
  <2> QED  BY <2>2, <2>3
<1> HIDE DEF P
<1>3. SUBSET S \subseteq P  BY <1>1, <1>2, SubsetInduction
<1> QED  BY <1>0, <1>3, SumIsLast DEF P

\* A sum of natural numbers is one.
LEMMA SumIsNat ==
  ASSUME NEW S, IsFiniteSet(S), NEW g \in [S -> Nat]
  PROVE  SumFunction(g) \in Nat
<1> DEFINE P == {s \in SUBSET S : Sums(g)[s] \in Nat}
<1>0. DOMAIN g = S  OBVIOUS
<1>1. {} \in P  BY <1>0, SumTurns
<1>2. ASSUME NEW s \in SUBSET S, s # {}, s \ {CHOOSE x \in s : TRUE} \in P PROVE s \in P
  <2> DEFINE x == CHOOSE x \in s : TRUE
  <2>1. x \in S  BY <1>2
  <2>2. Sums(g)[s] = g[x] + Sums(g)[s \ {x}]  BY <1>0, <1>2, SumTurns
  <2>3. Sums(g)[s \ {x}] \in Nat /\ g[x] \in Nat  BY <1>2, <2>1
  <2> QED  BY <2>2, <2>3
<1> HIDE DEF P
<1>3. SUBSET S \subseteq P  BY <1>1, <1>2, SubsetInduction
<1> QED  BY <1>0, <1>3, SumIsLast DEF P

\* h stands, element by element, between g and g raised by the sum of d.
LEMMA SumOfSums ==
  ASSUME NEW S, IsFiniteSet(S), NEW g \in [S -> Int], NEW d \in [S -> Int], NEW h \in [S -> Int],
         \A x \in S : h[x] = g[x] + d[x]
  PROVE  SumFunction(h) = SumFunction(g) + SumFunction(d)
<1> DEFINE P == {s \in SUBSET S : /\ Sums(g)[s] \in Int /\ Sums(d)[s] \in Int
                                  /\ Sums(h)[s] = Sums(g)[s] + Sums(d)[s]}
<1>0. DOMAIN g = S /\ DOMAIN h = S /\ DOMAIN d = S  OBVIOUS
<1>1. {} \in P  BY <1>0, SumTurns
<1>2. ASSUME NEW s \in SUBSET S, s # {}, s \ {CHOOSE x \in s : TRUE} \in P PROVE s \in P
  <2> DEFINE x == CHOOSE x \in s : TRUE
             t == s \ {x}
  <2>1. x \in S /\ t \in P  BY <1>2
  <2>2. Sums(g)[s] = g[x] + Sums(g)[t]  BY <1>0, <1>2, SumTurns
  <2>5. Sums(d)[s] = d[x] + Sums(d)[t]  BY <1>0, <1>2, SumTurns
  <2>6. Sums(h)[s] = h[x] + Sums(h)[t]  BY <1>0, <1>2, SumTurns
  <2> HIDE DEF x, t
  <2>3. g[x] \in Int /\ d[x] \in Int /\ h[x] = g[x] + d[x]  BY <2>1
  <2>4. /\ Sums(g)[t] \in Int /\ Sums(d)[t] \in Int /\ Sums(h)[t] = Sums(g)[t] + Sums(d)[t]
    BY <2>1
  <2> QED  BY <2>2, <2>3, <2>4, <2>5, <2>6
<1> HIDE DEF P
<1>3. SUBSET S \subseteq P  BY <1>1, <1>2, SubsetInduction
<1> QED  BY <1>0, <1>3, SumIsLast DEF P

SameBut(S, g, h, a) == \A y \in S : y # a => h[y] = g[y]

\* One value changes.
LEMMA SumMoves ==
  ASSUME NEW S, IsFiniteSet(S), NEW g \in [S -> Int], NEW h \in [S -> Int], NEW a \in S,
         SameBut(S, g, h, a)
  PROVE  SumFunction(h) = SumFunction(g) + h[a] - g[a]
<1> USE DEF SameBut
<1> DEFINE P == {s \in SUBSET S : /\ Sums(g)[s] \in Int /\ Sums(h)[s] \in Int
                                  /\ a \notin s => Sums(h)[s] = Sums(g)[s]
                                  /\ a \in s => Sums(h)[s] = Sums(g)[s] + h[a] - g[a]}
<1>0. DOMAIN g = S /\ DOMAIN h = S  OBVIOUS
<1>1. {} \in P  BY <1>0, SumTurns
<1>2. ASSUME NEW s \in SUBSET S, s # {}, s \ {CHOOSE x \in s : TRUE} \in P PROVE s \in P
  <2> DEFINE x == CHOOSE x \in s : TRUE
             t == s \ {x}
  <2>1. x \in s /\ x \in S /\ t \in P /\ t = s \ {x}  BY <1>2
  <2>2. Sums(g)[s] = g[x] + Sums(g)[t]  BY <1>0, <1>2, SumTurns
  <2>3. Sums(h)[s] = h[x] + Sums(h)[t]  BY <1>0, <1>2, SumTurns
  <2> HIDE DEF x, t
  <2>4. g[x] \in Int /\ h[x] \in Int /\ g[a] \in Int /\ h[a] \in Int  BY <2>1
  <2>5. /\ Sums(g)[t] \in Int /\ Sums(h)[t] \in Int
        /\ a \notin t => Sums(h)[t] = Sums(g)[t]
        /\ a \in t => Sums(h)[t] = Sums(g)[t] + h[a] - g[a]
    BY <2>1
  <2>6. CASE x = a
    <3>1. a \in s /\ a \notin t  BY <2>1, <2>6
    <3> QED  BY <2>2, <2>3, <2>4, <2>5, <2>6, <3>1
  <2>7. CASE x # a
    <3>1. (a \in s <=> a \in t) /\ h[x] = g[x]  BY <2>1, <2>7
    <3> QED  BY <2>2, <2>3, <2>4, <2>5, <3>1
  <2> QED  BY <2>6, <2>7
<1> HIDE DEF P
<1>3. SUBSET S \subseteq P  BY <1>1, <1>2, SubsetInduction
<1> QED  BY <1>0, <1>3, SumIsLast DEF P

\* Larger values have the larger sum.
LEMMA SumUpTo ==
  ASSUME NEW S, IsFiniteSet(S), NEW g \in [S -> Int], NEW h \in [S -> Int],
         \A x \in S : g[x] <= h[x]
  PROVE  SumFunction(g) <= SumFunction(h)
<1> DEFINE P == {s \in SUBSET S : /\ Sums(g)[s] \in Int /\ Sums(h)[s] \in Int
                                  /\ Sums(g)[s] <= Sums(h)[s]}
<1>0. DOMAIN g = S /\ DOMAIN h = S  OBVIOUS
<1>1. {} \in P  BY <1>0, SumTurns
<1>2. ASSUME NEW s \in SUBSET S, s # {}, s \ {CHOOSE x \in s : TRUE} \in P PROVE s \in P
  <2> DEFINE x == CHOOSE x \in s : TRUE
             t == s \ {x}
  <2>1. x \in S /\ t \in P  BY <1>2
  <2>2. Sums(g)[s] = g[x] + Sums(g)[t]  BY <1>0, <1>2, SumTurns
  <2>5. Sums(h)[s] = h[x] + Sums(h)[t]  BY <1>0, <1>2, SumTurns
  <2> HIDE DEF x, t
  <2>3. g[x] \in Int /\ h[x] \in Int /\ g[x] <= h[x]  BY <2>1
  <2>4. /\ Sums(g)[t] \in Int /\ Sums(h)[t] \in Int /\ Sums(g)[t] <= Sums(h)[t]
    BY <2>1
  <2> QED  BY <2>2, <2>3, <2>4, <2>5
<1> HIDE DEF P
<1>3. SUBSET S \subseteq P  BY <1>1, <1>2, SubsetInduction
<1> QED  BY <1>0, <1>3, SumIsLast DEF P

\* A sum of equal values is a product.
LEMMA SumOfEqual ==
  ASSUME NEW S, IsFiniteSet(S), NEW v \in Int
  PROVE  SumFunction([x \in S |-> v]) = Cardinality(S) * v
<1> DEFINE g == [x \in S |-> v]
           P == {s \in SUBSET S : Sums(g)[s] = Cardinality(s) * v}
<1>0. DOMAIN g = S  OBVIOUS
<1>1. {} \in P
  <2>1. Cardinality({}) = 0  BY FS_EmptySet
  <2>2. 0 * v = 0  OBVIOUS
  <2> QED  BY <1>0, <2>1, <2>2, SumTurns
<1>2. ASSUME NEW s \in SUBSET S, s # {}, s \ {CHOOSE x \in s : TRUE} \in P PROVE s \in P
  <2> DEFINE x == CHOOSE x \in s : TRUE
             t == s \ {x}
  <2>1. x \in S /\ t \in P  BY <1>2
  <2>2. Sums(g)[s] = g[x] + Sums(g)[t]  BY <1>0, <1>2, SumTurns
  <2>3. Cardinality(s) \in Nat /\ Cardinality(t) = Cardinality(s) - 1  BY <1>2, Smaller
  <2> HIDE DEF x, t
  <2>4. g[x] = v /\ Sums(g)[t] = Cardinality(t) * v  BY <2>1
  <2>5. \A c \in Nat : v + (c - 1) * v = c * v  OBVIOUS
  <2> QED  BY <2>2, <2>3, <2>4, <2>5
<1> HIDE DEF P
<1>3. SUBSET S \subseteq P  BY <1>1, <1>2, SubsetInduction
<1> QED  BY <1>0, <1>3, SumIsLast DEF P

-----------------------------------------------------------------------------
(* The loop over a plan's rows *)

\* The three loops over a plan's rows: a payment's, a reversal's, and the one
\* that leaves the rows with certain ids out.
Paying == <<"pay", {}>>
TakingBack == <<"back", {}>>
LeavingOut(ids) == <<"out", ids>>

Keep(ids, kept, row) == IF row.id \in ids THEN kept ELSE Append(kept, row)

Go(kind, x, y) ==
  IF kind[1] = "pay" THEN Settle(x, y)
  ELSE IF kind[1] = "back" THEN TakeBack(x, y)
  ELSE Keep(kind[2], x, y)

LEMMA GoSays ==
  \A x, y : /\ Go(Paying, x, y) = Settle(x, y)
            /\ Go(TakingBack, x, y) = TakeBack(x, y)
            /\ \A ids : Go(LeavingOut(ids), x, y) = Keep(ids, x, y)
<1> SUFFICES ASSUME NEW x, NEW y, NEW ids
             PROVE  /\ Go(Paying, x, y) = Settle(x, y)
                    /\ Go(TakingBack, x, y) = TakeBack(x, y)
                    /\ Go(LeavingOut(ids), x, y) = Keep(ids, x, y)
  OBVIOUS
<1> DEFINE a == Settle(x, y)
           b == TakeBack(x, y)
           c == Keep(ids, x, y)
<1>1. Go(Paying, x, y) = a  BY DEF Go, Paying
<1>2. Go(TakingBack, x, y) = b  BY DEF Go, TakingBack
<1>3. Go(LeavingOut(ids), x, y) = c  BY DEF Go, LeavingOut
<1> QED  BY <1>1, <1>2, <1>3

Round(kind, start, q, f) ==
  [s \in SUBSET (DOMAIN q) |->
     IF s = {} THEN start ELSE Go(kind, f[s \ {Max(s)}], q[Max(s)])]
Rounds(kind, start, q) == CHOOSE f : f = Round(kind, start, q, f)

\* A loop is the last value of the recursion it is defined by.
LEMMA LoopIsLast ==
  \A start, q : /\ FoldLeft(Settle, start, q) = Rounds(Paying, start, q)[DOMAIN q]
                /\ FoldLeft(TakeBack, start, q) = Rounds(TakingBack, start, q)[DOMAIN q]
<1>1. ASSUME NEW start, NEW q PROVE FoldLeft(Settle, start, q) = Rounds(Paying, start, q)[DOMAIN q]
  <2>1. \A x, y : Go(Paying, x, y) = Settle(x, y)  BY GoSays
  <2>2. \A f : Round(Paying, start, q, f) =
          [s \in SUBSET (DOMAIN q) |->
             IF s = {} THEN start ELSE Settle(f[s \ {Max(s)}], q[Max(s)])]
    BY <2>1 DEF Round
  <2>3. Rounds(Paying, start, q) = CHOOSE f : f =
          [s \in SUBSET (DOMAIN q) |->
             IF s = {} THEN start ELSE Settle(f[s \ {Max(s)}], q[Max(s)])]
    BY <2>2 DEF Rounds
  <2> QED  BY <2>3 DEF FoldLeft, MapThenFoldSet
<1>2. ASSUME NEW start, NEW q PROVE FoldLeft(TakeBack, start, q) = Rounds(TakingBack, start, q)[DOMAIN q]
  <2>1. \A x, y : Go(TakingBack, x, y) = TakeBack(x, y)  BY GoSays
  <2>2. \A f : Round(TakingBack, start, q, f) =
          [s \in SUBSET (DOMAIN q) |->
             IF s = {} THEN start ELSE TakeBack(f[s \ {Max(s)}], q[Max(s)])]
    BY <2>1 DEF Round
  <2>3. Rounds(TakingBack, start, q) = CHOOSE f : f =
          [s \in SUBSET (DOMAIN q) |->
             IF s = {} THEN start ELSE TakeBack(f[s \ {Max(s)}], q[Max(s)])]
    BY <2>2 DEF Rounds
  <2> QED  BY <2>3 DEF FoldLeft, MapThenFoldSet
<1> QED BY <1>1, <1>2

\* A set of places has a last one.
LEMMA GreatestExists ==
  ASSUME NEW m \in Nat, NEW s \in SUBSET (1..m), s # {}
  PROVE  Max(s) \in s /\ \A y \in s : Max(s) >= y
<1> DEFINE P == {k \in Nat : \A t \in SUBSET (1..k) : t # {} => \E x \in t : \A y \in t : x >= y}
<1>1. 0 \in P
  <2>1. \A t \in SUBSET (1..0) : t = {}  OBVIOUS
  <2> QED  BY <2>1
<1>2. ASSUME NEW k \in Nat, k \in P PROVE k + 1 \in P
  <2>1. ASSUME NEW t \in SUBSET (1..(k + 1)), t # {} PROVE \E x \in t : \A y \in t : x >= y
    <3>1. CASE k + 1 \in t  BY <3>1
    <3>2. CASE k + 1 \notin t
      <4>1. t \in SUBSET (1..k)  BY <3>2
      <4> QED  BY <1>2, <2>1, <4>1
    <3> QED  BY <3>1, <3>2
  <2> QED  BY <2>1
<1> HIDE DEF P
<1>3. Nat \subseteq P  BY <1>1, <1>2, NatSetInduction
<1>4. \E x \in s : \A y \in s : x >= y  BY <1>3 DEF P
<1> QED  BY <1>4 DEF Max

\* f is right up to sets of k places.
LoopsTo(kind, start, q, f, k) ==
  \A s \in SUBSET (DOMAIN q) : Cardinality(s) <= k => f[s] = Round(kind, start, q, f)[s]

\* Right up to k places, one turn is right up to k + 1.
LEMMA LoopsOn ==
  ASSUME NEW kind, NEW start, NEW q, NEW m \in Nat, DOMAIN q = 1..m,
         NEW f, NEW k \in Nat, LoopsTo(kind, start, q, f, k)
  PROVE  LoopsTo(kind, start, q, Round(kind, start, q, f), k + 1)
<1> SUFFICES ASSUME NEW s \in SUBSET (DOMAIN q), Cardinality(s) <= k + 1
             PROVE  Round(kind, start, q, f)[s]
                      = Round(kind, start, q, Round(kind, start, q, f))[s]
  BY DEF LoopsTo
<1>1. CASE s = {}  BY <1>1 DEF Round
<1>2. CASE s # {}
  <2> DEFINE x == Max(s)
  <2>1. s \ {x} \in SUBSET (DOMAIN q) /\ Cardinality(s \ {x}) <= k
    <3>1. IsFiniteSet(1..m)  BY FS_Interval
    <3>2. x \in s  BY <1>2, GreatestExists
    <3> HIDE DEF x
    <3> QED  BY <3>1, <3>2, OneLess
  <2>2. f[s \ {x}] = Round(kind, start, q, f)[s \ {x}]  BY <2>1 DEF LoopsTo
  <2>3. \A h : Round(kind, start, q, h)[s] = Go(kind, h[s \ {x}], q[x])  BY <1>2 DEF Round
  <2> QED  BY <2>2, <2>3
<1> QED  BY <1>1, <1>2

\* The recursion has a solution, so a loop is what it says.
LEMMA LoopDefined ==
  ASSUME NEW kind, NEW start, NEW q, NEW m \in Nat, DOMAIN q = 1..m
  PROVE  Rounds(kind, start, q) = Round(kind, start, q, Rounds(kind, start, q))
<1> DEFINE P == {k \in Nat : \E f : LoopsTo(kind, start, q, f, k)}
<1>0. IsFiniteSet(1..m)  BY FS_Interval
<1>1. 0 \in P
  <2> DEFINE f == [s \in SUBSET (DOMAIN q) |-> start]
  <2>1. ASSUME NEW s \in SUBSET (DOMAIN q), Cardinality(s) <= 0
        PROVE  f[s] = Round(kind, start, q, f)[s]
    <3>1. s = {}  BY <1>0, <2>1, SmallIsEmpty
    <3> QED  BY <3>1 DEF Round
  <2>2. LoopsTo(kind, start, q, f, 0)  BY <2>1 DEF LoopsTo
  <2> QED  BY <2>2
<1>2. \A n \in Nat : n \in P => n + 1 \in P  BY LoopsOn
<1>3. Nat \subseteq P
  <2> HIDE DEF P
  <2> QED  BY <1>1, <1>2, NatSetInduction
<1>4. Cardinality(1..m) \in Nat  BY <1>0, FS_CardinalityType
<1>5. PICK f : LoopsTo(kind, start, q, f, Cardinality(1..m))  BY <1>3, <1>4
<1>6. \A s \in SUBSET (DOMAIN q) : f[s] = Round(kind, start, q, f)[s]
  BY <1>0, <1>4, <1>5, FS_Subset DEF LoopsTo
<1> DEFINE h == [s \in SUBSET (DOMAIN q) |-> f[s]]
<1>7. h = Round(kind, start, q, h)
  <2>1. ASSUME NEW s \in SUBSET (DOMAIN q) PROVE h[s] = Round(kind, start, q, h)[s]
    <3>1. CASE s = {}  BY <1>6, <3>1 DEF Round
    <3>2. CASE s # {}
      <4> DEFINE x == Max(s)
      <4>1. s \ {x} \in SUBSET (DOMAIN q)  OBVIOUS
      <4>2. \A z : Round(kind, start, q, z)[s] = Go(kind, z[s \ {x}], q[x])  BY <3>2 DEF Round
      <4>3. h[s \ {x}] = f[s \ {x}]  BY <4>1
      <4> QED  BY <1>6, <4>2, <4>3
    <3> QED  BY <3>1, <3>2
  <2>2. /\ h = [s \in SUBSET (DOMAIN q) |-> h[s]]
        /\ Round(kind, start, q, h) = [s \in SUBSET (DOMAIN q) |-> Round(kind, start, q, h)[s]]
    BY DEF Round
  <2> QED  BY <2>1, <2>2
<1>8. \E z : z = Round(kind, start, q, z)  BY <1>7
<1> QED  BY <1>8 DEF Rounds

\* The loop after its first k turns.
After(kind, start, q, k) == Rounds(kind, start, q)[1..k]

Long(q, m) == DOMAIN q = 1..m

\* The start of a loop, its turns and its end.
LEMMA LoopTurns ==
  ASSUME NEW kind, NEW start, NEW q, NEW m \in Nat, Long(q, m)
  PROVE  /\ After(kind, start, q, 0) = start
         /\ \A k \in 1..m : After(kind, start, q, k) = Go(kind, After(kind, start, q, k - 1), q[k])
         /\ Rounds(kind, start, q)[DOMAIN q] = After(kind, start, q, m)
<1> USE DEF Long
<1> DEFINE R == Rounds(kind, start, q)
<1>1. \A s \in SUBSET (DOMAIN q) : R[s] = Round(kind, start, q, R)[s]  BY LoopDefined
<1> HIDE DEF R
<1>2. R[1..0] = start
  <2>1. 1..0 = {} /\ {} \in SUBSET (DOMAIN q)  OBVIOUS
  <2> QED  BY <1>1, <2>1 DEF Round
<1>3. ASSUME NEW k \in 1..m PROVE R[1..k] = Go(kind, R[1..(k - 1)], q[k])
  <2>1. 1..k \in SUBSET (DOMAIN q) /\ 1..k # {} /\ (1..k) \ {k} = 1..(k - 1)  OBVIOUS
  <2>2. Max(1..k) = k
    <3>1. Max(1..k) \in 1..k /\ \A y \in 1..k : Max(1..k) >= y  BY <2>1, GreatestExists
    <3> QED  BY <3>1
  <2>3. R[1..k] = Go(kind, R[(1..k) \ {Max(1..k)}], q[Max(1..k)])  BY <1>1, <2>1 DEF Round
  <2> QED  BY <2>1, <2>2, <2>3
<1> QED  BY <1>2, <1>3 DEF After, R

\* A loop starts at its start.
LEMMA LoopStarts ==
  ASSUME NEW kind, NEW start, NEW q, NEW m \in Nat, Long(q, m)
  PROVE  After(kind, start, q, 0) = start
BY LoopTurns DEF After

\* A loop goes one place at a time.
LEMMA LoopGoes ==
  ASSUME NEW kind, NEW start, NEW q, NEW m \in Nat, Long(q, m), NEW k \in 1..m
  PROVE  After(kind, start, q, k) = Go(kind, After(kind, start, q, k - 1), q[k])
BY LoopTurns DEF After

-----------------------------------------------------------------------------
(* One row of a payment's loop, and of a reversal's *)

\* The larger of two.
LEMMA MaxOfTwo ==
  ASSUME NEW a \in Int, NEW b \in Int
  PROVE  Max({a, b}) = IF a >= b THEN a ELSE b
<1> DEFINE S == {a, b}
           m == IF a >= b THEN a ELSE b
<1>1. m \in S /\ \A y \in S : m >= y  OBVIOUS
<1>2. \A x \in S : (\A y \in S : x >= y) => x = m  OBVIOUS
<1> HIDE DEF S, m
<1>3. Max(S) = m  BY <1>1, <1>2 DEF Max
<1> QED  BY <1>3 DEF S, m

\* The smaller of two.
LEMMA MinOfTwo ==
  ASSUME NEW a \in Int, NEW b \in Int
  PROVE  Min({a, b}) = IF a <= b THEN a ELSE b
<1> DEFINE S == {a, b}
           m == IF a <= b THEN a ELSE b
<1>1. m \in S /\ \A y \in S : m <= y  OBVIOUS
<1>2. \A x \in S : (\A y \in S : x <= y) => x = m  OBVIOUS
<1> HIDE DEF S, m
<1>3. Min(S) = m  BY <1>1, <1>2 DEF Min
<1> QED  BY <1>3 DEF S, m

\* The smallest of three.
LEMMA MinOfThree ==
  ASSUME NEW a \in Int, NEW b \in Int, NEW c \in Int
  PROVE  /\ Min({a, b, c}) \in {a, b, c} /\ Min({a, b, c}) <= a /\ Min({a, b, c}) <= b
         /\ Min({a, b, c}) <= c
<1> DEFINE S == {a, b, c}
           m == IF a <= b THEN IF a <= c THEN a ELSE c ELSE IF b <= c THEN b ELSE c
<1>1. m \in S /\ \A y \in S : m <= y  OBVIOUS
<1>2. a \in S /\ b \in S /\ c \in S  OBVIOUS
<1> HIDE DEF S, m
<1>3. Min(S) \in S /\ \A y \in S : Min(S) <= y  BY <1>1 DEF Min
<1> QED  BY <1>2, <1>3 DEF S

PlanRow == [due: Nat, paid: Nat, fee: Nat, feePaid: Nat, status: RowStatuses, waived: BOOLEAN]

\* What a row owes in principal and in fees, and when it is settled.
LEMMA WhatIsOwed ==
  ASSUME NEW row \in PlanRow
  PROVE  /\ row.due \in Nat /\ row.paid \in Nat /\ row.fee \in Nat /\ row.feePaid \in Nat
         /\ FeeDue(row) = IF row.fee >= row.feePaid THEN row.fee - row.feePaid ELSE 0
         /\ PrincipalDue(row) = IF row.due >= row.paid THEN row.due - row.paid ELSE 0
         /\ FeeDue(row) \in Nat /\ PrincipalDue(row) \in Nat
         /\ Outstanding(row) = PrincipalDue(row) + FeeDue(row)
         /\ Outstanding(row) \in Nat
         /\ Settled(row) <=> Outstanding(row) = 0
<1>1. row.due \in Nat /\ row.paid \in Nat /\ row.fee \in Nat /\ row.feePaid \in Nat  BY DEF PlanRow
<1>2. FeeDue(row) = IF row.fee >= row.feePaid THEN row.fee - row.feePaid ELSE 0
  BY <1>1, MaxOfTwo DEF FeeDue
<1>3. PrincipalDue(row) = IF row.due >= row.paid THEN row.due - row.paid ELSE 0
  BY <1>1, MaxOfTwo DEF PrincipalDue
<1>4. FeeDue(row) \in Nat /\ PrincipalDue(row) \in Nat  BY <1>1, <1>2, <1>3
<1>5. Settled(row) <=> FeeDue(row) = 0 /\ PrincipalDue(row) = 0  BY <1>1, <1>2, <1>3 DEF Settled
<1> QED  BY <1>1, <1>2, <1>3, <1>4, <1>5 DEF Outstanding

\* What a payment may make of a row.
PaidInto(o, w) ==
  /\ w.due = o.due /\ w.fee = o.fee /\ w.waived = o.waived
  /\ w.paid >= o.paid /\ (w.paid = o.paid \/ w.paid <= w.due)
  /\ w.feePaid >= o.feePaid /\ (w.feePaid = o.feePaid \/ w.feePaid <= w.fee)
  /\ w = o \/ (Outstanding(o) > 0 /\ w.status = IF Settled(w) THEN "PAID" ELSE o.status)

\* What a reversal may.
TakenFrom(o, w) ==
  /\ w.due = o.due /\ w.fee = o.fee /\ w.waived = o.waived
  /\ w.paid <= o.paid /\ w.feePaid <= o.feePaid
  /\ w = o \/ w.status = IF o.status = "PAID" THEN "PENDING" ELSE o.status

\* Paying again is paying.
LEMMA StillPaidInto ==
  ASSUME NEW o \in PlanRow, NEW v \in PlanRow, NEW w \in PlanRow, PaidInto(o, v), PaidInto(v, w)
  PROVE  PaidInto(o, w)
<1>1. CASE w = v  BY <1>1
<1>2. CASE w # v
  <2>1. Outstanding(v) > 0 /\ w.status = IF Settled(w) THEN "PAID" ELSE v.status
    BY <1>2 DEF PaidInto
  <2>2. ~Settled(v)  BY <2>1, WhatIsOwed
  <2>3. Outstanding(o) > 0 /\ v.status = o.status
    <3>1. CASE v = o  BY <2>1, <3>1
    <3>2. CASE v # o  BY <2>2, <3>2 DEF PaidInto
    <3> QED  BY <3>1, <3>2
  <2>4. /\ o.paid \in Nat /\ v.paid \in Nat /\ w.paid \in Nat
        /\ o.feePaid \in Nat /\ v.feePaid \in Nat /\ w.feePaid \in Nat
    BY WhatIsOwed
  <2> QED  BY <2>1, <2>3, <2>4 DEF PaidInto
<1> QED  BY <1>1, <1>2

\* Taking again is taking.
LEMMA StillTakenFrom ==
  ASSUME NEW o \in PlanRow, NEW v \in PlanRow, NEW w \in PlanRow, TakenFrom(o, v), TakenFrom(v, w)
  PROVE  TakenFrom(o, w)
<1>1. /\ o.paid \in Nat /\ v.paid \in Nat /\ w.paid \in Nat
      /\ o.feePaid \in Nat /\ v.feePaid \in Nat /\ w.feePaid \in Nat
  BY WhatIsOwed
<1> QED  BY <1>1 DEF TakenFrom

Spreads(m) == [rows: [1..m -> PlanRow], left: Nat, fees: Nat]

\* What a spread is made of.
LEMMA SpreadParts ==
  ASSUME NEW m \in Nat, NEW sp \in Spreads(m)
  PROVE  sp.rows \in [1..m -> PlanRow] /\ sp.left \in Nat /\ sp.fees \in Nat
BY DEF Spreads

\* The arithmetic of one row paid: the fee first, then principal.
LEMMA PayArithmetic ==
  ASSUME NEW due \in Nat, NEW pd \in Nat, NEW fee \in Nat, NEW feePaid \in Nat, NEW l \in Nat,
         NEW f \in Nat, NEW p \in Nat, NEW a \in Nat, NEW b \in Nat,
         f = IF fee >= feePaid THEN fee - feePaid ELSE 0,
         p = IF due >= pd THEN due - pd ELSE 0,
         a = IF f <= l THEN f ELSE l, b = IF p <= l - a THEN p ELSE l - a
  PROVE  /\ pd + b = pd \/ pd + b <= due
         /\ feePaid + a = feePaid \/ feePaid + a <= fee
         /\ pd + b >= pd /\ feePaid + a >= feePaid
         /\ pd + b \in Nat /\ feePaid + a \in Nat
         /\ l - a - b = 0 \/ (IF fee >= feePaid + a THEN fee - (feePaid + a) ELSE 0) = 0
         /\ l - a - b = 0 \/ (IF due >= pd + b THEN due - (pd + b) ELSE 0) = 0
         /\ l - a - b = l - (pd + b - pd) - (feePaid + a - feePaid)
OBVIOUS

\* One turn of the loop of applyPaymentEffect.
LEMMA OneSettled ==
  ASSUME NEW m \in Nat, NEW sp \in Spreads(m), NEW n \in 1..m
  PROVE  LET t == Settle(sp, n) IN
         /\ t \in Spreads(m)
         /\ \A i \in 1..m : i # n => t.rows[i] = sp.rows[i]
         /\ PaidInto(sp.rows[n], t.rows[n])
         /\ t.left = sp.left - (t.rows[n].paid - sp.rows[n].paid) - (t.rows[n].feePaid - sp.rows[n].feePaid)
         /\ t.fees = sp.fees + (t.rows[n].feePaid - sp.rows[n].feePaid)
         /\ t.left = 0 \/ Outstanding(t.rows[n]) = 0
<1> DEFINE row == sp.rows[n]
           left == sp.left
           fees == sp.fees
           toFee == Min({FeeDue(row), left})
           toPrincipal == Min({PrincipalDue(row), left - toFee})
           more == [row EXCEPT !.paid = @ + toPrincipal, !.feePaid = @ + toFee]
           new == IF Settled(more) THEN [more EXCEPT !.status = "PAID"] ELSE more
           t == Settle(sp, n)
<1>0. row \in PlanRow /\ left \in Nat /\ fees \in Nat /\ sp.rows \in [1..m -> PlanRow]  BY SpreadParts
<1>a. sp.left = left /\ sp.fees = fees  OBVIOUS
<1> HIDE DEF row, left, fees
<1> DEFINE due == row.due
           pd == row.paid
           fee == row.fee
           feePaid == row.feePaid
           f == FeeDue(row)
           p == PrincipalDue(row)
<1>1. /\ f \in Nat /\ p \in Nat /\ Outstanding(row) = p + f
      /\ f = IF fee >= feePaid THEN fee - feePaid ELSE 0
      /\ p = IF due >= pd THEN due - pd ELSE 0
      /\ due \in Nat /\ pd \in Nat /\ fee \in Nat /\ feePaid \in Nat
      /\ Outstanding(row) \in Nat
  BY <1>0, WhatIsOwed
<1>b. toFee = Min({f, left}) /\ toPrincipal = Min({p, left - toFee})  OBVIOUS
<1> HIDE DEF toFee, toPrincipal, f, p, due, pd, fee, feePaid
<1>2. /\ toFee \in Nat /\ toPrincipal \in Nat /\ left - toFee - toPrincipal \in Nat
      /\ toFee = IF f <= left THEN f ELSE left
      /\ toPrincipal = IF p <= left - toFee THEN p ELSE left - toFee
  <2>1. f \in Int /\ left \in Int /\ p \in Int  BY <1>0, <1>1
  <2>2. toFee = IF f <= left THEN f ELSE left  BY <2>1, <1>b, MinOfTwo
  <2> DEFINE c == left - toFee
  <2>3. toFee \in Nat /\ c \in Int /\ c >= 0  BY <2>2, <1>0, <1>1
  <2>4. toPrincipal = Min({p, c})  BY <1>b
  <2> HIDE DEF c
  <2>5. toPrincipal = IF p <= c THEN p ELSE c  BY <2>1, <2>3, <2>4, MinOfTwo
  <2>6. toPrincipal \in Nat /\ c - toPrincipal \in Nat  BY <1>1, <2>3, <2>5
  <2> QED  BY <2>2, <2>3, <2>5, <2>6 DEF c
<1>3. /\ pd + toPrincipal = pd \/ pd + toPrincipal <= due
      /\ feePaid + toFee = feePaid \/ feePaid + toFee <= fee
      /\ pd + toPrincipal >= pd /\ feePaid + toFee >= feePaid
      /\ pd + toPrincipal \in Nat /\ feePaid + toFee \in Nat
      /\ left - toFee - toPrincipal = 0
           \/ (IF fee >= feePaid + toFee THEN fee - (feePaid + toFee) ELSE 0) = 0
      /\ left - toFee - toPrincipal = 0
           \/ (IF due >= pd + toPrincipal THEN due - (pd + toPrincipal) ELSE 0) = 0
      /\ left - toFee - toPrincipal = left - (pd + toPrincipal - pd) - (feePaid + toFee - feePaid)
  BY <1>0, <1>1, <1>2, PayArithmetic
<1>4. CASE left <= 0 \/ Outstanding(row) <= 0
  <2>1. t = sp  BY <1>4 DEF Settle, row, left
  <2>2. PaidInto(row, row)  BY <1>1 DEF PaidInto, pd, feePaid
  <2>3. left = 0 \/ Outstanding(row) = 0  BY <1>0, <1>1, <1>4
  <2>4. /\ left = left - (row.paid - row.paid) - (row.feePaid - row.feePaid)
        /\ fees = fees + (row.feePaid - row.feePaid)
    BY <1>0, <1>1, SMTT(30) DEF pd, feePaid
  <2> QED  BY <2>1, <2>2, <2>3, <2>4 DEF row, left, fees
<1>5. CASE ~(left <= 0 \/ Outstanding(row) <= 0)
  <2>1. t = [rows |-> [sp.rows EXCEPT ![n] = new], left |-> left - toFee - toPrincipal,
             fees |-> fees + toFee]
    BY <1>5 DEF Settle, row, toFee, toPrincipal, left, fees
  <2> DEFINE np == pd + toPrincipal
             nf == feePaid + toFee
  <2>a. more = [row EXCEPT !.paid = np, !.feePaid = nf]  BY <1>0 DEF PlanRow, pd, feePaid
  <2>b. np \in Nat /\ nf \in Nat  BY <1>3
  <2> HIDE DEF np, nf, more
  <2>2. /\ more \in PlanRow /\ more.due = due /\ more.fee = fee /\ more.waived = row.waived
        /\ more.paid = np /\ more.feePaid = nf /\ more.status = row.status
    BY <1>0, <2>a, <2>b DEF PlanRow, due, fee
  <2>3. /\ new \in PlanRow /\ new.due = due /\ new.fee = fee /\ new.waived = row.waived
        /\ new.paid = np /\ new.feePaid = nf
        /\ (Settled(new) <=> Settled(more))
        /\ new.status = IF Settled(more) THEN "PAID" ELSE row.status
    BY <2>2 DEF PlanRow, RowStatuses, Settled
  <2> HIDE DEF new
  <2>4. PaidInto(row, new)
    <3>1. Outstanding(row) > 0  BY <1>1, <1>5
    <3>2. new.paid = row.paid \/ new.paid <= new.due  BY <1>3, <2>3 DEF np, pd
    <3>3. new.feePaid = row.feePaid \/ new.feePaid <= new.fee  BY <1>3, <2>3 DEF nf, feePaid
    <3>4. new.paid >= row.paid /\ new.feePaid >= row.feePaid  BY <1>3, <2>3 DEF np, nf, pd, feePaid
    <3>5. new.due = row.due /\ new.fee = row.fee  BY <2>3 DEF due, fee
    <3> QED  BY <2>3, <3>1, <3>2, <3>3, <3>4, <3>5 DEF PaidInto
  <2>6. left - toFee - toPrincipal = 0 \/ Outstanding(new) = 0
    <3>1. /\ Outstanding(new) = PrincipalDue(new) + FeeDue(new)
          /\ FeeDue(new) = IF fee >= nf THEN fee - nf ELSE 0
          /\ PrincipalDue(new) = IF due >= np THEN due - np ELSE 0
      BY <2>3, WhatIsOwed
    <3>2. left - toFee - toPrincipal = 0 \/ (FeeDue(new) = 0 /\ PrincipalDue(new) = 0)
      BY <1>3, <3>1 DEF np, nf
    <3> QED  BY <3>1, <3>2
  <2>7. [sp.rows EXCEPT ![n] = new] \in [1..m -> PlanRow]  BY <1>0, <2>3
  <2>8. t.rows = [sp.rows EXCEPT ![n] = new] /\ t.left = left - toFee - toPrincipal /\ t.fees = fees + toFee
    BY <2>1
  <2>9. t \in Spreads(m)
    <3>1. fees + toFee \in Nat  BY <1>0, <1>2
    <3> QED  BY <1>2, <2>1, <2>7, <3>1 DEF Spreads
  <2> HIDE DEF t
  <2>10. t.rows[n] = new /\ \A i \in 1..m : i # n => t.rows[i] = sp.rows[i]  BY <1>0, <2>8
  <2>11. /\ t.left = left - (new.paid - row.paid) - (new.feePaid - row.feePaid)
         /\ t.fees = fees + (new.feePaid - row.feePaid)
    <3>1. nf - feePaid = toFee  BY <1>1, <1>2 DEF nf
    <3>2. t.left = left - (np - pd) - (nf - feePaid)
      <4>1. left - toFee - toPrincipal = left - (np - pd) - (nf - feePaid)
        <5>1. np - pd = toPrincipal  BY <1>1, <1>2 DEF np
        <5> QED  BY <1>0, <1>2, <3>1, <5>1
      <4> QED  BY <2>8, <4>1
    <3>3. t.fees = fees + (nf - feePaid)  BY <2>8, <3>1
    <3> QED  BY <2>3, <3>2, <3>3 DEF pd, feePaid
  <2>12. t.left = 0 \/ Outstanding(new) = 0  BY <2>6, <2>8
  <2> QED  BY <1>a, <2>4, <2>9, <2>10, <2>11, <2>12 DEF t, row
<1> QED  BY <1>4, <1>5

\* One turn of the loop of reversePaymentEffect.
LEMMA OneTakenBack ==
  ASSUME NEW m \in Nat, NEW sp \in Spreads(m), NEW n \in 1..m
  PROVE  LET t == TakeBack(sp, n) IN
         /\ t \in Spreads(m)
         /\ \A i \in 1..m : i # n => t.rows[i] = sp.rows[i]
         /\ TakenFrom(sp.rows[n], t.rows[n])
         /\ t.left = sp.left - (sp.rows[n].paid - t.rows[n].paid) - (sp.rows[n].feePaid - t.rows[n].feePaid)
         /\ t.fees = sp.fees - (sp.rows[n].feePaid - t.rows[n].feePaid)
         /\ t.left = 0 \/ t.rows[n].paid = 0
<1> DEFINE row == sp.rows[n]
           left == sp.left
           fees == sp.fees
           feeBack == Min({fees, row.feePaid, left})
           principalBack == Min({row.paid, left - feeBack})
           new == [row EXCEPT !.paid = @ - principalBack, !.feePaid = @ - feeBack,
                              !.status = IF @ = "PAID" THEN "PENDING" ELSE @]
           t == TakeBack(sp, n)
<1>0. row \in PlanRow /\ left \in Nat /\ fees \in Nat /\ sp.rows \in [1..m -> PlanRow]  BY SpreadParts
<1>a. sp.left = left /\ sp.fees = fees  OBVIOUS
<1> HIDE DEF row, left, fees
<1> DEFINE pd == row.paid
           feePaid == row.feePaid
           np == pd - principalBack
           nf == feePaid - feeBack
<1>1. pd \in Nat /\ feePaid \in Nat  BY <1>0, WhatIsOwed
<1>b. feeBack = Min({fees, feePaid, left}) /\ principalBack = Min({pd, left - feeBack})  OBVIOUS
<1>c. new = [row EXCEPT !.paid = np, !.feePaid = nf,
                        !.status = IF row.status = "PAID" THEN "PENDING" ELSE row.status]
  BY <1>0 DEF PlanRow
<1> HIDE DEF feeBack, principalBack, pd, feePaid, new
<1>2. /\ feeBack \in Nat /\ principalBack \in Nat
      /\ left - feeBack - principalBack \in Nat /\ fees - feeBack \in Nat /\ np \in Nat /\ nf \in Nat
      /\ np <= pd /\ nf <= feePaid
      /\ left - feeBack - principalBack = 0 \/ np = 0
      /\ left - feeBack - principalBack = left - (pd - np) - (feePaid - nf)
      /\ fees - feeBack = fees - (feePaid - nf)
      /\ feeBack + principalBack = 0 => feeBack = 0 /\ principalBack = 0
  <2>1. pd \in Int /\ feePaid \in Int /\ left \in Int /\ fees \in Int  BY <1>0, <1>1
  <2>2. feeBack \in {fees, feePaid, left} /\ feeBack <= fees /\ feeBack <= feePaid /\ feeBack <= left
    BY <2>1, <1>b, MinOfThree
  <2> DEFINE c == left - feeBack
  <2>3. /\ feeBack \in Nat /\ c \in Int /\ c >= 0 /\ fees - feeBack \in Nat /\ feePaid - feeBack \in Nat
        /\ feePaid - feeBack <= feePaid /\ feePaid - (feePaid - feeBack) = feeBack
    BY <2>2, <1>0, <1>1
  <2>4. principalBack = Min({pd, c})  BY <1>b
  <2> HIDE DEF c
  <2>5. principalBack = IF pd <= c THEN pd ELSE c  BY <2>1, <2>3, <2>4, MinOfTwo
  <2>6. /\ principalBack \in Nat /\ c - principalBack \in Nat /\ pd - principalBack \in Nat
        /\ pd - principalBack <= pd /\ pd - (pd - principalBack) = principalBack
        /\ (c - principalBack = 0 \/ pd - principalBack = 0)
    BY <1>1, <2>3, <2>5
  <2>7. feeBack + principalBack = 0 => feeBack = 0 /\ principalBack = 0  BY <2>3, <2>6
  <2>8. left - feeBack - principalBack = left - principalBack - feeBack  BY <2>1, <2>3, <2>6
  <2> QED  BY <2>3, <2>6, <2>7, <2>8 DEF c
<1>4. CASE feeBack + principalBack = 0
  <2>1. t = sp  BY <1>4 DEF TakeBack, row, feeBack, principalBack, left, fees
  <2>2. TakenFrom(row, row)  BY <1>1 DEF TakenFrom, pd, feePaid
  <2>3. left = 0 \/ pd = 0  BY <1>0, <1>1, <1>2, <1>4
  <2>4. /\ left = left - (row.paid - row.paid) - (row.feePaid - row.feePaid)
        /\ fees = fees - (row.feePaid - row.feePaid)
    BY <1>0, <1>1 DEF pd, feePaid
  <2> QED  BY <2>1, <2>2, <2>3, <2>4 DEF row, left, fees, pd
<1>5. CASE feeBack + principalBack # 0
  <2>1. t = [rows |-> [sp.rows EXCEPT ![n] = new], left |-> left - feeBack - principalBack,
             fees |-> fees - feeBack]
    BY <1>5 DEF TakeBack, row, feeBack, principalBack, new, left, fees
  <2> HIDE DEF np, nf
  <2>3. /\ new \in PlanRow /\ new.due = row.due /\ new.fee = row.fee /\ new.waived = row.waived
        /\ new.paid = np /\ new.feePaid = nf
        /\ new.status = IF row.status = "PAID" THEN "PENDING" ELSE row.status
    BY <1>0, <1>2, <1>c DEF PlanRow, RowStatuses
  <2>4. TakenFrom(row, new)  BY <1>2, <2>3 DEF TakenFrom, pd, feePaid
  <2>7. [sp.rows EXCEPT ![n] = new] \in [1..m -> PlanRow]  BY <1>0, <2>3
  <2>8. /\ t.rows = [sp.rows EXCEPT ![n] = new] /\ t.left = left - feeBack - principalBack
        /\ t.fees = fees - feeBack
    BY <2>1
  <2>9. t \in Spreads(m)  BY <1>2, <2>1, <2>7 DEF Spreads
  <2> HIDE DEF t
  <2>10. t.rows[n] = new /\ \A i \in 1..m : i # n => t.rows[i] = sp.rows[i]  BY <1>0, <2>8
  <2>11. /\ t.left = left - (row.paid - new.paid) - (row.feePaid - new.feePaid)
         /\ t.fees = fees - (row.feePaid - new.feePaid)
         /\ t.left = 0 \/ new.paid = 0
    BY <1>2, <2>3, <2>8 DEF pd, feePaid
  <2> QED  BY <1>a, <2>4, <2>9, <2>10, <2>11 DEF t, row
<1> QED  BY <1>4, <1>5

-----------------------------------------------------------------------------
(* A payment spread over the rows *)

Paids(rs) == [n \in DOMAIN rs |-> rs[n].paid]
FeePaids(rs) == [n \in DOMAIN rs |-> rs[n].feePaid]

\* The sums of a plan are sums over its rows.
LEMMA SumsOfRows ==
  ASSUME NEW m \in Nat, NEW rs \in [1..m -> PlanRow]
  PROVE  /\ PrincipalPaid(rs) = SumFunction(Paids(rs)) /\ FeesPaid(rs) = SumFunction(FeePaids(rs))
         /\ Paids(rs) \in [1..m -> Int] /\ FeePaids(rs) \in [1..m -> Int]
         /\ \A n \in 1..m : Paids(rs)[n] = rs[n].paid /\ FeePaids(rs)[n] = rs[n].feePaid
         /\ PrincipalPaid(rs) \in Int /\ FeesPaid(rs) \in Int
         /\ IsFiniteSet(1..m)
<1>1. PrincipalPaid(rs) = SumFunction(Paids(rs)) /\ FeesPaid(rs) = SumFunction(FeePaids(rs))
  BY DEF PrincipalPaid, FeesPaid, Sum, Paids, FeePaids
<1>2. \A n \in 1..m : rs[n].paid \in Int /\ rs[n].feePaid \in Int
  BY DEF PlanRow
<1>3. Paids(rs) \in [1..m -> Int] /\ FeePaids(rs) \in [1..m -> Int]
  BY <1>2 DEF Paids, FeePaids
<1>4. IsFiniteSet(1..m)  BY FS_Interval
<1>5. PrincipalPaid(rs) \in Int /\ FeesPaid(rs) \in Int
  BY <1>1, <1>3, <1>4, SumIsInt
<1> QED  BY <1>1, <1>3, <1>4, <1>5 DEF Paids, FeePaids

\* One row changes.
LEMMA OneRowChanges ==
  ASSUME NEW m \in Nat, NEW rs \in [1..m -> PlanRow], NEW new \in [1..m -> PlanRow], NEW n \in 1..m,
         \A i \in 1..m : i # n => new[i] = rs[i]
  PROVE  /\ PrincipalPaid(new) = PrincipalPaid(rs) + new[n].paid - rs[n].paid
         /\ FeesPaid(new) = FeesPaid(rs) + new[n].feePaid - rs[n].feePaid
<1> DEFINE g == Paids(rs)
           h == Paids(new)
           fg == FeePaids(rs)
           fh == FeePaids(new)
<1>1. /\ PrincipalPaid(rs) = SumFunction(g) /\ FeesPaid(rs) = SumFunction(fg)
      /\ g \in [1..m -> Int] /\ fg \in [1..m -> Int] /\ IsFiniteSet(1..m)
      /\ \A i \in 1..m : g[i] = rs[i].paid /\ fg[i] = rs[i].feePaid
  BY SumsOfRows
<1>2. /\ PrincipalPaid(new) = SumFunction(h) /\ FeesPaid(new) = SumFunction(fh)
      /\ h \in [1..m -> Int] /\ fh \in [1..m -> Int]
      /\ \A i \in 1..m : h[i] = new[i].paid /\ fh[i] = new[i].feePaid
  BY SumsOfRows
<1> HIDE DEF g, h, fg, fh
<1>3. \A i \in 1..m : i # n => h[i] = g[i]  BY <1>1, <1>2
<1>6. \A i \in 1..m : i # n => fh[i] = fg[i]  BY <1>1, <1>2
<1> DEFINE S == 1..m
<1>7. g \in [S -> Int] /\ h \in [S -> Int] /\ fg \in [S -> Int] /\ fh \in [S -> Int]
      /\ IsFiniteSet(S) /\ n \in S
  BY <1>1, <1>2
<1>8. SameBut(S, g, h, n) /\ SameBut(S, fg, fh, n)
  BY <1>3, <1>6 DEF SameBut
<1> HIDE DEF S
<1>4. SumFunction(h) = SumFunction(g) + h[n] - g[n]  BY <1>7, <1>8, SumMoves, ZenonT(40)
<1>5. SumFunction(fh) = SumFunction(fg) + fh[n] - fg[n]  BY <1>7, <1>8, SumMoves, ZenonT(40)
<1> QED  BY <1>1, <1>2, <1>4, <1>5

\* The order in which a payment visits the rows names rows only.
LEMMA QueueIsFull ==
  ASSUME NEW m \in Nat, NEW target \in Int
  PROVE  /\ Queue(m, target) \in [1..m -> 1..m] /\ DOMAIN Queue(m, target) = 1..m
         /\ \A i \in 1..m : \E j \in 1..m : Queue(m, target)[j] = i
<1> DEFINE q == Queue(m, target)
<1>1. q \in [1..m -> 1..m]  BY DEF Queue
<1>2. ASSUME NEW i \in 1..m PROVE \E j \in 1..m : q[j] = i
  <2>1. CASE target \notin 1..m \/ i > target
    <3>1. q[i] = i  BY <2>1 DEF Queue
    <3> QED  BY <3>1
  <2>2. CASE target \in 1..m /\ i = target
    <3>1. 1 \in 1..m /\ q[1] = target  BY <2>2 DEF Queue
    <3> QED  BY <2>2, <3>1
  <2>3. CASE target \in 1..m /\ i < target
    <3>1. i + 1 \in 1..m /\ q[i + 1] = i  BY <2>3 DEF Queue
    <3> QED  BY <3>1
  <2> QED  BY <2>1, <2>2, <2>3
<1> QED  BY <1>1, <1>2

\* A plan has as many rows as it has.
LEMMA RowsHaveLength ==
  ASSUME NEW m \in Nat, NEW rs \in [1..m -> PlanRow]
  PROVE  Len(rs) = m
BY LenProperties, SeqDef

Whole(q, m) == q \in [1..m -> 1..m]

PayInv(m, o, money, q, sp, k) ==
  /\ sp \in Spreads(m)
  /\ \A i \in 1..m : PaidInto(o[i], sp.rows[i])
  /\ PrincipalPaid(sp.rows) + FeesPaid(sp.rows) + sp.left = PrincipalPaid(o) + FeesPaid(o) + money
  /\ FeesPaid(sp.rows) = FeesPaid(o) + sp.fees
  /\ sp.left = 0 \/ \A j \in 1..k : Outstanding(sp.rows[q[j]]) = 0

\* What holds at every turn of a payment's loop.
LEMMA PayInvHolds ==
  ASSUME NEW m \in Nat, NEW o \in [1..m -> PlanRow], NEW money \in Nat, NEW q, Whole(q, m)
  PROVE  LET start == [rows |-> o, left |-> money, fees |-> 0] IN
         PayInv(m, o, money, q, After(Paying, start, q, m), m)
<1> DEFINE start == [rows |-> o, left |-> money, fees |-> 0]
           at(k) == After(Paying, start, q, k)
           P == {k \in Nat : k <= m => PayInv(m, o, money, q, at(k), k)}
<1>0. Long(q, m)  BY DEF Long, Whole
<1> HIDE DEF start
<1>1. at(0) = start
  <2>1. After(Paying, start, q, 0) = start  BY <1>0, LoopStarts
  <2> QED  BY <2>1
<1>2. \A k \in 1..m : at(k) = Settle(at(k - 1), q[k])
  <2>1. \A k \in 1..m : After(Paying, start, q, k) = Go(Paying, After(Paying, start, q, k - 1), q[k])
    BY <1>0, LoopGoes
  <2> QED  BY <2>1, GoSays
<1> HIDE DEF at
<1>3. 0 \in P
  <2>1. start \in Spreads(m) /\ start.rows = o /\ start.left = money /\ start.fees = 0
    BY DEF Spreads, start
  <2>2. \A i \in 1..m : PaidInto(o[i], o[i])
    <3> SUFFICES ASSUME NEW i \in 1..m PROVE PaidInto(o[i], o[i])  OBVIOUS
    <3>1. o[i].paid \in Nat /\ o[i].feePaid \in Nat  BY WhatIsOwed
    <3> QED  BY <3>1 DEF PaidInto
  <2>3. PrincipalPaid(o) \in Int /\ FeesPaid(o) \in Int  BY SumsOfRows
  <2>4. 1..0 = {}  OBVIOUS
  <2>5. PayInv(m, o, money, q, start, 0)  BY <2>1, <2>2, <2>3, <2>4 DEF PayInv
  <2> QED  BY <1>1, <2>5
<1>4. ASSUME NEW k \in Nat, k \in P PROVE k + 1 \in P
  <2> SUFFICES ASSUME k + 1 <= m PROVE PayInv(m, o, money, q, at(k + 1), k + 1)  OBVIOUS
  <2> DEFINE sp == at(k)
             t == at(k + 1)
             n == q[k + 1]
  <2>1. PayInv(m, o, money, q, sp, k)  BY <1>4
  <2>2. k + 1 \in 1..m /\ n \in 1..m  BY DEF Whole
  <2>3. t = Settle(sp, n)
    <3>1. k + 1 - 1 = k  OBVIOUS
    <3> QED  BY <1>2, <2>2, <3>1
  <2> HIDE DEF sp, t, n
  <2>4. sp \in Spreads(m)  BY <2>1 DEF PayInv
  <2>5. /\ t \in Spreads(m)
        /\ \A i \in 1..m : i # n => t.rows[i] = sp.rows[i]
        /\ PaidInto(sp.rows[n], t.rows[n])
        /\ t.left = sp.left - (t.rows[n].paid - sp.rows[n].paid) - (t.rows[n].feePaid - sp.rows[n].feePaid)
        /\ t.fees = sp.fees + (t.rows[n].feePaid - sp.rows[n].feePaid)
        /\ t.left = 0 \/ Outstanding(t.rows[n]) = 0
    BY <2>2, <2>3, <2>4, OneSettled
  <2>6. /\ sp.rows \in [1..m -> PlanRow] /\ sp.left \in Nat /\ sp.fees \in Nat
        /\ t.rows \in [1..m -> PlanRow] /\ t.left \in Nat /\ t.fees \in Nat
    BY <2>4, <2>5, SpreadParts
  <2>7. ASSUME NEW i \in 1..m PROVE PaidInto(o[i], t.rows[i])
    <3>1. PaidInto(o[i], sp.rows[i])  BY <2>1 DEF PayInv
    <3>2. CASE i # n  BY <2>5, <3>1, <3>2
    <3>3. CASE i = n
      <4>1. PaidInto(sp.rows[i], t.rows[i])  BY <2>5, <3>3
      <4>2. o[i] \in PlanRow /\ sp.rows[i] \in PlanRow /\ t.rows[i] \in PlanRow  BY <2>6
      <4> QED  BY <3>1, <4>1, <4>2, StillPaidInto
    <3> QED  BY <3>2, <3>3
  <2> DEFINE a == sp.rows
             b == t.rows
             left == sp.left
             newLeft == t.left
             x == b[n].paid - a[n].paid
             y == b[n].feePaid - a[n].feePaid
  <2>8. PrincipalPaid(b) = PrincipalPaid(a) + b[n].paid - a[n].paid
        /\ FeesPaid(b) = FeesPaid(a) + b[n].feePaid - a[n].feePaid
    BY <2>2, <2>5, <2>6, OneRowChanges
  <2>9. a[n].paid \in Nat /\ b[n].paid \in Nat /\ a[n].feePaid \in Nat /\ b[n].feePaid \in Nat
    BY <2>2, <2>6, WhatIsOwed
  <2>10. PrincipalPaid(a) \in Int /\ FeesPaid(a) \in Int /\ PrincipalPaid(o) \in Int /\ FeesPaid(o) \in Int
    BY <2>6, SumsOfRows
  <2>11. x \in Nat /\ y \in Nat  BY <2>5, <2>9 DEF PaidInto
  <2>12. PrincipalPaid(b) = PrincipalPaid(a) + x /\ FeesPaid(b) = FeesPaid(a) + y
    BY <2>8, <2>9, <2>10
  <2>13. newLeft = left - x - y /\ t.fees = sp.fees + y  BY <2>5
  <2>14. /\ PrincipalPaid(a) + FeesPaid(a) + left = PrincipalPaid(o) + FeesPaid(o) + money
         /\ FeesPaid(a) = FeesPaid(o) + sp.fees
         /\ left = 0 \/ \A j \in 1..k : Outstanding(a[q[j]]) = 0
    BY <2>1 DEF PayInv
  <2>15. left \in Nat /\ newLeft \in Nat /\ sp.fees \in Nat  BY <2>6
  <2> HIDE DEF x, y, left, newLeft
  <2>16. newLeft = 0 \/ \A j \in 1..(k + 1) : Outstanding(b[q[j]]) = 0
    <3> SUFFICES ASSUME newLeft # 0, NEW j \in 1..(k + 1) PROVE Outstanding(b[q[j]]) = 0  OBVIOUS
    <3>1. left # 0  BY <2>11, <2>13, <2>15
    <3>2. CASE q[j] = n  BY <2>5, <3>2 DEF newLeft
    <3>3. CASE q[j] # n
      <4>1. j \in 1..k  BY <3>3 DEF n
      <4>2. q[j] \in 1..m  BY <2>2, <4>1 DEF Whole
      <4>3. b[q[j]] = a[q[j]]  BY <2>5, <3>3, <4>2
      <4> QED  BY <2>14, <3>1, <4>1, <4>3
    <3> QED  BY <3>2, <3>3
  <2>17. PrincipalPaid(b) + FeesPaid(b) + newLeft = PrincipalPaid(o) + FeesPaid(o) + money
    <3> DEFINE pa == PrincipalPaid(a)
               fa == FeesPaid(a)
               total == PrincipalPaid(o) + FeesPaid(o) + money
    <3>1. pa \in Int /\ fa \in Int /\ total \in Int /\ pa + fa + left = total  BY <2>10, <2>14
    <3>2. PrincipalPaid(b) = pa + x /\ FeesPaid(b) = fa + y  BY <2>12
    <3> HIDE DEF pa, fa, total
    <3>3. (pa + x) + (fa + y) + (left - x - y) = total  BY <3>1, <2>11, <2>15
    <3> QED  BY <2>13, <3>2, <3>3 DEF total
  <2>18. FeesPaid(b) = FeesPaid(o) + t.fees
    BY <2>10, <2>11, <2>12, <2>13, <2>14, <2>15
  <2> QED  BY <2>5, <2>7, <2>16, <2>17, <2>18 DEF PayInv, newLeft, t
<1>5. Nat \subseteq P
  <2> HIDE DEF P
  <2> QED  BY <1>3, <1>4, NatSetInduction
<1>6. PayInv(m, o, money, q, at(m), m)
  <2>1. m \in P /\ m <= m  BY <1>5
  <2> QED  BY <2>1
<1> QED  BY <1>6 DEF at, start

\* What a payment does to a plan's rows, wherever it is aimed.
LEMMA Allocated ==
  ASSUME NEW m \in Nat, NEW o \in [1..m -> PlanRow], NEW money \in Nat, NEW target \in Int
  PROVE  LET t == Allocate(o, target, money) IN
         /\ t.rows \in [1..m -> PlanRow] /\ t.left \in Nat /\ t.fees \in Nat
         /\ \A i \in 1..m : PaidInto(o[i], t.rows[i])
         /\ PrincipalPaid(t.rows) + FeesPaid(t.rows) + t.left = PrincipalPaid(o) + FeesPaid(o) + money
         /\ FeesPaid(t.rows) = FeesPaid(o) + t.fees
         /\ t.left = 0 \/ \A i \in 1..m : Outstanding(t.rows[i]) = 0
<1> DEFINE start == [rows |-> o, left |-> money, fees |-> 0]
           q == Queue(m, target)
           t == Allocate(o, target, money)
<1>1. q \in [1..m -> 1..m] /\ DOMAIN q = 1..m /\ \A i \in 1..m : \E j \in 1..m : q[j] = i
  BY QueueIsFull
<1>2. t = FoldLeft(Settle, start, q)  BY RowsHaveLength DEF Allocate
<1>3. FoldLeft(Settle, start, q) = Rounds(Paying, start, q)[DOMAIN q]  BY LoopIsLast
<1>4. Rounds(Paying, start, q)[DOMAIN q] = After(Paying, start, q, m)
  <2>1. Long(q, m)  BY <1>1 DEF Long
  <2> HIDE DEF start, q
  <2> QED  BY <2>1, LoopTurns
<1>5. PayInv(m, o, money, q, After(Paying, start, q, m), m)  BY <1>1, PayInvHolds DEF Whole
<1>6. PayInv(m, o, money, q, t, m)  BY <1>2, <1>3, <1>4, <1>5
<1> HIDE DEF t, q
<1>7. t \in Spreads(m)  BY <1>6 DEF PayInv
<1>8. t.left = 0 \/ \A i \in 1..m : Outstanding(t.rows[i]) = 0
  BY <1>1, <1>6 DEF PayInv
<1> QED  BY <1>6, <1>7, <1>8, SpreadParts DEF PayInv, t

-----------------------------------------------------------------------------
(* A reversal taken from them *)

TakeInv(m, o, money, portion, q, sp, k) ==
  /\ sp \in Spreads(m)
  /\ \A i \in 1..m : TakenFrom(o[i], sp.rows[i])
  /\ (PrincipalPaid(o) + FeesPaid(o)) - PrincipalPaid(sp.rows) - FeesPaid(sp.rows) = money - sp.left
  /\ FeesPaid(o) - FeesPaid(sp.rows) = portion - sp.fees
  /\ sp.left = 0 \/ \A j \in 1..k : sp.rows[q[j]].paid = 0

\* What holds at every turn of a reversal's loop.
LEMMA TakeInvHolds ==
  ASSUME NEW m \in Nat, NEW o \in [1..m -> PlanRow], NEW money \in Nat, NEW portion \in Nat,
         NEW q, Whole(q, m)
  PROVE  LET start == [rows |-> o, left |-> money, fees |-> portion] IN
         TakeInv(m, o, money, portion, q, After(TakingBack, start, q, m), m)
<1> DEFINE start == [rows |-> o, left |-> money, fees |-> portion]
           at(k) == After(TakingBack, start, q, k)
           P == {k \in Nat : k <= m => TakeInv(m, o, money, portion, q, at(k), k)}
<1>0. Long(q, m)  BY DEF Long, Whole
<1> HIDE DEF start
<1>1. at(0) = start
  <2>1. After(TakingBack, start, q, 0) = start  BY <1>0, LoopStarts
  <2> QED  BY <2>1
<1>2. \A k \in 1..m : at(k) = TakeBack(at(k - 1), q[k])
  <2>1. \A k \in 1..m : After(TakingBack, start, q, k) = Go(TakingBack, After(TakingBack, start, q, k - 1), q[k])
    BY <1>0, LoopGoes
  <2> QED  BY <2>1, GoSays
<1> HIDE DEF at
<1>3. 0 \in P
  <2>1. start \in Spreads(m) /\ start.rows = o /\ start.left = money /\ start.fees = portion
    BY DEF Spreads, start
  <2>2. \A i \in 1..m : TakenFrom(o[i], o[i])
    <3> SUFFICES ASSUME NEW i \in 1..m PROVE TakenFrom(o[i], o[i])  OBVIOUS
    <3>1. o[i].paid \in Nat /\ o[i].feePaid \in Nat  BY WhatIsOwed
    <3> QED  BY <3>1 DEF TakenFrom
  <2>3. PrincipalPaid(o) \in Int /\ FeesPaid(o) \in Int  BY SumsOfRows
  <2>4. 1..0 = {}  OBVIOUS
  <2>5. TakeInv(m, o, money, portion, q, start, 0)  BY <2>1, <2>2, <2>3, <2>4 DEF TakeInv
  <2> QED  BY <1>1, <2>5
<1>4. ASSUME NEW k \in Nat, k \in P PROVE k + 1 \in P
  <2> SUFFICES ASSUME k + 1 <= m PROVE TakeInv(m, o, money, portion, q, at(k + 1), k + 1)  OBVIOUS
  <2> DEFINE sp == at(k)
             t == at(k + 1)
             n == q[k + 1]
  <2>1. TakeInv(m, o, money, portion, q, sp, k)  BY <1>4
  <2>2. k + 1 \in 1..m /\ n \in 1..m  BY DEF Whole
  <2>3. t = TakeBack(sp, n)
    <3>1. k + 1 - 1 = k  OBVIOUS
    <3> QED  BY <1>2, <2>2, <3>1
  <2> HIDE DEF sp, t, n
  <2>4. sp \in Spreads(m)  BY <2>1 DEF TakeInv
  <2>5. /\ t \in Spreads(m)
        /\ \A i \in 1..m : i # n => t.rows[i] = sp.rows[i]
        /\ TakenFrom(sp.rows[n], t.rows[n])
        /\ t.left = sp.left - (sp.rows[n].paid - t.rows[n].paid) - (sp.rows[n].feePaid - t.rows[n].feePaid)
        /\ t.fees = sp.fees - (sp.rows[n].feePaid - t.rows[n].feePaid)
        /\ t.left = 0 \/ t.rows[n].paid = 0
    BY <2>2, <2>3, <2>4, OneTakenBack
  <2>6. /\ sp.rows \in [1..m -> PlanRow] /\ sp.left \in Nat /\ sp.fees \in Nat
        /\ t.rows \in [1..m -> PlanRow] /\ t.left \in Nat /\ t.fees \in Nat
    BY <2>4, <2>5, SpreadParts
  <2>7. ASSUME NEW i \in 1..m PROVE TakenFrom(o[i], t.rows[i])
    <3>1. TakenFrom(o[i], sp.rows[i])  BY <2>1 DEF TakeInv
    <3>2. CASE i # n  BY <2>5, <3>1, <3>2
    <3>3. CASE i = n
      <4>1. TakenFrom(sp.rows[i], t.rows[i])  BY <2>5, <3>3
      <4>2. o[i] \in PlanRow /\ sp.rows[i] \in PlanRow /\ t.rows[i] \in PlanRow  BY <2>6
      <4> QED  BY <3>1, <4>1, <4>2, StillTakenFrom
    <3> QED  BY <3>2, <3>3
  <2> DEFINE a == sp.rows
             b == t.rows
             left == sp.left
             newLeft == t.left
             x == a[n].paid - b[n].paid
             y == a[n].feePaid - b[n].feePaid
  <2>8. PrincipalPaid(b) = PrincipalPaid(a) + b[n].paid - a[n].paid
        /\ FeesPaid(b) = FeesPaid(a) + b[n].feePaid - a[n].feePaid
    BY <2>2, <2>5, <2>6, OneRowChanges
  <2>9. a[n].paid \in Nat /\ b[n].paid \in Nat /\ a[n].feePaid \in Nat /\ b[n].feePaid \in Nat
    BY <2>2, <2>6, WhatIsOwed
  <2>10. PrincipalPaid(a) \in Int /\ FeesPaid(a) \in Int /\ PrincipalPaid(o) \in Int /\ FeesPaid(o) \in Int
    BY <2>6, SumsOfRows
  <2>11. x \in Nat /\ y \in Nat  BY <2>5, <2>9, SMTT(20) DEF TakenFrom
  <2>12. PrincipalPaid(b) = PrincipalPaid(a) - x /\ FeesPaid(b) = FeesPaid(a) - y
    BY <2>8, <2>9, <2>10, SMTT(30)
  <2>13. newLeft = left - x - y /\ t.fees = sp.fees - y  BY <2>5
  <2>14. /\ (PrincipalPaid(o) + FeesPaid(o)) - PrincipalPaid(a) - FeesPaid(a) = money - left
         /\ FeesPaid(o) - FeesPaid(a) = portion - sp.fees
         /\ left = 0 \/ \A j \in 1..k : a[q[j]].paid = 0
    BY <2>1 DEF TakeInv
  <2>15. left \in Nat /\ newLeft \in Nat /\ sp.fees \in Nat  BY <2>6
  <2> HIDE DEF x, y, left, newLeft
  <2>16. newLeft = 0 \/ \A j \in 1..(k + 1) : b[q[j]].paid = 0
    <3> SUFFICES ASSUME newLeft # 0, NEW j \in 1..(k + 1) PROVE b[q[j]].paid = 0  OBVIOUS
    <3>1. left # 0  BY <2>11, <2>13, <2>15
    <3>2. CASE q[j] = n  BY <2>5, <3>2 DEF newLeft
    <3>3. CASE q[j] # n
      <4>1. j \in 1..k  BY <3>3 DEF n
      <4>2. q[j] \in 1..m  BY <2>2, <4>1 DEF Whole
      <4>3. b[q[j]] = a[q[j]]  BY <2>5, <3>3, <4>2
      <4> QED  BY <2>14, <3>1, <4>1, <4>3
    <3> QED  BY <3>2, <3>3
  <2>17. (PrincipalPaid(o) + FeesPaid(o)) - PrincipalPaid(b) - FeesPaid(b) = money - newLeft
    <3> DEFINE pa == PrincipalPaid(a)
               fa == FeesPaid(a)
               total == PrincipalPaid(o) + FeesPaid(o)
    <3>1. pa \in Int /\ fa \in Int /\ total \in Int /\ total - pa - fa = money - left  BY <2>10, <2>14
    <3>2. PrincipalPaid(b) = pa - x /\ FeesPaid(b) = fa - y  BY <2>12
    <3> HIDE DEF pa, fa, total
    <3>3. total - (pa - x) - (fa - y) = money - (left - x - y)  BY <3>1, <2>11, <2>15
    <3>4. total - PrincipalPaid(b) - FeesPaid(b) = money - newLeft  BY <2>13, <3>2, <3>3
    <3>5. total = PrincipalPaid(o) + FeesPaid(o)  BY DEF total
    <3> QED  BY <3>4, <3>5
  <2>18. FeesPaid(o) - FeesPaid(b) = portion - t.fees
    <3> DEFINE fa == FeesPaid(a)
               fo == FeesPaid(o)
               s == sp.fees
    <3>1. fa \in Int /\ fo \in Int /\ s \in Nat /\ fo - fa = portion - s  BY <2>10, <2>14, <2>15
    <3>2. FeesPaid(b) = fa - y /\ t.fees = s - y  BY <2>12, <2>13
    <3> HIDE DEF fa, fo, s
    <3>3. fo - (fa - y) = portion - (s - y)  BY <3>1, <2>11
    <3>4. fo - FeesPaid(b) = portion - t.fees  BY <3>2, <3>3
    <3> QED  BY <3>4 DEF fo
  <2> QED  BY <2>5, <2>7, <2>16, <2>17, <2>18 DEF TakeInv, newLeft, t
<1>5. Nat \subseteq P
  <2> HIDE DEF P
  <2> QED  BY <1>3, <1>4, NatSetInduction
<1>6. TakeInv(m, o, money, portion, q, at(m), m)
  <2>1. m \in P /\ m <= m  BY <1>5
  <2> QED  BY <2>1
<1> QED  BY <1>6 DEF at, start

\* What a reversal does to them.
LEMMA ClawedBack ==
  ASSUME NEW m \in Nat, NEW o \in [1..m -> PlanRow], NEW money \in Nat, NEW portion \in Nat
  PROVE  LET t == ClawBack(o, money, portion) IN
         /\ t.rows \in [1..m -> PlanRow] /\ t.left \in Nat /\ t.fees \in Nat
         /\ \A i \in 1..m : TakenFrom(o[i], t.rows[i])
         /\ (PrincipalPaid(o) + FeesPaid(o)) - PrincipalPaid(t.rows) - FeesPaid(t.rows) = money - t.left
         /\ FeesPaid(o) - FeesPaid(t.rows) = portion - t.fees
         /\ t.left = 0 \/ \A i \in 1..m : t.rows[i].paid = 0
<1> DEFINE start == [rows |-> o, left |-> money, fees |-> portion]
           q == Reverse([n \in 1..Len(o) |-> n])
           t == ClawBack(o, money, portion)
<1>1. q \in [1..m -> 1..m] /\ \A i \in 1..m : \E j \in 1..m : q[j] = i
  <2> DEFINE s == [n \in 1..m |-> n]
  <2>1. Len(o) = m  BY RowsHaveLength
  <2>2. Len(s) = m  BY LenProperties, SeqDef
  <2>3. q = [i \in 1..m |-> s[(m - i) + 1]]  BY <2>1, <2>2 DEF Reverse
  <2>4. \A i \in 1..m : (m - i) + 1 \in 1..m  OBVIOUS
  <2>5. q = [i \in 1..m |-> (m - i) + 1]  BY <2>3, <2>4
  <2>6. \A i \in 1..m : q[(m - i) + 1] = i  BY <2>4, <2>5
  <2>7. q \in [1..m -> 1..m]  BY <2>4, <2>5
  <2> HIDE DEF q
  <2>8. \A i \in 1..m : \E j \in 1..m : q[j] = i
    <3> TAKE i \in 1..m
    <3>1. (m - i) + 1 \in 1..m  BY <2>4
    <3> WITNESS (m - i) + 1 \in 1..m
    <3> QED  BY <2>6
  <2> QED  BY <2>7, <2>8
<1>2. t = FoldLeft(TakeBack, start, q)  BY DEF ClawBack
<1>3. FoldLeft(TakeBack, start, q) = Rounds(TakingBack, start, q)[DOMAIN q]  BY LoopIsLast
<1>4. Rounds(TakingBack, start, q)[DOMAIN q] = After(TakingBack, start, q, m)
  <2>1. Long(q, m)  BY <1>1 DEF Long
  <2> HIDE DEF start, q
  <2> QED  BY <2>1, LoopTurns
<1>5. TakeInv(m, o, money, portion, q, After(TakingBack, start, q, m), m)
  <2>1. Whole(q, m)  BY <1>1 DEF Whole
  <2> HIDE DEF q
  <2> QED  BY <2>1, TakeInvHolds
<1>6. TakeInv(m, o, money, portion, q, t, m)  BY <1>2, <1>3, <1>4, <1>5
<1> HIDE DEF t, q
<1>7. t \in Spreads(m)  BY <1>6 DEF TakeInv
<1>8. t.left = 0 \/ \A i \in 1..m : t.rows[i].paid = 0
  BY <1>1, <1>6 DEF TakeInv
<1> QED  BY <1>6, <1>7, <1>8, SpreadParts DEF TakeInv, t

-----------------------------------------------------------------------------
(* PlanLedger: types *)

SoundRow == [due: {Due}, paid: 0..Due, fee: 0..Cap, feePaid: 0..Cap, status: RowStatuses, waived: BOOLEAN]

Plans == [Rows -> SoundRow]

PaymentRecords ==
  [status: {"NONE", "PENDING", "VERIFIED", "FAILED", "REFUNDED"}, reversed: BOOLEAN,
   amount: Amounts \cup {0}, target: 0..N, fee: Nat]

Requests ==
  [pc: {"free", "unlock", "clear"}]
    \cup [pc: {"found"}, payment: Payments]
    \cup [pc: {"waive"}, row: Rows, feePaid: 0..Cap]
    \cup [pc: {"apply", "reverse"}, payment: Payments, rows: Plans, credit: Nat, new: PaymentRecords]

Computing(j) == j.pc \in {"apply", "reverse"}

Nightly ==
  [pc: {"read", "charge", "mark", "plan", "enforce"}, day: 0..LastDay, rows: Plans, device: Record!Statuses,
   autoLock: BOOLEAN, row: 1..(N + 1), affected: BOOLEAN]

PlanStatuses == {"CURRENT", "OVERDUE", "COMPLETED"}

Devices == {"ACTIVE", "OVERDUE", "LOCKED", "INACTIVE"}

Typed ==
  /\ today \in 0..LastDay
  /\ rows \in Plans
  /\ plan \in [status: PlanStatuses, credit: Nat, fees: Nat]
  /\ payment \in [Payments -> PaymentRecords]
  /\ device \in Devices
  /\ teller \in [Tellers -> Requests]
  /\ engine \in {Asleep} \cup Nightly
  /\ engine.pc \in {"mark", "plan", "enforce"} => engine.row \in Rows

\* The constants, as the assumptions give them.
LEMMA Parameters ==
  /\ N \in Nat /\ N > 0 /\ Due \in Nat /\ Due > 0 /\ Amounts \subseteq Nat /\ Targets \subseteq 0..N
  /\ Rate \in Nat /\ Cap \in Nat /\ Grace \in Nat /\ Warn \in Nat /\ LastDay \in Nat
  /\ IsFiniteSet(Payments)
  /\ Rows = 1..N
BY AmountsAssumption, TargetsAssumption, PolicyAssumption, PaymentsAssumption DEF Rows

\* What a request is made of.
LEMMA JobParts ==
  ASSUME NEW j \in Requests
  PROVE  /\ j.pc \in {"free", "unlock", "clear", "found", "waive", "apply", "reverse"}
         /\ j.pc \in {"free", "unlock", "clear"} => j = [pc |-> j.pc]
         /\ j.pc = "free" <=> j = Free
         /\ j.pc = "found" => j.payment \in Payments
         /\ j.pc = "waive" => j.row \in Rows /\ j.feePaid \in 0..Cap
         /\ Computing(j) => /\ j.payment \in Payments /\ j.rows \in Plans /\ j.credit \in Nat
                            /\ j.new \in PaymentRecords
<1>1. CASE j \in [pc: {"free", "unlock", "clear"}]
  BY <1>1 DEF Computing, Free
<1>2. CASE j \in [pc: {"found"}, payment: Payments]
  BY <1>2 DEF Computing, Free
<1>3. CASE j \in [pc: {"waive"}, row: Rows, feePaid: 0..Cap]
  BY <1>3 DEF Computing, Free
<1>4. CASE j \in [pc: {"apply", "reverse"}, payment: Payments, rows: Plans, credit: Nat, new: PaymentRecords]
  BY <1>4 DEF Computing, Free
<1> QED  BY <1>1, <1>2, <1>3, <1>4 DEF Requests

\* What a nightly run is made of.
LEMMA RunParts ==
  ASSUME NEW e \in {Asleep} \cup Nightly
  PROVE  /\ e.pc = "asleep" <=> e = Asleep
         /\ e.pc \in {"asleep", "read", "charge", "mark", "plan", "enforce"}
         /\ e # Asleep =>
              /\ e \in Nightly
              /\ e.day \in 0..LastDay /\ e.rows \in Plans /\ e.device \in Record!Statuses
              /\ e.autoLock \in BOOLEAN /\ e.row \in 1..(N + 1) /\ e.affected \in BOOLEAN
BY DEF Asleep, Nightly

\* What a row is made of.
LEMMA RowParts ==
  ASSUME NEW r \in SoundRow
  PROVE  /\ r \in PlanRow
         /\ r.due = Due /\ r.paid \in 0..Due /\ r.fee \in 0..Cap /\ r.feePaid \in 0..Cap
         /\ r.status \in RowStatuses /\ r.waived \in BOOLEAN
BY Parameters DEF SoundRow, PlanRow

\* A plan is its rows.
LEMMA PlansAreRows ==
  ASSUME NEW rs \in Plans
  PROVE  rs \in [1..N -> PlanRow] /\ DOMAIN rs = Rows
BY RowParts, Parameters DEF Plans

\* What a payment's record is made of.
LEMMA PaymentParts ==
  ASSUME NEW x \in PaymentRecords
  PROVE  /\ x.status \in {"NONE", "PENDING", "VERIFIED", "FAILED", "REFUNDED"}
         /\ x.reversed \in BOOLEAN
         /\ x.amount \in Amounts \cup {0} /\ x.amount \in Nat
         /\ x.target \in 0..N /\ x.target \in Int /\ x.fee \in Nat
<1>1. Amounts \cup {0} \subseteq Nat /\ 0..N \subseteq Int  BY Parameters
<1>2. x.amount \in Amounts \cup {0} /\ x.target \in 0..N  BY DEF PaymentRecords
<1>3. x.fee \in Nat /\ x.reversed \in BOOLEAN  BY DEF PaymentRecords
<1>4. x.status \in {"NONE", "PENDING", "VERIFIED", "FAILED", "REFUNDED"}  BY DEF PaymentRecords
<1>5. x.amount \in Nat  BY <1>1, <1>2
<1>6. x.target \in Int  BY <1>1, <1>2
<1> QED  BY <1>2, <1>3, <1>4, <1>5, <1>6

\* What the status of a plan says of its rows.
LEMMA StatusSays ==
  ASSUME NEW rs \in Plans
  PROVE  /\ PlanStatus(rs) \in PlanStatuses
         /\ PlanStatus(rs) = "COMPLETED" <=> \A n \in Rows : rs[n].status = "PAID"
         /\ PlanStatus(rs) = "OVERDUE" <=> \E n \in Rows : rs[n].status = "OVERDUE"
<1> DEFINE statuses == {rs[n].status : n \in DOMAIN rs}
<1>1. DOMAIN rs = Rows /\ 1 \in Rows  BY PlansAreRows, Parameters
<1>2. statuses = {"PAID"} <=> \A n \in Rows : rs[n].status = "PAID"
  <2>1. ASSUME statuses = {"PAID"}, NEW n \in Rows PROVE rs[n].status = "PAID"
    <3>1. rs[n].status \in statuses  BY <1>1
    <3> QED  BY <2>1, <3>1
  <2>2. ASSUME \A n \in Rows : rs[n].status = "PAID" PROVE statuses = {"PAID"}
    <3>1. rs[1].status \in statuses  BY <1>1
    <3>2. \A s \in statuses : s = "PAID"  BY <1>1, <2>2
    <3> QED  BY <1>1, <2>2, <3>1, <3>2
  <2> QED  BY <2>1, <2>2
<1>3. "OVERDUE" \in statuses <=> \E n \in Rows : rs[n].status = "OVERDUE"  BY <1>1
<1>4. PlanStatus(rs) = IF statuses = {"PAID"} THEN "COMPLETED"
                       ELSE IF "OVERDUE" \in statuses THEN "OVERDUE" ELSE "CURRENT"
  BY DEF PlanStatus
<1>5. "OVERDUE" \in statuses => statuses # {"PAID"}  OBVIOUS
<1> HIDE DEF statuses
<1> QED  BY <1>2, <1>3, <1>4, <1>5 DEF PlanStatuses

\* What the fees of a plan are.
LEMMA FeesSay ==
  ASSUME NEW rs \in Plans
  PROVE  OutstandingFees(rs) \in Nat
<1> DEFINE g == [n \in 1..N |-> FeeDue(rs[n])]
<1>1. OutstandingFees(rs) = SumFunction(g)
  BY PlansAreRows, Parameters DEF OutstandingFees, Sum
<1>2. \A n \in 1..N : FeeDue(rs[n]) \in Nat  BY PlansAreRows, WhatIsOwed
<1>3. g \in [1..N -> Nat]  BY <1>2
<1>4. IsFiniteSet(1..N)
  <2>1. 1 \in Int /\ N \in Int  BY Parameters
  <2> QED  BY <2>1, FS_Interval
<1> HIDE DEF g
<1> QED  BY <1>1, <1>3, <1>4, SumIsNat

\* The most a row may carry in late fees on a day.
FeeOf(n, day) == Max({0, Min({Rate * DaysLate(n, day), Cap})})

\* The late fee of a row is the larger the later it is.
LEMMA FeeGrows ==
  ASSUME NEW n \in Rows, NEW day \in Nat
  PROVE  /\ DaysLate(n, day) \in Int
         /\ FeeOf(n, day) \in 0..Cap
         /\ FeeOf(n, day) = IF DaysLate(n, day) <= 0 THEN 0
                            ELSE IF Rate * DaysLate(n, day) <= Cap THEN Rate * DaysLate(n, day) ELSE Cap
<1> DEFINE d == DaysLate(n, day)
           x == Rate * d
           y == Min({x, Cap})
<1>1. d \in Int /\ x \in Int /\ Cap \in Int /\ Cap >= 0 /\ (d <= 0 => x <= 0) /\ (d > 0 => x >= 0)
  BY Parameters DEF DaysLate
<1>2. FeeOf(n, day) = Max({0, y})  BY DEF FeeOf
<1> HIDE DEF d, x
<1>3. y = IF x <= Cap THEN x ELSE Cap  BY <1>1, MinOfTwo
<1> HIDE DEF y
<1>4. y \in Int  BY <1>1, <1>3
<1>5. FeeOf(n, day) = IF 0 >= y THEN 0 ELSE y  BY <1>2, <1>4, MaxOfTwo
<1> QED  BY <1>1, <1>3, <1>5 DEF d, x

\* The fee of a later day is no smaller.
LEMMA FeeNeverFalls ==
  ASSUME NEW n \in Rows, NEW day \in Nat, NEW later \in Nat, day <= later
  PROVE  FeeOf(n, day) <= FeeOf(n, later)
<1> DEFINE d == DaysLate(n, day)
           e == DaysLate(n, later)
<1>1. d \in Int /\ e \in Int /\ d <= e  BY Parameters DEF DaysLate
<1>2. FeeOf(n, day) = IF d <= 0 THEN 0 ELSE IF Rate * d <= Cap THEN Rate * d ELSE Cap  BY FeeGrows
<1>3. FeeOf(n, later) = IF e <= 0 THEN 0 ELSE IF Rate * e <= Cap THEN Rate * e ELSE Cap  BY FeeGrows
<1> HIDE DEF d, e
<1>4. Rate * d <= Rate * e /\ Rate * d \in Int /\ Rate * e \in Int  BY <1>1, Parameters
<1>5. e > 0 => Rate * e >= 0  BY <1>1, Parameters
<1>6. Cap \in Nat  BY Parameters
<1> QED  BY <1>1, <1>2, <1>3, <1>4, <1>5, <1>6

\* What calculateLateFee returns: no more than the cap, nothing for a row that is paid.
LEMMA LateFeeIsDue ==
  ASSUME NEW r \in SoundRow, NEW n \in Rows, NEW day \in Nat
  PROVE  /\ LateFee(r, DaysLate(n, day), Rate, Cap) \in 0..Cap
         /\ LateFee(r, DaysLate(n, day), Rate, Cap) <= FeeOf(n, day)
         /\ r.paid >= r.due => LateFee(r, DaysLate(n, day), Rate, Cap) = 0
<1> DEFINE d == DaysLate(n, day)
           x == Rate * d
<1>1. d \in Int /\ x \in Int /\ Cap \in Int /\ Cap \in Nat  BY Parameters DEF DaysLate
<1>2. FeeOf(n, day) \in 0..Cap /\ FeeOf(n, day) = IF d <= 0 THEN 0 ELSE IF x <= Cap THEN x ELSE Cap
  BY FeeGrows
<1>3. LateFee(r, d, Rate, Cap) = IF r.waived \/ r.paid >= r.due \/ d <= 0 THEN 0 ELSE Min({x, Cap})
  BY DEF LateFee
<1> HIDE DEF d, x
<1>4. Min({x, Cap}) = IF x <= Cap THEN x ELSE Cap  BY <1>1, MinOfTwo
<1>5. CASE r.waived \/ r.paid >= r.due \/ d <= 0
  BY <1>1, <1>2, <1>3, <1>5 DEF d
<1>6. CASE ~(r.waived \/ r.paid >= r.due \/ d <= 0)
  <2>1. LateFee(r, d, Rate, Cap) = FeeOf(n, day)  BY <1>1, <1>2, <1>3, <1>4, <1>6
  <2> QED  BY <1>1, <1>2, <1>6, <2>1 DEF d
<1> QED  BY <1>5, <1>6

\* The rows a payment writes are rows.
LEMMA RowAfterPayment ==
  ASSUME NEW seen \in Plans, NEW new \in [1..N -> PlanRow],
         \A n \in Rows : PaidInto(seen[n], new[n]), rows \in Plans
  PROVE  /\ Written(seen, new) \in Plans
         /\ \A n \in Rows : new[n].paid \in 0..Due /\ new[n].feePaid \in 0..Cap
                              /\ new[n].due = Due
<1>1. ASSUME NEW n \in Rows PROVE new[n].paid \in 0..Due /\ new[n].feePaid \in 0..Cap /\ new[n].due = Due
  <2>1. seen[n] \in SoundRow /\ new[n] \in PlanRow  BY Parameters DEF Plans
  <2>2. new[n].paid \in Nat /\ new[n].feePaid \in Nat  BY <2>1, WhatIsOwed
  <2>3. seen[n].due = Due /\ seen[n].paid \in 0..Due /\ seen[n].fee \in 0..Cap /\ seen[n].feePaid \in 0..Cap
    BY <2>1, RowParts
  <2>4. PaidInto(seen[n], new[n])  OBVIOUS
  <2> QED  BY <2>2, <2>3, <2>4, Parameters DEF PaidInto
<1>2. ASSUME NEW n \in Rows
      PROVE  Written(seen, new)[n] \in SoundRow
  <2> DEFINE r == rows[n]
             pd == new[n].paid
             fp == new[n].feePaid
             st == IF Settled(new[n]) THEN "PAID" ELSE r.status
             w == [r EXCEPT !.paid = pd, !.feePaid = fp, !.status = st]
  <2>1. r \in SoundRow  BY DEF Plans
  <2>2. pd \in 0..Due /\ fp \in 0..Cap  BY <1>1
  <2>3. st \in RowStatuses  BY <2>1, RowParts DEF RowStatuses
  <2>4. Written(seen, new)[n] = IF new[n] = seen[n] THEN r ELSE w
    <3>1. w = [r EXCEPT !.paid = pd, !.feePaid = fp, !.status = IF Settled(new[n]) THEN "PAID" ELSE @]
      BY <2>1 DEF SoundRow
    <3> QED  BY <3>1 DEF Written
  <2> HIDE DEF r, pd, fp, st
  <2>5. w \in SoundRow  BY <2>1, <2>2, <2>3 DEF SoundRow
  <2> QED  BY <2>1, <2>4, <2>5
<1> QED  BY <1>1, <1>2 DEF Plans, Written

\* The rows a reversal writes are rows.
LEMMA RowAfterReversal ==
  ASSUME NEW seen \in Plans, NEW new \in [1..N -> PlanRow],
         \A n \in Rows : TakenFrom(seen[n], new[n]), rows \in Plans
  PROVE  /\ TakenBack(seen, new) \in Plans
         /\ \A n \in Rows : new[n].paid \in 0..Due /\ new[n].feePaid \in 0..Cap
<1>1. ASSUME NEW n \in Rows PROVE new[n].paid \in 0..Due /\ new[n].feePaid \in 0..Cap
  <2>1. seen[n] \in SoundRow /\ new[n] \in PlanRow  BY Parameters DEF Plans
  <2>2. new[n].paid \in Nat /\ new[n].feePaid \in Nat  BY <2>1, WhatIsOwed
  <2>3. seen[n].paid \in 0..Due /\ seen[n].feePaid \in 0..Cap
    BY <2>1, RowParts
  <2>4. TakenFrom(seen[n], new[n])  OBVIOUS
  <2> QED  BY <2>2, <2>3, <2>4, Parameters DEF TakenFrom
<1>2. ASSUME NEW n \in Rows
      PROVE  TakenBack(seen, new)[n] \in SoundRow
  <2> DEFINE r == rows[n]
             pd == new[n].paid
             fp == new[n].feePaid
             st == new[n].status
             w == [r EXCEPT !.paid = pd, !.feePaid = fp, !.status = st]
  <2>1. r \in SoundRow  BY DEF Plans
  <2>2. pd \in 0..Due /\ fp \in 0..Cap  BY <1>1
  <2>3. st \in RowStatuses
    <3>1. new[n] \in PlanRow  BY Parameters
    <3> QED  BY <3>1 DEF PlanRow
  <2>4. TakenBack(seen, new)[n] = IF new[n] = seen[n] THEN r ELSE w
    BY DEF TakenBack
  <2> HIDE DEF r, pd, fp, st
  <2>5. w \in SoundRow  BY <2>1, <2>2, <2>3 DEF SoundRow
  <2> QED  BY <2>1, <2>4, <2>5
<1> QED  BY <1>1, <1>2 DEF Plans, TakenBack

\* One column of one row changes.
LEMMA FeeWritten ==
  ASSUME NEW rs \in Plans, NEW n \in Rows, NEW v \in 0..Cap
  PROVE  [rs EXCEPT ![n].fee = v] \in Plans
<1>1. [rs[n] EXCEPT !.fee = v] \in SoundRow  BY DEF Plans, SoundRow
<1> QED  BY <1>1 DEF Plans

\* A status written to one row.
LEMMA StatusWritten ==
  ASSUME NEW rs \in Plans, NEW n \in Rows, NEW v \in RowStatuses
  PROVE  [rs EXCEPT ![n].status = v] \in Plans
<1>1. [rs[n] EXCEPT !.status = v] \in SoundRow  BY DEF Plans, SoundRow
<1> QED  BY <1>1 DEF Plans

\* A fee waived on one row.
LEMMA FeeWaived ==
  ASSUME NEW rs \in Plans, NEW n \in Rows, NEW v \in 0..Cap
  PROVE  [rs EXCEPT ![n].fee = v, ![n].waived = TRUE] \in Plans
<1>1. [[rs[n] EXCEPT !.fee = v] EXCEPT !.waived = TRUE] \in SoundRow  BY DEF Plans, SoundRow
<1> QED  BY <1>1 DEF Plans

\* The spread of a payment: applyPaymentEffect before its writes.
Spread(j) == Allocate(j.rows, j.new.target, Spendable(j.new.amount, j.credit))

\* The rows and what is left after a reversal has taken what it can.
Undone(j) == ClawBack(j.rows, StillToTake(j.new.amount, Min({j.credit, j.new.amount})), j.new.fee)

\* What a request that records or verifies a payment is about to write.
LEMMA PaymentSpreads ==
  ASSUME NEW j \in Requests, Computing(j)
  PROVE  /\ Spread(j).rows \in [1..N -> PlanRow] /\ Spread(j).left \in Nat /\ Spread(j).fees \in Nat
         /\ \A n \in Rows : PaidInto(j.rows[n], Spread(j).rows[n])
         /\ PrincipalPaid(Spread(j).rows) + FeesPaid(Spread(j).rows) + Spread(j).left
              = PrincipalPaid(j.rows) + FeesPaid(j.rows) + (j.new.amount + j.credit)
         /\ FeesPaid(Spread(j).rows) = FeesPaid(j.rows) + Spread(j).fees
         /\ Spread(j).left = 0 \/ \A n \in Rows : Outstanding(Spread(j).rows[n]) = 0
<1> DEFINE o == j.rows
           c == j.new.amount + j.credit
           target == j.new.target
           x == Allocate(o, target, c)
<1>1. j.rows \in Plans /\ j.credit \in Nat /\ j.new \in PaymentRecords  BY JobParts
<1>2. j.new.amount \in Nat /\ j.new.target \in Int  BY <1>1, PaymentParts
<1>3. o \in [1..N -> PlanRow] /\ c \in Nat /\ target \in Int /\ N \in Nat
  BY <1>1, <1>2, PlansAreRows, Parameters
<1>4. Spread(j) = x  BY DEF Spread, Spendable
<1> HIDE DEF o, c, target
<1>5. /\ x.rows \in [1..N -> PlanRow] /\ x.left \in Nat /\ x.fees \in Nat
      /\ \A i \in 1..N : PaidInto(o[i], x.rows[i])
      /\ PrincipalPaid(x.rows) + FeesPaid(x.rows) + x.left = PrincipalPaid(o) + FeesPaid(o) + c
      /\ FeesPaid(x.rows) = FeesPaid(o) + x.fees
      /\ x.left = 0 \/ \A i \in 1..N : Outstanding(x.rows[i]) = 0
  BY <1>3, Allocated
<1> HIDE DEF x
<1> QED  BY <1>4, <1>5, Parameters DEF o, c

\* What a request that takes a payment back is about to write.
LEMMA ReversalTakes ==
  ASSUME NEW j \in Requests, Computing(j)
  PROVE  LET reclaimed == Min({j.credit, j.new.amount}) IN
         /\ reclaimed \in Nat /\ reclaimed = IF j.credit <= j.new.amount THEN j.credit ELSE j.new.amount
         /\ CreditLeft(j.credit, j.new.amount) \in Nat
         /\ Undone(j).rows \in [1..N -> PlanRow] /\ Undone(j).left \in Nat /\ Undone(j).fees \in Nat
         /\ \A n \in Rows : TakenFrom(j.rows[n], Undone(j).rows[n])
         /\ (PrincipalPaid(j.rows) + FeesPaid(j.rows)) - PrincipalPaid(Undone(j).rows) - FeesPaid(Undone(j).rows)
              = (j.new.amount - reclaimed) - Undone(j).left
         /\ FeesPaid(j.rows) - FeesPaid(Undone(j).rows) = j.new.fee - Undone(j).fees
         /\ Undone(j).left = 0 \/ \A n \in Rows : Undone(j).rows[n].paid = 0
<1> DEFINE o == j.rows
           amount == j.new.amount
           credit == j.credit
           fee == j.new.fee
           reclaimed == Min({credit, amount})
           still == amount - reclaimed
           x == ClawBack(o, still, fee)
<1>1. j.rows \in Plans /\ j.credit \in Nat /\ j.new \in PaymentRecords  BY JobParts
<1>2. amount \in Nat /\ credit \in Nat /\ fee \in Nat  BY <1>1, PaymentParts
<1>4. Undone(j) = x  BY DEF Undone, StillToTake
<1>a. CreditLeft(credit, amount) = credit - reclaimed  BY DEF CreditLeft
<1> HIDE DEF amount, credit, fee
<1>5. reclaimed = IF credit <= amount THEN credit ELSE amount
  <2>1. amount \in Int /\ credit \in Int  BY <1>2
  <2> QED  BY <2>1, MinOfTwo
<1> HIDE DEF reclaimed
<1>6. reclaimed \in Nat /\ still \in Nat /\ credit - reclaimed \in Nat  BY <1>2, <1>5
<1>3. o \in [1..N -> PlanRow] /\ N \in Nat
  BY <1>1, PlansAreRows, Parameters
<1>b. still = amount - reclaimed  OBVIOUS
<1> HIDE DEF o, still
<1>7. /\ x.rows \in [1..N -> PlanRow] /\ x.left \in Nat /\ x.fees \in Nat
      /\ \A i \in 1..N : TakenFrom(o[i], x.rows[i])
      /\ (PrincipalPaid(o) + FeesPaid(o)) - PrincipalPaid(x.rows) - FeesPaid(x.rows) = still - x.left
      /\ FeesPaid(o) - FeesPaid(x.rows) = fee - x.fees
      /\ x.left = 0 \/ \A i \in 1..N : x.rows[i].paid = 0
  BY <1>2, <1>3, <1>6, ClawedBack, SMTT(40)
<1> HIDE DEF x
<1> QED  BY <1>4, <1>5, <1>6, <1>7, <1>a, <1>b, Parameters DEF o, fee, amount, credit, reclaimed

\* Typed holds at the start.
LEMMA TypedInit == Init => Typed
<1> SUFFICES ASSUME Init PROVE Typed  OBVIOUS
<1> USE DEF Init
<1>1. today \in 0..LastDay  BY Parameters
<1>2. rows \in Plans
  <2>1. [due |-> Due, paid |-> 0, fee |-> 0, feePaid |-> 0, status |-> "PENDING", waived |-> FALSE] \in SoundRow
    BY Parameters DEF SoundRow, RowStatuses
  <2> QED  BY <2>1 DEF Plans
<1>3. plan \in [status: PlanStatuses, credit: Nat, fees: Nat]  BY DEF PlanStatuses
<1>4. payment \in [Payments -> PaymentRecords]
  <2>1. Unused \in PaymentRecords  BY Parameters DEF Unused, PaymentRecords
  <2> QED  BY <2>1
<1>5. device \in Devices  BY DEF Devices
<1>6. teller \in [Tellers -> Requests]
  <2>1. Free \in Requests  BY DEF Free, Requests
  <2> QED  BY <2>1
<1>7. engine \in {Asleep} \cup Nightly /\ engine.pc = "asleep"  BY DEF Asleep
<1> QED  BY <1>1, <1>2, <1>3, <1>4, <1>5, <1>6, <1>7 DEF Typed

\* A counter with nothing to do.
LEMMA FreeIsRequest ==
  /\ Free \in Requests /\ Free.pc = "free" /\ ~Computing(Free)
  /\ \A v \in {"free", "unlock", "clear"} : [pc |-> v] \in Requests
  /\ \A p \in Payments : [pc |-> "found", payment |-> p] \in Requests
  /\ \A n \in Rows, v \in 0..Cap : [pc |-> "waive", row |-> n, feePaid |-> v] \in Requests
BY DEF Free, Requests, Computing

\* A request that has read the plan.
LEMMA JobIsRequest ==
  ASSUME NEW v \in {"apply", "reverse"}, NEW p \in Payments, NEW rs \in Plans, NEW c \in Nat,
         NEW x \in PaymentRecords
  PROVE  [pc |-> v, payment |-> p, rows |-> rs, credit |-> c, new |-> x] \in Requests
BY DEF Requests

\* What Typed says of each variable.
LEMMA PlanParts ==
  ASSUME Typed
  PROVE  /\ today \in 0..LastDay /\ today \in Nat
         /\ rows \in Plans
         /\ plan \in [status: PlanStatuses, credit: Nat, fees: Nat]
         /\ plan.status \in PlanStatuses /\ plan.credit \in Nat /\ plan.fees \in Nat
         /\ payment \in [Payments -> PaymentRecords]
         /\ device \in Devices
         /\ teller \in [Tellers -> Requests]
         /\ engine \in {Asleep} \cup Nightly
         /\ engine.pc \in {"mark", "plan", "enforce"} => engine.row \in Rows
BY Parameters DEF Typed

\* One counter's request changes.
LEMMA NewRequestTyped ==
  ASSUME Typed, NEW t \in Tellers, NEW j \in Requests, teller' = [teller EXCEPT ![t] = j]
  PROVE  teller' \in [Tellers -> Requests]
BY PlanParts

\* A request has read the plan and its payment.
LEMMA StartedTyped ==
  ASSUME Typed, NEW t \in Tellers, NEW v \in {"apply", "reverse"}, NEW p \in Payments, NEW x \in PaymentRecords,
         teller' = [teller EXCEPT ![t] = [pc |-> v, payment |-> p, rows |-> rows, credit |-> plan.credit,
                                          new |-> x]],
         UNCHANGED <<today, rows, plan, payment, device, engine>>
  PROVE  Typed'
<1>1. [pc |-> v, payment |-> p, rows |-> rows, credit |-> plan.credit, new |-> x] \in Requests
  BY PlanParts, JobIsRequest
<1>2. teller' \in [Tellers -> Requests]  BY <1>1, NewRequestTyped
<1> QED  BY <1>2 DEF Typed

\* What a payment's record says once it is applied.
LEMMA VerifiedSays ==
  ASSUME NEW x \in PaymentRecords, NEW fees \in Nat
  PROVE  /\ Verified(x, fees) \in PaymentRecords
         /\ Verified(x, fees).status = "VERIFIED" /\ Verified(x, fees).reversed = x.reversed
         /\ Verified(x, fees).amount = x.amount /\ Verified(x, fees).target = x.target
         /\ Verified(x, fees).fee = IF fees > 0 THEN fees ELSE x.fee
BY DEF Verified, PaymentRecords

\* A payment submitted, not yet applied.
LEMMA SubmittedTyped ==
  ASSUME NEW amount \in Amounts, NEW target \in Targets
  PROVE  /\ [Unused EXCEPT !.status = "PENDING", !.amount = amount, !.target = target] \in PaymentRecords
         /\ [Unused EXCEPT !.amount = amount, !.target = target] \in PaymentRecords
BY Parameters DEF Unused, PaymentRecords

\* applyPaymentEffect keeps Typed.
LEMMA ApplyTyped ==
  ASSUME Typed, NEW t \in Tellers, Apply(t)
  PROVE  Typed'
<1> DEFINE job == teller[t]
           p == job.payment
           spread == Spread(job)
           after == Written(job.rows, spread.rows)
           status == PlanStatus(after)
<1>1. job \in Requests /\ Computing(job)  BY PlanParts DEF Apply, Computing
<1>2. p \in Payments /\ job.rows \in Plans /\ job.credit \in Nat /\ job.new \in PaymentRecords
  BY <1>1, JobParts, SMTT(40)
<1>3. /\ rows' = after
      /\ plan' = [status |-> status, credit |-> spread.left, fees |-> OutstandingFees(after)]
      /\ payment' = [payment EXCEPT ![p] =
                       Verified(IF @.status = "NONE" THEN job.new ELSE @, spread.fees)]
      /\ device' = Handover(status, device)
      /\ teller' = [teller EXCEPT ![t] = [pc |-> Lift(status, Handover(status, device))]]
      /\ UNCHANGED <<today, engine>>
  BY DEF Apply, Spread
<1>4. /\ spread.rows \in [1..N -> PlanRow] /\ spread.left \in Nat /\ spread.fees \in Nat
      /\ \A n \in Rows : PaidInto(job.rows[n], spread.rows[n])
  BY <1>1, PaymentSpreads
<1> HIDE DEF spread, job
<1>5. after \in Plans  BY <1>2, <1>4, PlanParts, RowAfterPayment
<1> HIDE DEF after
<1>6. status \in PlanStatuses /\ OutstandingFees(after) \in Nat  BY <1>5, StatusSays, FeesSay
<1> HIDE DEF status
<1>7. rows' \in Plans  BY <1>3, <1>5
<1>8. plan' \in [status: PlanStatuses, credit: Nat, fees: Nat]  BY <1>3, <1>4, <1>6
<1>9. payment' \in [Payments -> PaymentRecords]
  <2> DEFINE x == IF payment[p].status = "NONE" THEN job.new ELSE payment[p]
  <2>1. payment[p] \in PaymentRecords  BY <1>2, PlanParts
  <2>2. x \in PaymentRecords  BY <1>2, <2>1
  <2>3. payment' = [payment EXCEPT ![p] = Verified(x, spread.fees)]  BY <1>3
  <2> HIDE DEF x
  <2>4. Verified(x, spread.fees) \in PaymentRecords  BY <1>4, <2>2, VerifiedSays
  <2> QED  BY <1>2, <2>3, <2>4, PlanParts
<1>10. device' \in Devices  BY <1>3, PlanParts DEF Handover, Devices
<1>11. teller' \in [Tellers -> Requests]
  <2>1. Lift(status, Handover(status, device)) \in {"free", "unlock", "clear"}  BY DEF Lift
  <2>2. [pc |-> Lift(status, Handover(status, device))] \in Requests  BY <2>1, FreeIsRequest
  <2> QED  BY <1>3, <2>2, NewRequestTyped
<1> QED  BY <1>3, <1>7, <1>8, <1>9, <1>10, <1>11 DEF Typed

\* reversePaymentEffect keeps Typed.
LEMMA TakeBackTyped ==
  ASSUME Typed, NEW t \in Tellers, TakeBackPayment(t)
  PROVE  Typed'
<1> DEFINE job == teller[t]
           p == job.payment
           reclaimed == Min({job.credit, job.new.amount})
           left == CreditLeft(job.credit, job.new.amount)
           undone == Undone(job)
           after == TakenBack(job.rows, undone.rows)
<1>1. job \in Requests /\ Computing(job)  BY PlanParts, SMTT(40) DEF TakeBackPayment, Computing
<1>2. p \in Payments /\ job.rows \in Plans /\ job.credit \in Nat /\ job.new \in PaymentRecords
  BY <1>1, JobParts
<1>3. /\ rows' = after
      /\ plan' = [status |-> PlanStatus(after), credit |-> IF reclaimed > 0 THEN left ELSE plan.credit,
                  fees |-> OutstandingFees(after)]
      /\ payment' = [payment EXCEPT ![p].status = "REFUNDED", ![p].reversed = TRUE]
      /\ teller' = [teller EXCEPT ![t] = Free]
      /\ UNCHANGED <<today, device, engine>>
  BY DEF TakeBackPayment, Undone
<1>4. /\ left \in Nat
      /\ undone.rows \in [1..N -> PlanRow]
      /\ \A n \in Rows : TakenFrom(job.rows[n], undone.rows[n])
  BY <1>1, ReversalTakes
<1> HIDE DEF undone, job, left, reclaimed
<1>5. after \in Plans  BY <1>2, <1>4, PlanParts, RowAfterReversal
<1> HIDE DEF after
<1>6. PlanStatus(after) \in PlanStatuses /\ OutstandingFees(after) \in Nat  BY <1>5, StatusSays, FeesSay
<1>7. rows' \in Plans  BY <1>3, <1>5
<1>8. plan' \in [status: PlanStatuses, credit: Nat, fees: Nat]  BY <1>3, <1>4, <1>6, PlanParts
<1>9. payment' \in [Payments -> PaymentRecords]
  <2>1. payment[p] \in PaymentRecords  BY <1>2, PlanParts
  <2> DEFINE y == [payment[p] EXCEPT !.status = "REFUNDED", !.reversed = TRUE]
  <2>2. y \in PaymentRecords  BY <2>1 DEF PaymentRecords
  <2>3. payment' = [payment EXCEPT ![p] = y]  BY <1>2, <1>3, PlanParts
  <2> HIDE DEF y
  <2> QED  BY <1>2, <2>2, <2>3, PlanParts
<1>11. teller' \in [Tellers -> Requests]  BY <1>3, FreeIsRequest, NewRequestTyped
<1> QED  BY <1>3, <1>7, <1>8, <1>9, <1>11 DEF Typed

\* Every step of a counter keeps Typed.
LEMMA CounterTyped ==
  ASSUME Typed, NEW t \in Tellers, Counter(t)
  PROVE  Typed'
<1>a. Free \in Requests  BY FreeIsRequest
<1>b. teller[t] \in Requests  BY PlanParts
<1>1. ASSUME NEW p \in Payments, NEW amount \in Amounts, NEW target \in Targets,
             RecordRead(t, p, amount, target)
      PROVE  Typed'
  <2>1. [Unused EXCEPT !.amount = amount, !.target = target] \in PaymentRecords  BY SubmittedTyped
  <2> DEFINE x == [Unused EXCEPT !.amount = amount, !.target = target]
  <2>2. /\ teller' = [teller EXCEPT ![t] = [pc |-> "apply", payment |-> p, rows |-> rows,
                                            credit |-> plan.credit, new |-> x]]
        /\ UNCHANGED <<today, rows, plan, payment, device, engine>>
    BY <1>1 DEF RecordRead
  <2>3. x \in PaymentRecords  BY <2>1
  <2> HIDE DEF x
  <2> QED  BY <2>2, <2>3, StartedTyped
<1>2. ASSUME NEW p \in Payments, VerifyFind(t, p) PROVE Typed'
  <2>1. [pc |-> "found", payment |-> p] \in Requests  BY FreeIsRequest
  <2>2. teller' \in [Tellers -> Requests]  BY <1>2, <2>1, NewRequestTyped DEF VerifyFind
  <2> QED  BY <1>2, <2>2 DEF VerifyFind, Typed
<1>3. ASSUME NEW p \in Payments, ReverseFind(t, p) PROVE Typed'
  <2>1. payment[p] \in PaymentRecords  BY PlanParts
  <2> QED  BY <1>3, <2>1, StartedTyped DEF ReverseFind
<1>4. ASSUME NEW n \in Rows, WaiveFind(t, n) PROVE Typed'
  <2>1. rows[n] \in SoundRow  BY PlanParts DEF Plans
  <2>2. rows[n].feePaid \in 0..Cap  BY <2>1, RowParts
  <2>3. [pc |-> "waive", row |-> n, feePaid |-> rows[n].feePaid] \in Requests  BY <2>2, FreeIsRequest
  <2>4. teller' \in [Tellers -> Requests]  BY <1>4, <2>3, NewRequestTyped DEF WaiveFind
  <2> QED  BY <1>4, <2>4 DEF WaiveFind, Typed
<1>5. CASE VerifyRead(t)
  <2> DEFINE p == teller[t].payment
  <2>1. p \in Payments  BY <1>5, <1>b, JobParts DEF VerifyRead
  <2>2. payment[p] \in PaymentRecords  BY <2>1, PlanParts
  <2>3. /\ teller' = [teller EXCEPT ![t] = [pc |-> "apply", payment |-> p, rows |-> rows,
                                            credit |-> plan.credit, new |-> payment[p]]]
        /\ UNCHANGED <<today, rows, plan, payment, device, engine>>
    BY <1>5 DEF VerifyRead
  <2> HIDE DEF p
  <2> QED  BY <2>1, <2>2, <2>3, StartedTyped
<1>6. CASE Apply(t)  BY <1>6, ApplyTyped
<1>7. CASE Unlock(t)
  <2>1. teller' \in [Tellers -> Requests]  BY <1>7, <1>a, NewRequestTyped DEF Unlock
  <2>2. device' \in Devices  BY <1>7, PlanParts DEF Unlock, Devices
  <2> QED  BY <1>7, <2>1, <2>2 DEF Unlock, Typed
<1>8. CASE ClearFlag(t)
  <2>1. teller' \in [Tellers -> Requests]  BY <1>8, <1>a, NewRequestTyped DEF ClearFlag
  <2>2. device' \in Devices  BY <1>8 DEF ClearFlag, Devices
  <2> QED  BY <1>8, <2>1, <2>2 DEF ClearFlag, Typed
<1>9. CASE CancelUnverified(t)
  <2> DEFINE p == teller[t].payment
             y == [payment[p] EXCEPT !.status = "FAILED", !.reversed = TRUE]
  <2>0. Computing(teller[t])  BY <1>9 DEF CancelUnverified, Computing
  <2>1. p \in Payments  BY <2>0, <1>b, JobParts
  <2>2. payment[p] \in PaymentRecords  BY <2>1, PlanParts
  <2>3. y \in PaymentRecords  BY <2>2 DEF PaymentRecords
  <2>4. payment' = [payment EXCEPT ![p] = y]  BY <1>9, <2>1, PlanParts DEF CancelUnverified
  <2>5. teller' \in [Tellers -> Requests]  BY <1>9, <1>a, NewRequestTyped DEF CancelUnverified
  <2> HIDE DEF y, p
  <2>6. payment' \in [Payments -> PaymentRecords]  BY <2>1, <2>3, <2>4, PlanParts
  <2> QED  BY <1>9, <2>5, <2>6 DEF CancelUnverified, Typed
<1>10. CASE TakeBackPayment(t)  BY <1>10, TakeBackTyped
<1>11. CASE Waive(t)
  <2> DEFINE n == teller[t].row
             v == teller[t].feePaid
             after == [rows EXCEPT ![n].fee = v, ![n].waived = TRUE]
  <2>1. n \in Rows /\ v \in 0..Cap  BY <1>11, <1>b, JobParts DEF Waive
  <2>2. /\ rows' = after
        /\ plan' = [plan EXCEPT !.fees = OutstandingFees(after)]
    BY <1>11 DEF Waive, WaivedFee
  <2> HIDE DEF n, v
  <2>3. after \in Plans  BY <2>1, PlanParts, FeeWaived
  <2> HIDE DEF after
  <2>4. OutstandingFees(after) \in Nat  BY <2>3, FeesSay
  <2>5. plan' \in [status: PlanStatuses, credit: Nat, fees: Nat]  BY <2>2, <2>4, PlanParts
  <2>6. teller' \in [Tellers -> Requests]  BY <1>11, <1>a, NewRequestTyped DEF Waive
  <2> QED  BY <1>11, <2>2, <2>3, <2>5, <2>6 DEF Waive, Typed
<1>12. CASE GiveUp(t)
  <2>1. teller' \in [Tellers -> Requests]  BY <1>12, <1>a, NewRequestTyped DEF GiveUp
  <2> QED  BY <1>12, <2>1 DEF GiveUp, Typed
<1> QED  BY <1>1, <1>2, <1>3, <1>4, <1>5, <1>6, <1>7, <1>8, <1>9, <1>10, <1>11, <1>12 DEF Counter

\* The next row of a nightly run.
LEMMA NextRowTyped ==
  ASSUME Typed, engine # Asleep, engine.row \in Rows
  PROVE  /\ NextRow \in Nightly /\ NextRow.pc = "charge" /\ NextRow.row = engine.row + 1
         /\ NextRow.rows = engine.rows /\ NextRow.day = engine.day
         /\ NextRow.affected = engine.affected /\ NextRow.device = engine.device
<1>1. engine \in Nightly  BY PlanParts
<1>2. engine.row + 1 \in 1..(N + 1)  BY Parameters
<1> QED  BY <1>1, <1>2 DEF NextRow, Nightly

\* A reminder sets a status that is neither paid nor overdue.
LEMMA ReminderIsStatus ==
  Reminder \subseteq RowStatuses \ {"PAID", "OVERDUE"}
BY DEF Reminder, RowStatuses

\* Every step of the nightly run keeps Typed.
LEMMA NightTyped ==
  ASSUME Typed, Engine
  PROVE  Typed'
<1>e. engine # Asleep => engine \in Nightly  BY PlanParts
<1>11. CASE EngineRead
  <2> DEFINE e == [pc |-> "read", day |-> today, rows |-> rows, device |-> device,
                   autoLock |-> FALSE, row |-> 1, affected |-> FALSE]
  <2>1. device \in Record!Statuses  BY PlanParts DEF Devices, Record!Statuses
  <2>2. 1 \in 1..(N + 1)  BY Parameters
  <2>3. e \in Nightly  BY <2>1, <2>2, PlanParts DEF Nightly
  <2>4. engine' = e /\ e.pc = "read"  BY <1>11 DEF EngineRead
  <2> HIDE DEF e
  <2>5. engine' \in Nightly /\ engine'.pc = "read"  BY <2>3, <2>4
  <2> QED  BY <1>11, <2>5 DEF EngineRead, Typed
<1>1. ASSUME NEW autoLock \in BOOLEAN, EngineStart(autoLock) PROVE Typed'
  <2>1. device \in Record!Statuses  BY PlanParts DEF Devices, Record!Statuses
  <2>2. engine \in Nightly  BY <1>1, <1>e DEF EngineStart, Asleep
  <2>3. CASE plan.status = "COMPLETED"
    <3>1. engine' = Asleep /\ Asleep.pc = "asleep"  BY <1>1, <2>3 DEF EngineStart, Asleep
    <3> QED  BY <1>1, <3>1 DEF EngineStart, Typed
  <2>4. CASE plan.status # "COMPLETED"
    <3>1. engine' = [engine EXCEPT !.pc = "charge", !.device = device, !.autoLock = autoLock]
      BY <1>1, <2>4 DEF EngineStart
    <3>2. engine' \in Nightly /\ engine'.pc = "charge"  BY <2>1, <2>2, <3>1 DEF Nightly
    <3> QED  BY <1>1, <3>2 DEF EngineStart, Typed
  <2> QED  BY <2>3, <2>4
<1>2. CASE EngineSkip
  <2>1. engine # Asleep /\ engine.row \in Rows  BY <1>2 DEF EngineSkip, Asleep
  <2>2. engine' \in Nightly /\ engine'.pc = "charge"  BY <1>2, <2>1, NextRowTyped DEF EngineSkip
  <2> QED  BY <1>2, <2>2 DEF EngineSkip, Typed
<1>3. CASE EngineCharge
  <2> DEFINE n == engine.row
             owed == LateFee(Seen, DaysLate(n, engine.day), Rate, Cap)
             grown == owed > Seen.fee
  <2>1. engine # Asleep /\ n \in Rows  BY <1>3 DEF EngineCharge, Asleep
  <2>2. engine \in Nightly /\ engine.day \in 0..LastDay /\ engine.rows \in Plans  BY <2>1, RunParts, PlanParts
  <2>3. Seen \in SoundRow /\ engine.day \in Nat  BY <2>1, <2>2, Parameters DEF Seen, Plans
  <2>4. owed \in 0..Cap  BY <2>1, <2>3, LateFeeIsDue
  <2>5. /\ rows' = IF grown THEN [rows EXCEPT ![n].fee = owed] ELSE rows
        /\ engine' = [engine EXCEPT !.pc = "mark", !.affected = Affects(grown)]
    BY <1>3 DEF EngineCharge
  <2>6. Affects(grown) \in BOOLEAN  BY <2>2 DEF Affects, Nightly
  <2> HIDE DEF owed, grown
  <2>7. rows' \in Plans
    <3>1. [rows EXCEPT ![n].fee = owed] \in Plans  BY <2>1, <2>4, PlanParts, FeeWritten
    <3> QED  BY <2>5, <3>1, PlanParts
  <2>8. engine' \in Nightly /\ engine'.row \in Rows  BY <2>1, <2>2, <2>5, <2>6 DEF Nightly
  <2> QED  BY <1>3, <2>7, <2>8 DEF EngineCharge, Typed
<1>4. CASE EngineMarkOverdue
  <2>1. engine # Asleep /\ engine.row \in Rows  BY <1>4, PlanParts DEF EngineMarkOverdue, Asleep
  <2>2. engine \in Nightly  BY <2>1, <1>e
  <2>3. engine' \in Nightly /\ engine'.row \in Rows
    BY <1>4, <2>1, <2>2 DEF EngineMarkOverdue, Nightly
  <2>4. "OVERDUE" \in RowStatuses  BY DEF RowStatuses
  <2>5. rows' \in Plans  BY <1>4, <2>1, <2>4, PlanParts, StatusWritten DEF EngineMarkOverdue
  <2> QED  BY <1>4, <2>3, <2>5 DEF EngineMarkOverdue, Typed
<1>9. CASE EngineMarkPlan
  <2>1. engine # Asleep /\ engine.row \in Rows  BY <1>9, PlanParts DEF EngineMarkPlan, Asleep
  <2>2. engine' \in Nightly /\ engine'.row \in Rows
    BY <1>9, <1>e, <2>1 DEF EngineMarkPlan, Nightly
  <2>3. "OVERDUE" \in PlanStatuses  BY DEF PlanStatuses
  <2>4. plan' \in [status: PlanStatuses, credit: Nat, fees: Nat]
    BY <1>9, <2>3, PlanParts DEF EngineMarkPlan
  <2> QED  BY <1>9, <2>2, <2>4 DEF EngineMarkPlan, Typed
<1>10. CASE EngineLockFails
  <2>1. engine # Asleep /\ engine.row \in Rows  BY <1>10, PlanParts DEF EngineLockFails, Asleep
  <2>2. engine' \in Nightly /\ engine'.pc = "charge"  BY <1>10, <2>1, NextRowTyped DEF EngineLockFails
  <2> QED  BY <1>10, <2>2 DEF EngineLockFails, Typed
<1>5. CASE EngineRemind
  <2>1. engine # Asleep /\ engine.row \in Rows  BY <1>5, PlanParts DEF EngineRemind, Asleep
  <2>2. engine' \in Nightly /\ engine'.pc = "charge"  BY <1>5, <2>1, NextRowTyped DEF EngineRemind
  <2> DEFINE s == CHOOSE s \in Reminder : TRUE
  <2>3. Reminder # {} => s \in Reminder  OBVIOUS
  <2>4. rows' = IF Reminder = {} THEN rows ELSE [rows EXCEPT ![engine.row].status = s]
    BY <1>5 DEF EngineRemind
  <2> HIDE DEF s
  <2>5. rows' \in Plans
    <3>1. CASE Reminder = {}  BY <2>4, <3>1, PlanParts
    <3>2. CASE Reminder # {}
      <4>1. s \in RowStatuses  BY <2>3, <3>2, ReminderIsStatus
      <4>2. [rows EXCEPT ![engine.row].status = s] \in Plans  BY <2>1, <4>1, PlanParts, StatusWritten
      <4> QED  BY <2>4, <3>2, <4>2
    <3> QED  BY <3>1, <3>2
  <2> QED  BY <1>5, <2>2, <2>5 DEF EngineRemind, Typed
<1>6. CASE EngineEnforce
  <2>1. engine # Asleep /\ engine.row \in Rows  BY <1>6, PlanParts DEF EngineEnforce, Asleep
  <2>2. engine' \in Nightly /\ engine'.pc = "charge"  BY <1>6, <2>1, NextRowTyped DEF EngineEnforce
  <2>3. device' \in Devices  BY <1>6, PlanParts DEF EngineEnforce, Devices
  <2> QED  BY <1>6, <2>2, <2>3 DEF EngineEnforce, Typed
<1>7. CASE EngineEnd
  <2>1. OutstandingFees(rows) \in Nat  BY PlanParts, FeesSay
  <2>2. plan' \in [status: PlanStatuses, credit: Nat, fees: Nat]  BY <1>7, <2>1, PlanParts DEF EngineEnd
  <2>3. Asleep.pc = "asleep"  BY DEF Asleep
  <2> QED  BY <1>7, <2>2, <2>3 DEF EngineEnd, Typed
<1>8. CASE EngineFails
  <2>3. Asleep.pc = "asleep"  BY DEF Asleep
  <2> QED  BY <1>8, <2>3 DEF EngineFails, Typed
<1> QED  BY <1>1, <1>2, <1>3, <1>4, <1>5, <1>6, <1>7, <1>8, <1>9, <1>10, <1>11 DEF Engine

\* Every step keeps Typed.
LEMMA TypedStep == Typed /\ [Next]_vars => Typed'
<1> SUFFICES ASSUME Typed, [Next]_vars PROVE Typed'  OBVIOUS
<1>1. CASE NewDay  BY <1>1, Parameters DEF NewDay, Typed
<1>2. ASSUME NEW p \in Payments, NEW amount \in Amounts, NEW target \in Targets, Submit(p, amount, target)
      PROVE  Typed'
  <2>1. [Unused EXCEPT !.status = "PENDING", !.amount = amount, !.target = target] \in PaymentRecords
    BY SubmittedTyped
  <2> DEFINE x == [Unused EXCEPT !.status = "PENDING", !.amount = amount, !.target = target]
  <2>2. payment' = [payment EXCEPT ![p] = x] /\ x \in PaymentRecords  BY <1>2, <2>1 DEF Submit
  <2> HIDE DEF x
  <2>3. payment' \in [Payments -> PaymentRecords]  BY <2>2, PlanParts
  <2> QED  BY <1>2, <2>3, ZenonT(60) DEF Submit, Typed
<1>3. ASSUME NEW t \in Tellers, Counter(t) PROVE Typed'  BY <1>3, CounterTyped
<1>4. CASE Engine  BY <1>4, NightTyped
<1>5. CASE UNCHANGED vars  BY <1>5 DEF vars, Typed
<1> QED  BY <1>1, <1>2, <1>3, <1>4, <1>5 DEF Next

(* Whatever the figures, the payments and the interleaving of counters and nightly
   run: no column of PlanLedger leaves its range, no row takes more principal than
   is due and no fee passes the cap. *)
THEOREM PlanIsTyped == Spec => []Typed
<1> QED  BY TypedInit, TypedStep, PTL DEF Spec

-----------------------------------------------------------------------------
(* PlanLedger: late fees *)

\* A row's late fee, and what is paid of it, are those of the days it is late.
Within(r, n, day) == r.fee <= FeeOf(n, day) /\ r.feePaid <= FeeOf(n, day)

AllWithin(rs, day) == \A n \in Rows : Within(rs[n], n, day)

Bounded ==
  /\ AllWithin(rows, today)
  /\ \A t \in Tellers : Computing(teller[t]) => AllWithin(teller[t].rows, today)
  /\ \A t \in Tellers : teller[t].pc = "waive" => teller[t].feePaid <= FeeOf(teller[t].row, today)
  /\ engine # Asleep => engine.day <= today

\* What is within a day's fee is within a later day's.
LEMMA WithinLater ==
  ASSUME NEW rs \in Plans, NEW day \in Nat, NEW later \in Nat, day <= later, AllWithin(rs, day)
  PROVE  AllWithin(rs, later)
<1> SUFFICES ASSUME NEW n \in Rows PROVE Within(rs[n], n, later)  BY DEF AllWithin
<1>1. rs[n] \in SoundRow  BY DEF Plans
<1>2. rs[n].fee \in Nat /\ rs[n].feePaid \in Nat  BY <1>1, RowParts, Parameters
<1>3. FeeOf(n, day) <= FeeOf(n, later)  BY FeeNeverFalls
<1>4. FeeOf(n, day) \in Nat /\ FeeOf(n, later) \in Nat
  <2>1. 0..Cap \subseteq Nat  BY Parameters
  <2> QED  BY <2>1, FeeGrows
<1>5. rs[n].fee <= FeeOf(n, day) /\ rs[n].feePaid <= FeeOf(n, day)  BY DEF AllWithin, Within
<1> QED  BY <1>2, <1>3, <1>4, <1>5 DEF Within

\* A day's fee is a number.
LEMMA FeeIsNat ==
  ASSUME NEW n \in Rows, NEW day \in Nat
  PROVE  FeeOf(n, day) \in Nat
<1>1. 0..Cap \subseteq Nat  BY Parameters
<1> QED  BY <1>1, FeeGrows

\* A payment raises no fee.
LEMMA PaymentKeepsWithin ==
  ASSUME Typed, AllWithin(rows, today), NEW seen \in Plans, NEW new \in [1..N -> PlanRow],
         AllWithin(seen, today), \A n \in Rows : PaidInto(seen[n], new[n])
  PROVE  AllWithin(Written(seen, new), today)
<1> SUFFICES ASSUME NEW n \in Rows PROVE Within(Written(seen, new)[n], n, today)  BY DEF AllWithin
<1> DEFINE w == Written(seen, new)[n]
<1>1. Within(rows[n], n, today) /\ Within(seen[n], n, today)  BY DEF AllWithin
<1>2. rows[n] \in SoundRow /\ seen[n] \in SoundRow /\ new[n] \in PlanRow  BY PlanParts, Parameters DEF Plans
<1>3. /\ rows[n].fee \in Nat /\ rows[n].feePaid \in Nat /\ seen[n].fee \in Nat /\ seen[n].feePaid \in Nat
      /\ new[n].feePaid \in Nat
  <2>1. rows[n] \in PlanRow /\ seen[n] \in PlanRow  BY <1>2, RowParts
  <2> QED  BY <1>2, <2>1, WhatIsOwed
<1>4. new[n].fee = seen[n].fee /\ (new[n].feePaid = seen[n].feePaid \/ new[n].feePaid <= new[n].fee)
  BY DEF PaidInto
<1>5. FeeOf(n, today) \in Nat  BY PlanParts, FeeIsNat
<1>6. w.fee = rows[n].fee /\ w.feePaid \in {rows[n].feePaid, new[n].feePaid}
  <2> DEFINE st == IF Settled(new[n]) THEN "PAID" ELSE rows[n].status
             y == [rows[n] EXCEPT !.paid = new[n].paid, !.feePaid = new[n].feePaid, !.status = st]
  <2>1. w = IF new[n] = seen[n] THEN rows[n] ELSE y
    <3>1. y = [rows[n] EXCEPT !.paid = new[n].paid, !.feePaid = new[n].feePaid,
                              !.status = IF Settled(new[n]) THEN "PAID" ELSE @]
      BY <1>2 DEF SoundRow
    <3> QED  BY <3>1 DEF Written
  <2> HIDE DEF st
  <2>2. y.fee = rows[n].fee /\ y.feePaid = new[n].feePaid  BY <1>2 DEF SoundRow
  <2> QED  BY <2>1, <2>2
<1> HIDE DEF w
<1> QED  BY <1>1, <1>3, <1>4, <1>5, <1>6 DEF Within, w

\* A reversal raises none either.
LEMMA ReversalKeepsWithin ==
  ASSUME Typed, AllWithin(rows, today), NEW seen \in Plans, NEW new \in [1..N -> PlanRow],
         AllWithin(seen, today), \A n \in Rows : TakenFrom(seen[n], new[n])
  PROVE  AllWithin(TakenBack(seen, new), today)
<1> SUFFICES ASSUME NEW n \in Rows PROVE Within(TakenBack(seen, new)[n], n, today)  BY DEF AllWithin
<1> DEFINE w == TakenBack(seen, new)[n]
<1>1. Within(rows[n], n, today) /\ Within(seen[n], n, today)  BY DEF AllWithin
<1>2. rows[n] \in SoundRow /\ seen[n] \in SoundRow /\ new[n] \in PlanRow  BY PlanParts, Parameters DEF Plans
<1>3. /\ rows[n].fee \in Nat /\ rows[n].feePaid \in Nat /\ seen[n].fee \in Nat /\ seen[n].feePaid \in Nat
      /\ new[n].feePaid \in Nat
  <2>1. rows[n] \in PlanRow /\ seen[n] \in PlanRow  BY <1>2, RowParts
  <2> QED  BY <1>2, <2>1, WhatIsOwed
<1>4. new[n].feePaid <= seen[n].feePaid  BY DEF TakenFrom
<1>5. FeeOf(n, today) \in Nat  BY PlanParts, FeeIsNat
<1>6. w.fee = rows[n].fee /\ w.feePaid \in {rows[n].feePaid, new[n].feePaid}
  <2> DEFINE y == [rows[n] EXCEPT !.paid = new[n].paid, !.feePaid = new[n].feePaid, !.status = new[n].status]
  <2>1. w = IF new[n] = seen[n] THEN rows[n] ELSE y  BY DEF TakenBack
  <2>2. y.fee = rows[n].fee /\ y.feePaid = new[n].feePaid  BY <1>2 DEF SoundRow
  <2> QED  BY <2>1, <2>2
<1> HIDE DEF w
<1> QED  BY <1>1, <1>3, <1>4, <1>5, <1>6 DEF Within, w

\* A function changed at one place.
LEMMA OneChanged ==
  ASSUME NEW S, NEW T, NEW f \in [S -> T], NEW a \in S, NEW x
  PROVE  \A i \in S : [f EXCEPT ![a] = x][i] = IF i = a THEN x ELSE f[i]
OBVIOUS

\* A fee, a status, a waiver: one row, and what is not its fee stays.
LEMMA FeeKeepsWithin ==
  ASSUME Typed, AllWithin(rows, today), NEW n \in Rows, NEW v \in Nat, v <= FeeOf(n, today)
  PROVE  /\ AllWithin([rows EXCEPT ![n].fee = v], today)
         /\ AllWithin([rows EXCEPT ![n].fee = v, ![n].waived = TRUE], today)
<1>1. rows \in Plans /\ \A m \in Rows : rows[m] \in SoundRow  BY PlanParts DEF Plans
<1>2. \A m \in Rows : Within(rows[m], m, today)  BY DEF AllWithin
<1> DEFINE x == [rows[n] EXCEPT !.fee = v]
           y == [x EXCEPT !.waived = TRUE]
<1>3. x.fee = v /\ x.feePaid = rows[n].feePaid /\ y.fee = v /\ y.feePaid = rows[n].feePaid
  BY <1>1 DEF SoundRow
<1>4. [rows EXCEPT ![n].fee = v] = [rows EXCEPT ![n] = x]  OBVIOUS
<1>5. [rows EXCEPT ![n].fee = v, ![n].waived = TRUE] = [rows EXCEPT ![n] = y]  BY <1>1 DEF Plans
<1>6. Within(x, n, today) /\ Within(y, n, today)  BY <1>2, <1>3 DEF Within
<1> HIDE DEF x, y
<1>a. rows \in [Rows -> SoundRow]  BY <1>1 DEF Plans
<1>7. \A m \in Rows : [rows EXCEPT ![n] = x][m] = IF m = n THEN x ELSE rows[m]  BY <1>a, OneChanged
<1>b. \A m \in Rows : [rows EXCEPT ![n] = y][m] = IF m = n THEN y ELSE rows[m]  BY <1>a, OneChanged
<1>8. AllWithin([rows EXCEPT ![n] = x], today)  BY <1>2, <1>6, <1>7 DEF AllWithin
<1>9. AllWithin([rows EXCEPT ![n] = y], today)  BY <1>2, <1>6, <1>b DEF AllWithin
<1> QED  BY <1>4, <1>5, <1>8, <1>9

\* A status is no fee.
LEMMA StatusKeepsWithin ==
  ASSUME Typed, AllWithin(rows, today), NEW n \in Rows, NEW v
  PROVE  AllWithin([rows EXCEPT ![n].status = v], today)
<1>1. rows \in Plans /\ \A m \in Rows : rows[m] \in SoundRow  BY PlanParts DEF Plans
<1>2. \A m \in Rows : Within(rows[m], m, today)  BY DEF AllWithin
<1>3. \A m \in Rows : /\ [rows EXCEPT ![n].status = v][m].fee = rows[m].fee
                      /\ [rows EXCEPT ![n].status = v][m].feePaid = rows[m].feePaid
  BY <1>1 DEF Plans, SoundRow
<1> QED  BY <1>2, <1>3 DEF AllWithin, Within

\* Bounded holds at the start.
LEMMA BoundedInit == Init => Bounded
<1> SUFFICES ASSUME Init PROVE Bounded  OBVIOUS
<1>1. today = 0 /\ \A n \in Rows : FeeOf(n, 0) \in Nat  BY FeeIsNat DEF Init
<1>2. \A n \in Rows : rows[n].fee = 0 /\ rows[n].feePaid = 0  BY DEF Init
<1>3. AllWithin(rows, today)  BY <1>1, <1>2 DEF AllWithin, Within
<1>4. \A t \in Tellers : ~Computing(teller[t]) /\ teller[t].pc = "free"  BY FreeIsRequest DEF Init
<1>5. engine = Asleep  BY DEF Init
<1> QED  BY <1>3, <1>4, <1>5 DEF Bounded

\* A request that changes only its own job.
LEMMA BoundedJob ==
  ASSUME Typed, Bounded, NEW t \in Tellers, NEW j, teller' = [teller EXCEPT ![t] = j],
         UNCHANGED <<today, engine>>, AllWithin(rows', today),
         Computing(j) => AllWithin(j.rows, today),
         j.pc = "waive" => j.feePaid <= FeeOf(j.row, today)
  PROVE  Bounded'
<1>1. \A u \in Tellers : teller'[u] = IF u = t THEN j ELSE teller[u]  BY PlanParts
<1>2. \A u \in Tellers : Computing(teller'[u]) => AllWithin(teller'[u].rows, today)
  BY <1>1 DEF Bounded
<1>3. \A u \in Tellers : teller'[u].pc = "waive" => teller'[u].feePaid <= FeeOf(teller'[u].row, today)
  BY <1>1 DEF Bounded
<1>4. today' = today /\ engine' = engine  OBVIOUS
<1>5. AllWithin(rows', today')  BY <1>4
<1> QED  BY <1>2, <1>3, <1>4, <1>5 DEF Bounded, AllWithin, Within, Computing

\* Every step of a counter keeps Bounded.
LEMMA BoundedCounter ==
  ASSUME Typed, Bounded, NEW t \in Tellers, Counter(t)
  PROVE  Bounded'
<1>a. ~Computing(Free) /\ Free.pc = "free"  BY FreeIsRequest
<1>b. teller[t] \in Requests  BY PlanParts
<1>c. AllWithin(rows, today)  BY DEF Bounded
<1>1. ASSUME NEW v \in {"apply", "reverse"}, NEW p, NEW x, UNCHANGED <<today, rows, engine>>,
             teller' = [teller EXCEPT ![t] = [pc |-> v, payment |-> p, rows |-> rows, credit |-> plan.credit,
                                              new |-> x]]
      PROVE  Bounded'
  BY <1>1, <1>c, BoundedJob
<1>2. ASSUME NEW p, UNCHANGED <<today, rows, engine>>,
             teller' = [teller EXCEPT ![t] = [pc |-> "found", payment |-> p]]
      PROVE  Bounded'
  <2>1. ~Computing([pc |-> "found", payment |-> p])  BY DEF Computing
  <2> QED  BY <1>2, <2>1, <1>c, BoundedJob
<1>3. ASSUME UNCHANGED <<today, engine>>, AllWithin(rows', today), teller' = [teller EXCEPT ![t] = Free]
      PROVE  Bounded'
  BY <1>3, <1>a, BoundedJob
<1>4. ASSUME NEW p \in Payments, NEW amount \in Amounts, NEW target \in Targets,
             RecordRead(t, p, amount, target)
      PROVE  Bounded'
  BY <1>1, <1>4 DEF RecordRead
<1>5. ASSUME NEW p \in Payments, VerifyFind(t, p) PROVE Bounded'
  BY <1>2, <1>5 DEF VerifyFind
<1>6. ASSUME NEW p \in Payments, ReverseFind(t, p) PROVE Bounded'
  BY <1>1, <1>6 DEF ReverseFind
<1>7. ASSUME NEW n \in Rows, WaiveFind(t, n) PROVE Bounded'
  <2> DEFINE j == [pc |-> "waive", row |-> n, feePaid |-> rows[n].feePaid]
  <2>1. teller' = [teller EXCEPT ![t] = j] /\ UNCHANGED <<today, rows, engine>>  BY <1>7 DEF WaiveFind
  <2>2. ~Computing(j) /\ j.row = n /\ j.feePaid = rows[n].feePaid  BY DEF Computing
  <2>3. rows[n].feePaid <= FeeOf(n, today)  BY <1>c DEF AllWithin, Within
  <2> HIDE DEF j
  <2> QED  BY <2>1, <2>2, <2>3, <1>c, BoundedJob
<1>8. CASE VerifyRead(t)  BY <1>1, <1>8 DEF VerifyRead
<1>9. CASE Apply(t)
  <2> DEFINE job == teller[t]
             new == Spread(job).rows
             j == [pc |-> Lift(PlanStatus(Written(job.rows, new)), Handover(PlanStatus(Written(job.rows, new)), device))]
  <2>1. Computing(job)  BY <1>9 DEF Apply, Computing
  <2>2. job.rows \in Plans  BY <1>b, <2>1, JobParts
  <2>3. new \in [1..N -> PlanRow] /\ \A n \in Rows : PaidInto(job.rows[n], new[n])
    BY <1>b, <2>1, PaymentSpreads, ZenonT(60)
  <2>4. /\ rows' = Written(job.rows, new)
        /\ teller' = [teller EXCEPT ![t] = j] /\ UNCHANGED <<today, engine>>
    BY <1>9 DEF Apply, Spread
  <2>5. AllWithin(job.rows, today)  BY <2>1 DEF Bounded
  <2> HIDE DEF job, new
  <2>6. AllWithin(rows', today)  BY <2>2, <2>3, <2>4, <2>5, <1>c, PaymentKeepsWithin
  <2>7. j.pc \in {"free", "unlock", "clear"}  BY DEF Lift
  <2> HIDE DEF j
  <2>8. ~Computing(j) /\ j.pc # "waive"  BY <2>7 DEF Computing
  <2> QED  BY <2>4, <2>6, <2>8, BoundedJob
<1>10. CASE Unlock(t)  BY <1>3, <1>c, <1>10 DEF Unlock
<1>11. CASE ClearFlag(t)  BY <1>3, <1>c, <1>11 DEF ClearFlag
<1>12. CASE CancelUnverified(t)  BY <1>3, <1>c, <1>12 DEF CancelUnverified
<1>13. CASE TakeBackPayment(t)
  <2> DEFINE job == teller[t]
             new == Undone(job).rows
  <2>1. Computing(job)  BY <1>13 DEF TakeBackPayment, Computing
  <2>2. job.rows \in Plans  BY <1>b, <2>1, JobParts
  <2>3. new \in [1..N -> PlanRow] /\ \A n \in Rows : TakenFrom(job.rows[n], new[n])
    BY <1>b, <2>1, ReversalTakes
  <2>4. /\ rows' = TakenBack(job.rows, new)
        /\ teller' = [teller EXCEPT ![t] = Free] /\ UNCHANGED <<today, engine>>
    BY <1>13 DEF TakeBackPayment, Undone
  <2>5. AllWithin(job.rows, today)  BY <2>1 DEF Bounded
  <2> HIDE DEF job, new
  <2>6. AllWithin(rows', today)  BY <2>2, <2>3, <2>4, <2>5, <1>c, ReversalKeepsWithin
  <2> QED  BY <1>3, <2>4, <2>6
<1>14. CASE Waive(t)
  <2> DEFINE n == teller[t].row
             v == teller[t].feePaid
  <2>1. n \in Rows /\ v \in Nat
    <3>1. teller[t].row \in Rows /\ teller[t].feePaid \in 0..Cap  BY <1>14, <1>b, JobParts DEF Waive
    <3> QED  BY <3>1, Parameters
  <2>2. v <= FeeOf(n, today)  BY <1>14 DEF Waive, Bounded
  <2>3. /\ rows' = [rows EXCEPT ![n].fee = v, ![n].waived = TRUE]
        /\ teller' = [teller EXCEPT ![t] = Free] /\ UNCHANGED <<today, engine>>
    BY <1>14 DEF Waive, WaivedFee
  <2> HIDE DEF n, v
  <2>4. AllWithin(rows', today)  BY <2>1, <2>2, <2>3, <1>c, FeeKeepsWithin
  <2> QED  BY <1>3, <2>3, <2>4
<1>15. CASE GiveUp(t)  BY <1>3, <1>c, <1>15 DEF GiveUp
<1> QED  BY <1>4, <1>5, <1>6, <1>7, <1>8, <1>9, <1>10, <1>11, <1>12, <1>13, <1>14, <1>15 DEF Counter

\* Every step of the nightly run keeps it: a stale run charges for an earlier day.
LEMMA BoundedNight ==
  ASSUME Typed, Bounded, Engine
  PROVE  Bounded'
<1>c. AllWithin(rows, today)  BY DEF Bounded
<1>1. ASSUME UNCHANGED <<today, teller>>, AllWithin(rows', today), engine' # Asleep => engine'.day <= today
      PROVE  Bounded'
  <2>1. today' = today /\ teller' = teller  BY <1>1
  <2>2. AllWithin(rows', today')  BY <1>1, <2>1
  <2> QED  BY <1>1, <2>1, <2>2 DEF Bounded, AllWithin, Within, Computing
<1>14. CASE EngineRead
  <2>1. engine'.day = today  BY <1>14 DEF EngineRead
  <2>2. today <= today  BY PlanParts
  <2> QED  BY <1>1, <1>14, <1>c, <2>1, <2>2 DEF EngineRead
<1>3. engine # Asleep => engine \in Nightly /\ engine.day <= today  BY PlanParts DEF Bounded
<1>2. ASSUME NEW autoLock \in BOOLEAN, EngineStart(autoLock) PROVE Bounded'
  <2>1. engine # Asleep  BY <1>2 DEF EngineStart, Asleep
  <2>2. engine' # Asleep => engine' = [engine EXCEPT !.pc = "charge", !.device = device, !.autoLock = autoLock]
    BY <1>2 DEF EngineStart
  <2>3. engine' # Asleep => engine'.day <= today  BY <1>3, <2>1, <2>2 DEF Nightly
  <2> QED  BY <1>1, <1>2, <1>c, <2>3 DEF EngineStart
<1>4. ASSUME engine # Asleep, engine.row \in Rows, engine' = NextRow PROVE engine'.day <= today
  BY <1>3, <1>4, NextRowTyped
<1>5. CASE EngineSkip
  <2>1. engine # Asleep  BY <1>5 DEF EngineSkip, Asleep
  <2> QED  BY <1>1, <1>4, <1>5, <1>c, <2>1 DEF EngineSkip
<1>6. CASE EngineCharge
  <2> DEFINE n == engine.row
             owed == LateFee(Seen, DaysLate(n, engine.day), Rate, Cap)
             grown == owed > Seen.fee
  <2>1. engine # Asleep /\ n \in Rows  BY <1>6 DEF EngineCharge, Asleep
  <2>2. engine \in Nightly /\ engine.day \in 0..LastDay /\ engine.rows \in Plans  BY <2>1, RunParts, PlanParts
  <2>3. Seen \in SoundRow /\ engine.day \in Nat  BY <2>1, <2>2, Parameters DEF Seen, Plans
  <2>4. owed \in 0..Cap /\ owed <= FeeOf(n, engine.day)  BY <2>1, <2>3, LateFeeIsDue
  <2>5. /\ rows' = IF grown THEN [rows EXCEPT ![n].fee = owed] ELSE rows
        /\ engine' = [engine EXCEPT !.pc = "mark", !.affected = Affects(grown)]
        /\ UNCHANGED <<today, teller>>
    BY <1>6 DEF EngineCharge
  <2>6. engine'.day = engine.day /\ engine.day <= today  BY <2>1, <2>2, <2>5, <1>3 DEF Nightly
  <2> HIDE DEF owed, grown
  <2>7. FeeOf(n, engine.day) <= FeeOf(n, today)  BY <2>1, <2>3, <2>6, FeeNeverFalls, PlanParts
  <2>8. owed \in Nat /\ FeeOf(n, engine.day) \in Nat /\ FeeOf(n, today) \in Nat
    <3>1. 0..Cap \subseteq Nat /\ today \in Nat  BY Parameters, PlanParts
    <3>2. FeeOf(n, today) \in Nat  BY <2>1, <3>1, FeeIsNat
    <3>3. FeeOf(n, engine.day) \in Nat  BY <2>1, <2>3, FeeIsNat
    <3> QED  BY <2>4, <3>1, <3>2, <3>3
  <2>9. owed <= FeeOf(n, today)  BY <2>4, <2>7, <2>8
  <2>10. AllWithin([rows EXCEPT ![n].fee = owed], today)  BY <2>1, <2>8, <2>9, <1>c, FeeKeepsWithin
  <2>11. AllWithin(rows', today)  BY <2>5, <2>10, <1>c
  <2> QED  BY <1>1, <2>5, <2>6, <2>11
<1>7. CASE EngineMarkOverdue
  <2>1. engine # Asleep /\ engine.row \in Rows  BY <1>7, PlanParts DEF EngineMarkOverdue, Asleep
  <2>2. engine'.day <= today  BY <1>3, <1>7, <2>1 DEF EngineMarkOverdue, Nightly
  <2>3. AllWithin(rows', today)  BY <1>7, <1>c, <2>1, StatusKeepsWithin DEF EngineMarkOverdue
  <2> QED  BY <1>1, <1>7, <2>2, <2>3 DEF EngineMarkOverdue
<1>8. CASE EngineRemind
  <2>1. engine # Asleep /\ engine.row \in Rows  BY <1>8, PlanParts DEF EngineRemind, Asleep
  <2>2. engine'.day <= today  BY <1>4, <1>8, <2>1 DEF EngineRemind
  <2>3. AllWithin(rows', today)  BY <1>8, <1>c, <2>1, StatusKeepsWithin DEF EngineRemind
  <2> QED  BY <1>1, <1>8, <2>2, <2>3 DEF EngineRemind
<1>9. CASE EngineEnforce
  <2>1. engine # Asleep /\ engine.row \in Rows  BY <1>9, PlanParts DEF EngineEnforce, Asleep
  <2>2. engine'.day <= today  BY <1>4, <1>9, <2>1 DEF EngineEnforce
  <2> QED  BY <1>1, <1>9, <1>c, <2>2 DEF EngineEnforce
<1>10. CASE EngineEnd  BY <1>1, <1>10, <1>c DEF EngineEnd
<1>11. CASE EngineFails  BY <1>1, <1>11, <1>c DEF EngineFails
<1>12. CASE EngineMarkPlan
  <2>1. engine # Asleep  BY <1>12 DEF EngineMarkPlan, Asleep
  <2>2. engine'.day <= today  BY <1>3, <1>12, <2>1 DEF EngineMarkPlan, Nightly
  <2> QED  BY <1>1, <1>12, <1>c, <2>2 DEF EngineMarkPlan
<1>13. CASE EngineLockFails
  <2>1. engine # Asleep /\ engine.row \in Rows  BY <1>13, PlanParts DEF EngineLockFails, Asleep
  <2>2. engine'.day <= today  BY <1>4, <1>13, <2>1 DEF EngineLockFails
  <2> QED  BY <1>1, <1>13, <1>c, <2>2 DEF EngineLockFails
<1> QED  BY <1>2, <1>5, <1>6, <1>7, <1>8, <1>9, <1>10, <1>11, <1>12, <1>13, <1>14 DEF Engine

\* Every step keeps Bounded.
LEMMA BoundedStep == Typed /\ Bounded /\ [Next]_vars => Bounded'
<1> SUFFICES ASSUME Typed, Bounded, [Next]_vars PROVE Bounded'  OBVIOUS
<1>1. CASE NewDay
  <2>1. today' = today + 1 /\ today \in Nat /\ today' \in Nat /\ today <= today'
    BY <1>1, PlanParts DEF NewDay
  <2>2. rows' = rows /\ teller' = teller /\ engine' = engine  BY <1>1 DEF NewDay
  <2>3. AllWithin(rows, today')  BY <2>1, PlanParts, WithinLater DEF Bounded
  <2>4. ASSUME NEW t \in Tellers, Computing(teller[t]) PROVE AllWithin(teller[t].rows, today')
    <3>1. teller[t].rows \in Plans  BY <2>4, PlanParts, JobParts
    <3> QED  BY <2>1, <2>4, <3>1, WithinLater DEF Bounded
  <2>5. ASSUME NEW t \in Tellers, teller[t].pc = "waive" PROVE teller[t].feePaid <= FeeOf(teller[t].row, today')
    <3>1. teller[t].row \in Rows /\ teller[t].feePaid \in 0..Cap  BY <2>5, PlanParts, JobParts
    <3>2. teller[t].feePaid <= FeeOf(teller[t].row, today)  BY <2>5 DEF Bounded
    <3>3. FeeOf(teller[t].row, today) <= FeeOf(teller[t].row, today')  BY <2>1, <3>1, FeeNeverFalls
    <3>4. teller[t].feePaid \in Nat /\ FeeOf(teller[t].row, today) \in Nat /\ FeeOf(teller[t].row, today') \in Nat
      <4>1. 0..Cap \subseteq Nat  BY Parameters
      <4>2. FeeOf(teller[t].row, today) \in Nat  BY <2>1, <3>1, FeeIsNat
      <4>3. FeeOf(teller[t].row, today') \in Nat  BY <2>1, <3>1, FeeIsNat
      <4> QED  BY <3>1, <4>1, <4>2, <4>3
    <3> QED  BY <3>2, <3>3, <3>4
  <2>6. engine # Asleep => engine.day <= today'
    <3>1. ASSUME engine # Asleep PROVE engine.day \in Nat /\ engine.day <= today
      BY <3>1, PlanParts, RunParts, Parameters DEF Bounded
    <3> QED  BY <2>1, <3>1
  <2> QED  BY <2>2, <2>3, <2>4, <2>5, <2>6 DEF Bounded, AllWithin, Within, Computing
<1>2. ASSUME NEW p \in Payments, NEW amount \in Amounts, NEW target \in Targets, Submit(p, amount, target)
      PROVE  Bounded'
  BY <1>2 DEF Submit, Bounded, AllWithin, Within, Computing
<1>3. ASSUME NEW t \in Tellers, Counter(t) PROVE Bounded'  BY <1>3, BoundedCounter
<1>4. CASE Engine  BY <1>4, BoundedNight
<1>5. CASE UNCHANGED vars  BY <1>5 DEF vars, Bounded, AllWithin, Within, Computing
<1> QED  BY <1>1, <1>2, <1>3, <1>4, <1>5 DEF Next

\* No installment carries more than the fee of the days it is late.
THEOREM NeverChargedTwice == Spec => []NoDoubleCharge
<1>1. Typed /\ Bounded => NoDoubleCharge
  BY DEF Bounded, AllWithin, Within, NoDoubleCharge, FeeOf
<1> QED  BY TypedInit, TypedStep, BoundedInit, BoundedStep, <1>1, PTL DEF Spec

-----------------------------------------------------------------------------
(* PlanLedger: the money *)

\* What a payment that stands is.
Counted(x) == IF x.status = "VERIFIED" THEN x.amount ELSE 0

\* What a payment that stands brought beside late fees.
Netted(x) == IF x.status = "VERIFIED" /\ x.amount > x.fee THEN x.amount - x.fee ELSE 0

CountedAll(pm) == [p \in Payments |-> Counted(pm[p])]
NettedAll(pm) == [p \in Payments |-> Netted(pm[p])]

Net == SumFunction(NettedAll(payment))

\* What one payment counts for.
LEMMA PaymentCounts ==
  ASSUME NEW x \in PaymentRecords
  PROVE  Counted(x) \in Nat /\ Netted(x) \in Nat /\ Netted(x) <= Counted(x)
<1>1. x.amount \in Nat /\ x.fee \in Nat  BY PaymentParts
<1> QED  BY <1>1 DEF Counted, Netted

\* What the shop has received is a sum over all payments.
LEMMA StandingIsSum == Standing = SumFunction(CountedAll(payment))
BY DEF Standing, CountedAll, Counted

\* The sums over the payments are numbers.
LEMMA PaymentSums ==
  ASSUME NEW pm \in [Payments -> PaymentRecords]
  PROVE  /\ CountedAll(pm) \in [Payments -> Int] /\ NettedAll(pm) \in [Payments -> Int]
         /\ SumFunction(CountedAll(pm)) \in Nat /\ SumFunction(NettedAll(pm)) \in Nat
         /\ SumFunction(NettedAll(pm)) <= SumFunction(CountedAll(pm))
<1>1. \A p \in Payments : /\ Counted(pm[p]) \in Nat /\ Netted(pm[p]) \in Nat
                          /\ Netted(pm[p]) <= Counted(pm[p])
  BY PaymentCounts
<1> DEFINE c == CountedAll(pm)
           d == NettedAll(pm)
<1>2. c \in [Payments -> Nat] /\ d \in [Payments -> Nat] /\ c \in [Payments -> Int] /\ d \in [Payments -> Int]
  BY <1>1 DEF CountedAll, NettedAll
<1>3. \A p \in Payments : d[p] <= c[p]  BY <1>1 DEF CountedAll, NettedAll
<1> HIDE DEF c, d
<1>4. SumFunction(c) \in Nat /\ SumFunction(d) \in Nat  BY <1>2, Parameters, SumIsNat
<1>5. SumFunction(d) <= SumFunction(c)  BY <1>2, <1>3, Parameters, SumUpTo
<1> QED  BY <1>2, <1>4, <1>5 DEF c, d

\* One payment changes the sums by what it changes.
LEMMA PaymentMoves ==
  ASSUME NEW pm \in [Payments -> PaymentRecords], NEW p \in Payments, NEW y \in PaymentRecords
  PROVE  /\ SumFunction(CountedAll([pm EXCEPT ![p] = y]))
              = SumFunction(CountedAll(pm)) + Counted(y) - Counted(pm[p])
         /\ SumFunction(NettedAll([pm EXCEPT ![p] = y]))
              = SumFunction(NettedAll(pm)) + Netted(y) - Netted(pm[p])
<1> DEFINE qm == [pm EXCEPT ![p] = y]
           c == CountedAll(pm)
           d == NettedAll(pm)
           cc == CountedAll(qm)
           dd == NettedAll(qm)
<1>1. qm \in [Payments -> PaymentRecords] /\ qm[p] = y /\ \A u \in Payments : u # p => qm[u] = pm[u]  OBVIOUS
<1> HIDE DEF qm
<1>2. cc[p] = Counted(y) /\ c[p] = Counted(pm[p]) /\ dd[p] = Netted(y) /\ d[p] = Netted(pm[p])
  BY <1>1 DEF CountedAll, NettedAll
<1>3. SameBut(Payments, c, cc, p) /\ SameBut(Payments, d, dd, p)
  BY <1>1 DEF CountedAll, NettedAll, SameBut
<1>4. c \in [Payments -> Int] /\ d \in [Payments -> Int] /\ cc \in [Payments -> Int] /\ dd \in [Payments -> Int]
  BY <1>1, PaymentSums
<1> HIDE DEF c, d, cc, dd
<1>5. SumFunction(cc) = SumFunction(c) + cc[p] - c[p]
  <2>1. SameBut(Payments, c, cc, p)  BY <1>3
  <2>2. c \in [Payments -> Int] /\ cc \in [Payments -> Int]  BY <1>4
  <2> QED  BY <2>1, <2>2, Parameters, SumMoves, ZenonT(40)
<1>6. SumFunction(dd) = SumFunction(d) + dd[p] - d[p]
  <2>1. SameBut(Payments, d, dd, p)  BY <1>3
  <2>2. d \in [Payments -> Int] /\ dd \in [Payments -> Int]  BY <1>4
  <2> QED  BY <2>1, <2>2, Parameters, SumMoves, ZenonT(40)
<1> QED  BY <1>2, <1>5, <1>6 DEF c, d, cc, dd, qm

SoundPayment(x) ==
  /\ x.reversed <=> x.status \in {"FAILED", "REFUNDED"}
  /\ x.status \in {"NONE", "PENDING"} => x.fee = 0

PaidInFull(rs) == \A n \in Rows : rs[n].status = "PAID" => rs[n].paid = Due

\* The same money on every row is the same money in all.
LEMMA SameMoneySameSums ==
  ASSUME NEW a, NEW b, DOMAIN a = Rows, DOMAIN b = Rows, SameMoney(a, b)
  PROVE  PrincipalPaid(a) = PrincipalPaid(b) /\ FeesPaid(a) = FeesPaid(b)
<1>1. Paids(a) = Paids(b)  BY DEF Paids, SameMoney
<1>2. FeePaids(a) = FeePaids(b)  BY DEF FeePaids, SameMoney
<1>3. PrincipalPaid(a) = SumFunction(Paids(a)) /\ PrincipalPaid(b) = SumFunction(Paids(b))
  BY DEF PrincipalPaid, Sum, Paids
<1>4. FeesPaid(a) = SumFunction(FeePaids(a)) /\ FeesPaid(b) = SumFunction(FeePaids(b))
  BY DEF FeesPaid, Sum, FeePaids
<1> QED  BY <1>1, <1>2, <1>3, <1>4

\* The money on a plan's rows is a number.
LEMMA PaidSums ==
  ASSUME NEW rs \in [1..N -> PlanRow]
  PROVE  PrincipalPaid(rs) \in Nat /\ FeesPaid(rs) \in Nat
<1> DEFINE a == Paids(rs)
           b == FeePaids(rs)
<1>1. PrincipalPaid(rs) = SumFunction(a) /\ FeesPaid(rs) = SumFunction(b) /\ IsFiniteSet(1..N)
  BY Parameters, SumsOfRows
<1>2. a \in [1..N -> Nat] /\ b \in [1..N -> Nat]  BY WhatIsOwed DEF Paids, FeePaids
<1> HIDE DEF a, b
<1> QED  BY <1>1, <1>2, SumIsNat

\* Lower principal on every row is lower principal in all; none on any is none.
LEMMA LessPaid ==
  ASSUME NEW a \in [1..N -> PlanRow], NEW b \in [1..N -> PlanRow], \A n \in 1..N : a[n].paid <= b[n].paid
  PROVE  PrincipalPaid(a) <= PrincipalPaid(b)
<1> DEFINE x == Paids(a)
           y == Paids(b)
<1>1. /\ PrincipalPaid(a) = SumFunction(x) /\ PrincipalPaid(b) = SumFunction(y) /\ IsFiniteSet(1..N)
      /\ x \in [1..N -> Int] /\ y \in [1..N -> Int]
  BY Parameters, SumsOfRows
<1>2. \A n \in 1..N : x[n] <= y[n]  BY DEF Paids
<1> HIDE DEF x, y
<1> QED  BY <1>1, <1>2, SumUpTo

\* Lower fees paid on every row are lower fees paid in all.
LEMMA LessFeePaid ==
  ASSUME NEW a \in [1..N -> PlanRow], NEW b \in [1..N -> PlanRow], \A n \in 1..N : a[n].feePaid <= b[n].feePaid
  PROVE  FeesPaid(a) <= FeesPaid(b)
<1> DEFINE x == FeePaids(a)
           y == FeePaids(b)
<1>1. /\ FeesPaid(a) = SumFunction(x) /\ FeesPaid(b) = SumFunction(y) /\ IsFiniteSet(1..N)
      /\ x \in [1..N -> Int] /\ y \in [1..N -> Int]
  BY Parameters, SumsOfRows
<1>2. \A n \in 1..N : x[n] <= y[n]  BY DEF FeePaids
<1> HIDE DEF x, y
<1> QED  BY <1>1, <1>2, SumUpTo

\* Rows that have all been paid the same.
LEMMA EquallyPaid ==
  ASSUME NEW a \in [1..N -> PlanRow], NEW v \in Nat, \A n \in 1..N : a[n].paid = v
  PROVE  PrincipalPaid(a) = N * v
<1>1. PrincipalPaid(a) = SumFunction(Paids(a)) /\ IsFiniteSet(1..N)  BY Parameters, SumsOfRows
<1>2. Paids(a) = [n \in 1..N |-> v]  BY DEF Paids
<1>3. Cardinality(1..N) = N
  <2>1. 1 \in Int /\ N \in Int /\ N >= 1  BY Parameters
  <2>2. Cardinality(1..N) = IF 1 > N THEN 0 ELSE N - 1 + 1  BY <2>1, FS_Interval
  <2> QED  BY <2>1, <2>2
<1>4. SumFunction([n \in 1..N |-> v]) = Cardinality(1..N) * v
  <2>1. v \in Int /\ IsFiniteSet(1..N)  BY <1>1
  <2> QED  BY <2>1, SumOfEqual, Zenon
<1> QED  BY <1>1, <1>2, <1>3, <1>4

\* A fee, a status or a waiver moves no money.
LEMMA OneRowSameMoney ==
  ASSUME NEW rs \in Plans, NEW n \in Rows, NEW v
  PROVE  /\ SameMoney([rs EXCEPT ![n].fee = v], rs)
         /\ SameMoney([rs EXCEPT ![n].status = v], rs)
         /\ SameMoney([rs EXCEPT ![n].fee = v, ![n].waived = TRUE], rs)
<1>1. rs[n] \in SoundRow /\ rs \in [Rows -> SoundRow]  BY DEF Plans
<1> DEFINE x == [rs[n] EXCEPT !.fee = v]
           y == [x EXCEPT !.waived = TRUE]
           z == [rs[n] EXCEPT !.status = v]
<1>2. /\ x.paid = rs[n].paid /\ x.feePaid = rs[n].feePaid
      /\ y.paid = rs[n].paid /\ y.feePaid = rs[n].feePaid
      /\ z.paid = rs[n].paid /\ z.feePaid = rs[n].feePaid
  BY <1>1 DEF SoundRow
<1>3. [rs EXCEPT ![n].fee = v] = [rs EXCEPT ![n] = x]  OBVIOUS
<1>4. [rs EXCEPT ![n].fee = v, ![n].waived = TRUE] = [rs EXCEPT ![n] = y]  BY <1>1
<1>5. [rs EXCEPT ![n].status = v] = [rs EXCEPT ![n] = z]  OBVIOUS
<1> HIDE DEF x, y, z
<1>6. \A m \in Rows : [rs EXCEPT ![n] = x][m] = IF m = n THEN x ELSE rs[m]  BY <1>1, OneChanged
<1>7. \A m \in Rows : [rs EXCEPT ![n] = y][m] = IF m = n THEN y ELSE rs[m]  BY <1>1, OneChanged
<1>8. \A m \in Rows : [rs EXCEPT ![n] = z][m] = IF m = n THEN z ELSE rs[m]  BY <1>1, OneChanged
<1>9. SameMoney([rs EXCEPT ![n] = x], rs)  BY <1>2, <1>6 DEF SameMoney
<1>10. SameMoney([rs EXCEPT ![n] = y], rs)  BY <1>2, <1>7 DEF SameMoney
<1>11. SameMoney([rs EXCEPT ![n] = z], rs)  BY <1>2, <1>8 DEF SameMoney
<1> QED  BY <1>3, <1>4, <1>5, <1>9, <1>10, <1>11

\* A fee, a waiver or a status other than paid leaves paid rows paid in full.
LEMMA OneRowPaidInFull ==
  ASSUME NEW rs \in Plans, PaidInFull(rs), NEW n \in Rows, NEW v
  PROVE  /\ PaidInFull([rs EXCEPT ![n].fee = v])
         /\ v # "PAID" => PaidInFull([rs EXCEPT ![n].status = v])
         /\ PaidInFull([rs EXCEPT ![n].fee = v, ![n].waived = TRUE])
<1>1. rs[n] \in SoundRow /\ rs \in [Rows -> SoundRow]  BY DEF Plans
<1> DEFINE x == [rs[n] EXCEPT !.fee = v]
           y == [x EXCEPT !.waived = TRUE]
           z == [rs[n] EXCEPT !.status = v]
<1>2. /\ x.paid = rs[n].paid /\ x.status = rs[n].status
      /\ y.paid = rs[n].paid /\ y.status = rs[n].status
      /\ z.status = v
  BY <1>1 DEF SoundRow
<1>3. [rs EXCEPT ![n].fee = v] = [rs EXCEPT ![n] = x]  OBVIOUS
<1>4. [rs EXCEPT ![n].fee = v, ![n].waived = TRUE] = [rs EXCEPT ![n] = y]  BY <1>1
<1>5. [rs EXCEPT ![n].status = v] = [rs EXCEPT ![n] = z]  OBVIOUS
<1> HIDE DEF x, y, z
<1>6. \A m \in Rows : [rs EXCEPT ![n] = x][m] = IF m = n THEN x ELSE rs[m]  BY <1>1, OneChanged
<1>7. \A m \in Rows : [rs EXCEPT ![n] = y][m] = IF m = n THEN y ELSE rs[m]  BY <1>1, OneChanged
<1>8. \A m \in Rows : [rs EXCEPT ![n] = z][m] = IF m = n THEN z ELSE rs[m]  BY <1>1, OneChanged
<1>9. PaidInFull([rs EXCEPT ![n] = x])  BY <1>2, <1>6 DEF PaidInFull
<1>10. PaidInFull([rs EXCEPT ![n] = y])  BY <1>2, <1>7 DEF PaidInFull
<1>11. v # "PAID" => PaidInFull([rs EXCEPT ![n] = z])  BY <1>2, <1>8 DEF PaidInFull
<1> QED  BY <1>3, <1>4, <1>5, <1>9, <1>10, <1>11

\* A payment that saw the money that is there writes what it computed.
LEMMA PaymentWrites ==
  ASSUME NEW seen \in Plans, rows \in Plans, NEW new \in [1..N -> PlanRow],
         \A n \in Rows : PaidInto(seen[n], new[n]), SameMoney(seen, rows), PaidInFull(rows)
  PROVE  SameMoney(Written(seen, new), new) /\ PaidInFull(Written(seen, new))
<1> SUFFICES ASSUME NEW n \in Rows
             PROVE  LET w == Written(seen, new)[n] IN
                    w.paid = new[n].paid /\ w.feePaid = new[n].feePaid /\ (w.status = "PAID" => w.paid = Due)
  BY DEF SameMoney, PaidInFull
<1> DEFINE w == Written(seen, new)[n]
           o == rows[n]
           pd == new[n].paid
           fp == new[n].feePaid
           st == IF Settled(new[n]) THEN "PAID" ELSE o.status
           y == [o EXCEPT !.paid = pd, !.feePaid = fp, !.status = st]
<1>1. o \in SoundRow /\ seen[n] \in SoundRow /\ new[n] \in PlanRow  BY Parameters DEF Plans
<1>2. seen[n].paid = o.paid /\ seen[n].feePaid = o.feePaid /\ (o.status = "PAID" => o.paid = Due)
  BY DEF SameMoney, PaidInFull
<1>3. /\ new[n].due = seen[n].due /\ pd >= seen[n].paid /\ (pd = seen[n].paid \/ pd <= new[n].due)
  BY DEF PaidInto
<1>4. seen[n].due = Due /\ seen[n].paid \in 0..Due  BY <1>1, RowParts
<1>5. w = IF new[n] = seen[n] THEN o ELSE y
  <2>1. y = [o EXCEPT !.paid = new[n].paid, !.feePaid = new[n].feePaid,
                      !.status = IF Settled(new[n]) THEN "PAID" ELSE @]
    BY <1>1 DEF SoundRow
  <2> QED  BY <2>1 DEF Written
<1>6. y.paid = pd /\ y.feePaid = fp /\ y.status = st  BY <1>1 DEF SoundRow
<1>7. pd \in Nat /\ (Settled(new[n]) => pd >= new[n].due)  BY <1>1, WhatIsOwed DEF Settled
<1>8. st = "PAID" => pd = Due
  <2>1. pd <= Due  BY <1>3, <1>4, <1>7, Parameters
  <2>2. CASE Settled(new[n])  BY <2>1, <2>2, <1>3, <1>4, <1>7, Parameters
  <2>3. CASE ~Settled(new[n])  BY <2>1, <2>3, <1>2, <1>3, <1>4, <1>7, Parameters
  <2> QED  BY <2>2, <2>3
<1> HIDE DEF y, st, w, o
<1>9. w.paid = pd /\ w.feePaid = fp /\ (w.status = "PAID" => w.paid = Due)
  BY <1>2, <1>5, <1>6, <1>8
<1> QED  BY <1>9 DEF w

\* So does a reversal.
LEMMA ReversalWrites ==
  ASSUME NEW seen \in Plans, rows \in Plans, NEW new \in [1..N -> PlanRow],
         \A n \in Rows : TakenFrom(seen[n], new[n]), SameMoney(seen, rows), PaidInFull(rows)
  PROVE  SameMoney(TakenBack(seen, new), new) /\ PaidInFull(TakenBack(seen, new))
<1> SUFFICES ASSUME NEW n \in Rows
             PROVE  LET w == TakenBack(seen, new)[n] IN
                    w.paid = new[n].paid /\ w.feePaid = new[n].feePaid /\ (w.status = "PAID" => w.paid = Due)
  BY DEF SameMoney, PaidInFull
<1> DEFINE w == TakenBack(seen, new)[n]
           o == rows[n]
           pd == new[n].paid
           fp == new[n].feePaid
           st == new[n].status
           y == [o EXCEPT !.paid = pd, !.feePaid = fp, !.status = st]
<1>1. o \in SoundRow  BY DEF Plans
<1>2. seen[n].paid = o.paid /\ seen[n].feePaid = o.feePaid /\ (o.status = "PAID" => o.paid = Due)
  BY DEF SameMoney, PaidInFull
<1>3. new[n] # seen[n] => st # "PAID"
  <2>1. new[n] # seen[n] => st = IF seen[n].status = "PAID" THEN "PENDING" ELSE seen[n].status
    BY DEF TakenFrom
  <2> QED  BY <2>1
<1>5. w = IF new[n] = seen[n] THEN o ELSE y  BY DEF TakenBack
<1>6. y.paid = pd /\ y.feePaid = fp /\ y.status = st  BY <1>1 DEF SoundRow
<1> HIDE DEF y, st, w, o
<1>9. w.paid = pd /\ w.feePaid = fp /\ (w.status = "PAID" => w.paid = Due)
  BY <1>2, <1>3, <1>5, <1>6
<1> QED  BY <1>9 DEF w

\* The money of a plan on which no request has written over another's.
Money ==
  /\ \A p \in Payments : SoundPayment(payment[p])
  /\ PaidInFull(rows)
  /\ MoneyNeverLost
  /\ PrincipalPaid(rows) + plan.credit <= Net

MoneyUnlessClashed == "money" \notin clashed => Money

\* Money holds at the start.
LEMMA MoneyInit == Init => Money
<1> SUFFICES ASSUME Init PROVE Money  OBVIOUS
<1>0. Typed  BY TypedInit
<1>2. \A p \in Payments : SoundPayment(payment[p])  BY DEF Init, Unused, SoundPayment
<1>4. PaidInFull(rows)  BY DEF Init, PaidInFull
<1>5. rows \in [1..N -> PlanRow] /\ plan.credit = 0
  <2>1. rows \in Plans  BY <1>0, PlanParts
  <2> QED  BY <2>1, PlansAreRows DEF Init
<1>6. PrincipalPaid(rows) = N * 0
  <2>1. \A n \in 1..N : rows[n].paid = 0  BY Parameters DEF Init
  <2>2. 0 \in Nat  OBVIOUS
  <2> QED  BY <1>5, <2>1, <2>2, EquallyPaid, Zenon
<1>7. FeesPaid(rows) \in Nat  BY <1>5, PaidSums
<1>8. Standing = 0 /\ Net \in Nat
  <2>1. CountedAll(payment) = [p \in Payments |-> 0]  BY DEF Init, CountedAll, Counted, Unused
  <2>2. SumFunction([p \in Payments |-> 0]) = Cardinality(Payments) * 0
    <3>1. 0 \in Int /\ IsFiniteSet(Payments)  BY Parameters
    <3> QED  BY <3>1, SumOfEqual, Zenon
  <2>3. Cardinality(Payments) \in Nat  BY Parameters, FS_CardinalityType
  <2>4. Standing = 0  BY <2>1, <2>2, <2>3, StandingIsSum
  <2>5. Net \in Nat  BY <1>0, PlanParts, PaymentSums DEF Net
  <2> QED  BY <2>4, <2>5
<1>9. MoneyNeverLost  BY <1>5, <1>6, <1>7, <1>8, Parameters DEF MoneyNeverLost
<1>10. PrincipalPaid(rows) + plan.credit <= Net  BY <1>5, <1>6, <1>8, Parameters
<1> QED  BY <1>2, <1>4, <1>9, <1>10 DEF Money

\* The plan's sums are numbers.
LEMMA PlanSums ==
  ASSUME Typed
  PROVE  /\ PrincipalPaid(rows) \in Nat /\ FeesPaid(rows) \in Nat
         /\ Standing \in Nat /\ Net \in Nat /\ Net <= Standing /\ plan.credit \in Nat
<1>1. rows \in [1..N -> PlanRow] /\ payment \in [Payments -> PaymentRecords] /\ plan.credit \in Nat
  BY PlanParts, PlansAreRows
<1> QED  BY <1>1, PaidSums, PaymentSums, StandingIsSum DEF Net

\* What leaves the payments, the credit and the money on the rows alone.
LEMMA MoneyUnmoved ==
  ASSUME Typed, Typed', Money, UNCHANGED payment, plan'.credit = plan.credit,
         SameMoney(rows', rows), PaidInFull(rows')
  PROVE  Money'
<1>1. DOMAIN rows = Rows /\ DOMAIN rows' = Rows  BY PlanParts, PlansAreRows DEF Typed
<1>2. PrincipalPaid(rows') = PrincipalPaid(rows) /\ FeesPaid(rows') = FeesPaid(rows)
  BY <1>1, SameMoneySameSums
<1>3. \A p \in Payments : SoundPayment(payment'[p])  BY DEF Money
<1>5. Standing' = Standing /\ Net' = Net  BY DEF Standing, Net
<1>6. MoneyNeverLost'  BY <1>2, <1>5 DEF MoneyNeverLost, Money
<1>7. PrincipalPaid(rows') + plan'.credit <= Net'  BY <1>2, <1>5 DEF Money
<1> QED  BY <1>3, <1>6, <1>7 DEF Money

\* Rows carry the money they carry.
LEMMA SameMoneyItself == \A rs : SameMoney(rs, rs)
BY DEF SameMoney

\* A payment whose effect is yet to come, seen as it is: it counts for nothing.
LEMMA UnappliedSays ==
  ASSUME NEW x \in PaymentRecords, NEW y \in PaymentRecords, SoundPayment(y), SamePayment(x, y), Unapplied(x)
  PROVE  /\ y.status \in {"NONE", "PENDING"} /\ y.fee = 0 /\ ~y.reversed
         /\ x.fee = 0 /\ ~x.reversed
         /\ y.status # "NONE" => y.amount = x.amount
<1>1. y.status \in {"NONE", "PENDING", "VERIFIED", "FAILED", "REFUNDED"}  BY PaymentParts
<1> QED  BY <1>1 DEF SoundPayment, SamePayment, Unapplied

\* The arithmetic of a payment applied: what is no late fee is principal or credit.
LEMMA PaymentArithmetic ==
  ASSUME NEW P \in Nat, NEW F \in Nat, NEW C \in Nat, NEW P2 \in Nat, NEW F2 \in Nat,
         NEW left \in Nat, NEW fees \in Nat, NEW amount \in Nat,
         P2 + F2 + left = P + F + (amount + C), F2 = F + fees
  PROVE  P2 + left = (P + C) + (amount - fees)
OBVIOUS

\* applyPaymentEffect keeps Money, if it saw the money it writes over.
LEMMA MoneyApplied ==
  ASSUME Typed, Typed', Money, NEW t \in Tellers, Apply(t), MoneyAsSeen(teller[t]), Unapplied(teller[t].new)
  PROVE  Money'
<1> DEFINE job == teller[t]
           p == job.payment
           spread == Spread(job)
           new == spread.rows
           after == Written(job.rows, new)
           x == IF payment[p].status = "NONE" THEN job.new ELSE payment[p]
           y == Verified(x, spread.fees)
           status == PlanStatus(after)
           amount == job.new.amount
<1>1. job \in Requests /\ Computing(job) /\ job.pc = "apply"  BY PlanParts DEF Apply, Computing
<1>2. p \in Payments /\ job.rows \in Plans /\ job.credit \in Nat /\ job.new \in PaymentRecords /\ amount \in Nat
  BY <1>1, JobParts, PaymentParts, ZenonT(60)
<1>3. /\ rows' = after /\ plan'.credit = spread.left
      /\ payment' = [payment EXCEPT ![p] = Verified(IF @.status = "NONE" THEN job.new ELSE @, spread.fees)]
  BY DEF Apply, Spread
<1>4. /\ new \in [1..N -> PlanRow] /\ spread.left \in Nat /\ spread.fees \in Nat
      /\ \A n \in Rows : PaidInto(job.rows[n], new[n])
      /\ PrincipalPaid(new) + FeesPaid(new) + spread.left
           = PrincipalPaid(job.rows) + FeesPaid(job.rows) + (amount + job.credit)
      /\ FeesPaid(new) = FeesPaid(job.rows) + spread.fees
  BY <1>1, PaymentSpreads
<1>5. /\ payment[p].status \in {"NONE", "PENDING"}
      /\ SameMoney(job.rows, rows) /\ job.credit = plan.credit
  <2>1. SamePayment(job.new, payment[p]) /\ SoundPayment(payment[p]) /\ payment[p] \in PaymentRecords
    BY <1>2, PlanParts DEF Money, MoneyAsSeen
  <2>2. payment[p].status \in {"NONE", "PENDING"}  BY <2>1, <1>2, UnappliedSays
  <2> QED  BY <2>2 DEF MoneyAsSeen
<1>6. x \in PaymentRecords /\ x.amount = amount /\ x.fee = 0 /\ ~x.reversed
  <2>1. SamePayment(job.new, payment[p]) /\ SoundPayment(payment[p]) /\ payment[p] \in PaymentRecords
    BY <1>2, PlanParts DEF Money, MoneyAsSeen
  <2>2. /\ payment[p].fee = 0 /\ ~payment[p].reversed /\ job.new.fee = 0 /\ ~job.new.reversed
        /\ payment[p].status # "NONE" => payment[p].amount = job.new.amount
    BY <2>1, <1>2, UnappliedSays
  <2> QED  BY <2>1, <2>2, <1>2
<1>7. payment[p] \in PaymentRecords /\ payment' = [payment EXCEPT ![p] = y]  BY <1>2, <1>3, PlanParts
<1>b. \A q \in Payments : SoundPayment(payment[q])  BY DEF Money
<1>c. /\ SameMoney(after, new) /\ PaidInFull(after)
  <2>1. PaidInFull(rows) /\ rows \in Plans  BY PlanParts DEF Money
  <2> HIDE DEF new, job
  <2> QED  BY <2>1, <1>2, <1>4, <1>5, PaymentWrites
<1>d. after \in Plans  BY <1>3, PlanParts DEF Typed
<1> HIDE DEF x, after, new, spread
<1>8. /\ y \in PaymentRecords /\ y.status = "VERIFIED" /\ ~y.reversed /\ y.amount = amount
      /\ y.fee = spread.fees
  <2>1. x \in PaymentRecords  BY <1>6
  <2>2. y.fee = IF spread.fees > 0 THEN spread.fees ELSE x.fee  BY <2>1, <1>4, VerifiedSays
  <2>3. y \in PaymentRecords /\ y.status = "VERIFIED" /\ y.reversed = x.reversed /\ y.amount = x.amount
    BY <2>1, <1>4, VerifiedSays
  <2>4. y.fee = spread.fees  BY <2>2, <1>4, <1>6
  <2> QED  BY <2>3, <2>4, <1>6
<1> HIDE DEF y
<1>9. \A q \in Payments : SoundPayment(payment'[q])
  <2>1. SoundPayment(y)  BY <1>8 DEF SoundPayment
  <2>2. \A q \in Payments : payment'[q] = IF q = p THEN y ELSE payment[q]  BY <1>7, PlanParts
  <2> QED  BY <2>1, <2>2, <1>b
<1>11. /\ Standing' = Standing + amount
       /\ Net' = Net + Netted(y)
       /\ Netted(y) = IF amount > spread.fees THEN amount - spread.fees ELSE 0
  <2>1. Counted(y) = amount /\ Counted(payment[p]) = 0 /\ Netted(payment[p]) = 0
    BY <1>5, <1>8 DEF Counted, Netted
  <2>2. Netted(y) = IF amount > spread.fees THEN amount - spread.fees ELSE 0  BY <1>8 DEF Netted
  <2>3. payment \in [Payments -> PaymentRecords]  BY PlanParts
  <2>4. /\ SumFunction(CountedAll(payment')) = SumFunction(CountedAll(payment)) + Counted(y) - Counted(payment[p])
        /\ SumFunction(NettedAll(payment')) = SumFunction(NettedAll(payment)) + Netted(y) - Netted(payment[p])
    BY <2>3, <1>2, <1>7, <1>8, PaymentMoves
  <2>5. Standing' = SumFunction(CountedAll(payment'))  BY DEF Standing, CountedAll, Counted
  <2>6. Net' = SumFunction(NettedAll(payment'))  BY DEF Net
  <2>7. Standing \in Nat /\ Net \in Nat /\ Netted(y) \in Nat  BY <1>8, PlanSums, PaymentCounts
  <2> QED  BY <2>1, <2>2, <2>4, <2>5, <2>6, <2>7, <1>2, StandingIsSum DEF Net
<1>12. PrincipalPaid(rows') = PrincipalPaid(new) /\ FeesPaid(rows') = FeesPaid(new)
  <2>1. DOMAIN after = Rows /\ DOMAIN new = Rows  BY <1>4, <1>d, PlansAreRows, Parameters
  <2> QED  BY <2>1, <1>3, <1>c, SameMoneySameSums
<1>13. PrincipalPaid(job.rows) = PrincipalPaid(rows) /\ FeesPaid(job.rows) = FeesPaid(rows)
  <2>1. DOMAIN job.rows = Rows /\ DOMAIN rows = Rows  BY <1>2, PlanParts, PlansAreRows
  <2> QED  BY <2>1, <1>5, SameMoneySameSums
<1>14. PrincipalPaid(new) \in Nat /\ FeesPaid(new) \in Nat  BY <1>4, PaidSums
<1>15. /\ PrincipalPaid(rows) \in Nat /\ FeesPaid(rows) \in Nat
       /\ Standing \in Nat /\ Net \in Nat /\ plan.credit \in Nat
  BY PlanSums
<1>16. /\ Standing <= PrincipalPaid(rows) + FeesPaid(rows) + plan.credit
       /\ PrincipalPaid(rows) + plan.credit <= Net
  BY DEF Money, MoneyNeverLost
<1> HIDE DEF job, amount
<1>17. MoneyNeverLost'
  <2>1. Standing + amount <= PrincipalPaid(new) + FeesPaid(new) + spread.left
    BY <1>2, <1>4, <1>5, <1>13, <1>14, <1>15, <1>16, SMTT(40)
  <2> QED  BY <2>1, <1>3, <1>11, <1>12 DEF MoneyNeverLost
<1>18. PrincipalPaid(rows') + plan'.credit <= Net'
  <2>1. PrincipalPaid(new) + spread.left = (PrincipalPaid(rows) + plan.credit) + (amount - spread.fees)
    <3>1. PrincipalPaid(new) + FeesPaid(new) + spread.left
            = PrincipalPaid(rows) + FeesPaid(rows) + (amount + plan.credit)
      <4>1. PrincipalPaid(new) + FeesPaid(new) + spread.left
              = PrincipalPaid(job.rows) + FeesPaid(job.rows) + (amount + job.credit)
        BY <1>4
      <4>2. job.credit = plan.credit  BY <1>5
      <4> QED  BY <4>1, <4>2, <1>13
    <3>2. FeesPaid(new) = FeesPaid(rows) + spread.fees  BY <1>4, <1>13
    <3>3. spread.left \in Nat /\ spread.fees \in Nat  BY <1>4
    <3>4. amount \in Nat  BY <1>2
    <3> QED  BY <3>1, <3>2, <3>3, <3>4, <1>14, <1>15, PaymentArithmetic
  <2>2. amount - spread.fees <= Netted(y) /\ Netted(y) \in Nat /\ amount - spread.fees \in Int
    BY <1>2, <1>4, <1>11
  <2>3. PrincipalPaid(new) + spread.left <= Net + Netted(y)  BY <2>1, <2>2, <1>15, <1>16
  <2> QED  BY <2>3, <1>3, <1>11, <1>12
<1>19. PaidInFull(rows')  BY <1>3, <1>c
<1> QED  BY <1>9, <1>17, <1>18, <1>19, ZenonT(60) DEF Money

\* The arithmetic of a payment taken back.
LEMMA ReversalArithmetic ==
  ASSUME NEW P \in Nat, NEW F \in Nat, NEW C \in Nat, NEW S \in Nat, NEW M \in Nat,
         NEW P2 \in Nat, NEW F2 \in Nat, NEW left \in Nat, NEW fees \in Nat, NEW fee \in Nat,
         NEW amount \in Nat, NEW reclaimed \in Nat, NEW S2 \in Nat, NEW M2 \in Nat, NEW value \in Nat,
         reclaimed = IF C <= amount THEN C ELSE amount,
         (P + F) - P2 - F2 = (amount - reclaimed) - left,
         F - F2 = fee - fees, P2 <= P, F2 <= F, left = 0 \/ P2 = 0,
         S2 = S - amount, M2 = M - value,
         value = IF amount > fee THEN amount - fee ELSE 0,
         S <= P + F + C, P + C <= M
  PROVE  S2 <= P2 + F2 + (C - reclaimed) /\ P2 + (C - reclaimed) <= M2
<1>1. S2 <= P2 + F2 + (C - reclaimed)  OBVIOUS
<1>2. P2 + (C - reclaimed) <= M2
  <2>1. CASE left = 0
    <3>1. CASE amount > fee
      <4>1. P2 = P + fee - fees - amount + reclaimed  BY <2>1
      <4> QED  BY <4>1, <3>1
    <3>2. CASE amount <= fee
      <4>1. value = 0  BY <3>2
      <4> QED  BY <4>1
    <3> QED  BY <3>1, <3>2
  <2>2. CASE left # 0
    <3>1. P2 = 0 /\ left > 0  BY <2>2
    <3>2. amount - reclaimed >= left  OBVIOUS
    <3>3. reclaimed = C  BY <3>1, <3>2
    <3> QED  BY <3>1, <3>3
  <2> QED  BY <2>1, <2>2
<1> QED  BY <1>1, <1>2

\* reversePaymentEffect keeps Money, if it saw the money it writes over.
LEMMA MoneyTakenBack ==
  ASSUME Typed, Typed', Money, NEW t \in Tellers, TakeBackPayment(t), MoneyAsSeen(teller[t])
  PROVE  Money'
<1> DEFINE job == teller[t]
           p == job.payment
           new == Undone(job).rows
           left == Undone(job).left
           fees == Undone(job).fees
           after == TakenBack(job.rows, new)
           amount == job.new.amount
           fee == job.new.fee
           reclaimed == Min({job.credit, amount})
           y == [payment[p] EXCEPT !.status = "REFUNDED", !.reversed = TRUE]
<1>1. job \in Requests /\ Computing(job) /\ job.pc = "reverse" /\ job.new.status = "VERIFIED"
  BY PlanParts DEF TakeBackPayment, Computing
<1>2. /\ p \in Payments /\ job.rows \in Plans /\ job.credit \in Nat /\ job.new \in PaymentRecords
      /\ amount \in Nat /\ fee \in Nat
  BY <1>1, JobParts, PaymentParts
<1>3. /\ rows' = after
      /\ plan'.credit = IF reclaimed > 0 THEN CreditLeft(job.credit, amount) ELSE plan.credit
      /\ payment' = [payment EXCEPT ![p].status = "REFUNDED", ![p].reversed = TRUE]
  BY DEF TakeBackPayment, Undone
<1>4. /\ reclaimed \in Nat /\ reclaimed = IF job.credit <= amount THEN job.credit ELSE amount
      /\ CreditLeft(job.credit, amount) = job.credit - reclaimed
  BY <1>1, ReversalTakes DEF CreditLeft
<1>5. /\ new \in [1..N -> PlanRow] /\ left \in Nat /\ fees \in Nat
      /\ \A n \in Rows : TakenFrom(job.rows[n], new[n])
      /\ (PrincipalPaid(job.rows) + FeesPaid(job.rows)) - PrincipalPaid(new) - FeesPaid(new)
           = (amount - reclaimed) - left
      /\ FeesPaid(job.rows) - FeesPaid(new) = fee - fees
      /\ left = 0 \/ \A n \in Rows : new[n].paid = 0
  BY <1>1, ReversalTakes
<1>6. /\ payment[p].status = "VERIFIED" /\ payment[p].amount = amount /\ payment[p].fee = fee
      /\ SameMoney(job.rows, rows) /\ job.credit = plan.credit
  BY <1>1 DEF MoneyAsSeen, SamePayment
<1>7. payment[p] \in PaymentRecords /\ payment' = [payment EXCEPT ![p] = y]  BY <1>2, <1>3, PlanParts
<1>8. /\ y \in PaymentRecords /\ y.status = "REFUNDED" /\ y.reversed
  BY <1>7 DEF PaymentRecords
<1>b. \A q \in Payments : SoundPayment(payment[q])  BY DEF Money
<1>c. SameMoney(after, new) /\ PaidInFull(after)
  <2>1. PaidInFull(rows) /\ rows \in Plans  BY PlanParts DEF Money
  <2> HIDE DEF new, job
  <2> QED  BY <2>1, <1>2, <1>5, <1>6, ReversalWrites
<1>d. after \in Plans  BY <1>3, PlanParts DEF Typed
<1> HIDE DEF y, after, new, left, fees, reclaimed
<1>9. \A q \in Payments : SoundPayment(payment'[q])
  <2>1. SoundPayment(y)  BY <1>8 DEF SoundPayment
  <2>2. \A q \in Payments : payment'[q] = IF q = p THEN y ELSE payment[q]  BY <1>7, PlanParts
  <2> QED  BY <2>1, <2>2, <1>b
<1>11. /\ Standing' = Standing - amount
       /\ Net' = Net - Netted(payment[p]) /\ Netted(payment[p]) \in Nat
       /\ Netted(payment[p]) = IF amount > fee THEN amount - fee ELSE 0
       /\ Standing' \in Nat /\ Net' \in Nat
  <2>1. Counted(y) = 0 /\ Netted(y) = 0 /\ Counted(payment[p]) = amount
    BY <1>1, <1>6, <1>8 DEF Counted, Netted
  <2>2. Netted(payment[p]) = IF amount > fee THEN amount - fee ELSE 0  BY <1>1, <1>6 DEF Netted
  <2>3. payment \in [Payments -> PaymentRecords]  BY PlanParts
  <2>4. /\ SumFunction(CountedAll(payment')) = SumFunction(CountedAll(payment)) + Counted(y) - Counted(payment[p])
        /\ SumFunction(NettedAll(payment')) = SumFunction(NettedAll(payment)) + Netted(y) - Netted(payment[p])
    BY <2>3, <1>2, <1>7, <1>8, PaymentMoves
  <2>5. Standing' = SumFunction(CountedAll(payment'))  BY DEF Standing, CountedAll, Counted
  <2>6. Net' = SumFunction(NettedAll(payment'))  BY DEF Net
  <2>7. Standing \in Nat /\ Net \in Nat /\ Netted(payment[p]) \in Nat  BY <1>7, PlanSums, PaymentCounts
  <2>8. payment' \in [Payments -> PaymentRecords]  BY DEF Typed
  <2>9. Standing' \in Nat /\ Net' \in Nat  BY <2>5, <2>6, <2>8, PaymentSums
  <2>10. Standing' = Standing - amount  BY <2>1, <2>4, <2>5, <2>7, <1>2, StandingIsSum
  <2>11. Net' = Net - Netted(payment[p])  BY <2>1, <2>4, <2>6, <2>7 DEF Net
  <2> QED  BY <2>2, <2>7, <2>9, <2>10, <2>11
<1>12. PrincipalPaid(rows') = PrincipalPaid(new) /\ FeesPaid(rows') = FeesPaid(new)
  <2>1. DOMAIN after = Rows /\ DOMAIN new = Rows  BY <1>5, <1>d, PlansAreRows, Parameters
  <2> QED  BY <2>1, <1>3, <1>c, SameMoneySameSums
<1>13. PrincipalPaid(job.rows) = PrincipalPaid(rows) /\ FeesPaid(job.rows) = FeesPaid(rows)
  <2>1. DOMAIN job.rows = Rows /\ DOMAIN rows = Rows  BY <1>2, PlanParts, PlansAreRows
  <2> QED  BY <2>1, <1>6, SameMoneySameSums
<1>14. PrincipalPaid(new) \in Nat /\ FeesPaid(new) \in Nat  BY <1>5, PaidSums
<1>15. /\ PrincipalPaid(rows) \in Nat /\ FeesPaid(rows) \in Nat
       /\ Standing \in Nat /\ Net \in Nat /\ plan.credit \in Nat
  BY PlanSums
<1>16. /\ Standing <= PrincipalPaid(rows) + FeesPaid(rows) + plan.credit
       /\ PrincipalPaid(rows) + plan.credit <= Net
  BY DEF Money, MoneyNeverLost
<1>17. /\ PrincipalPaid(new) <= PrincipalPaid(rows)
       /\ FeesPaid(new) <= FeesPaid(rows)
       /\ left = 0 \/ PrincipalPaid(new) = 0
  <2>1. job.rows \in [1..N -> PlanRow]  BY <1>2, PlansAreRows
  <2>2. \A n \in 1..N : new[n].paid <= job.rows[n].paid  BY <1>5, Parameters DEF TakenFrom
  <2>3. PrincipalPaid(new) <= PrincipalPaid(job.rows)  BY <2>1, <2>2, <1>5, LessPaid
  <2>4. \A n \in 1..N : new[n].feePaid <= job.rows[n].feePaid  BY <1>5, Parameters DEF TakenFrom
  <2>5. FeesPaid(new) <= FeesPaid(job.rows)  BY <2>1, <2>4, <1>5, LessFeePaid
  <2>6. ASSUME left # 0 PROVE PrincipalPaid(new) = 0
    <3>1. \A n \in 1..N : new[n].paid = 0  BY <2>6, <1>5, Parameters
    <3>2. 0 \in Nat  OBVIOUS
    <3>3. PrincipalPaid(new) = N * 0  BY <3>1, <3>2, <1>5, EquallyPaid, Zenon
    <3> QED  BY <3>3, Parameters
  <2> QED  BY <2>3, <2>5, <2>6, <1>13
<1>18. plan'.credit = plan.credit - reclaimed
  BY <1>3, <1>4, <1>6, <1>15
<1>b1. (PrincipalPaid(rows) + FeesPaid(rows)) - PrincipalPaid(new) - FeesPaid(new)
         = (amount - reclaimed) - left
  BY <1>5, <1>13
<1>b2. FeesPaid(rows) - FeesPaid(new) = fee - fees  BY <1>5, <1>13
<1>b3. reclaimed \in Nat /\ reclaimed = IF plan.credit <= amount THEN plan.credit ELSE amount
  BY <1>4, <1>6
<1>b4. left \in Nat /\ fees \in Nat  BY <1>5
<1> HIDE DEF job, amount, fee
<1>19. /\ Standing' <= PrincipalPaid(new) + FeesPaid(new) + (plan.credit - reclaimed)
       /\ PrincipalPaid(new) + (plan.credit - reclaimed) <= Net'
  BY <1>2, <1>b1, <1>b2, <1>b3, <1>b4, <1>11, <1>14, <1>15, <1>16, <1>17, ReversalArithmetic
<1>20. MoneyNeverLost'  BY <1>12, <1>18, <1>19 DEF MoneyNeverLost
<1>21. PrincipalPaid(rows') + plan'.credit <= Net'  BY <1>12, <1>18, <1>19
<1>22. PaidInFull(rows')  BY <1>3, <1>c
<1> QED  BY <1>9, <1>20, <1>21, <1>22 DEF Money

\* Cancelling a payment that was never verified keeps Money.
LEMMA MoneyCancelled ==
  ASSUME Typed, Typed', Money, NEW t \in Tellers, CancelUnverified(t),
         SamePayment(teller[t].new, payment[teller[t].payment])
  PROVE  Money'
<1> DEFINE job == teller[t]
           p == job.payment
           y == [payment[p] EXCEPT !.status = "FAILED", !.reversed = TRUE]
<1>1. job \in Requests /\ Computing(job) /\ job.pc = "reverse" /\ job.new.status # "VERIFIED"
  BY PlanParts DEF CancelUnverified, Computing
<1>2. p \in Payments  BY <1>1, JobParts
<1>3. /\ payment' = [payment EXCEPT ![p].status = "FAILED", ![p].reversed = TRUE]
      /\ UNCHANGED <<rows, plan>>
  BY DEF CancelUnverified
<1>6. payment[p].status # "VERIFIED"  BY <1>1 DEF SamePayment
<1>7. payment[p] \in PaymentRecords /\ payment' = [payment EXCEPT ![p] = y]  BY <1>2, <1>3, PlanParts
<1>8. y \in PaymentRecords /\ y.status = "FAILED" /\ y.reversed  BY <1>7 DEF PaymentRecords
<1>b. \A q \in Payments : SoundPayment(payment[q])  BY DEF Money
<1> HIDE DEF y
<1>9. \A q \in Payments : SoundPayment(payment'[q])
  <2>1. SoundPayment(y)  BY <1>8 DEF SoundPayment
  <2>2. \A q \in Payments : payment'[q] = IF q = p THEN y ELSE payment[q]  BY <1>7, PlanParts
  <2> QED  BY <2>1, <2>2, <1>b
<1>11. Standing' = Standing /\ Net' = Net
  <2>1. Counted(y) = 0 /\ Netted(y) = 0 /\ Counted(payment[p]) = 0 /\ Netted(payment[p]) = 0
    BY <1>1, <1>6, <1>8 DEF Counted, Netted
  <2>3. payment \in [Payments -> PaymentRecords]  BY PlanParts
  <2>4. /\ SumFunction(CountedAll(payment')) = SumFunction(CountedAll(payment)) + Counted(y) - Counted(payment[p])
        /\ SumFunction(NettedAll(payment')) = SumFunction(NettedAll(payment)) + Netted(y) - Netted(payment[p])
    BY <2>3, <1>2, <1>7, <1>8, PaymentMoves
  <2>5. Standing' = SumFunction(CountedAll(payment'))  BY DEF Standing, CountedAll, Counted
  <2>6. Net' = SumFunction(NettedAll(payment'))  BY DEF Net
  <2>7. Standing \in Nat /\ Net \in Nat  BY PlanSums
  <2>8. Standing = SumFunction(CountedAll(payment)) /\ Net = SumFunction(NettedAll(payment))
    BY StandingIsSum DEF Net
  <2> QED  BY <2>1, <2>4, <2>5, <2>6, <2>7, <2>8
<1>12. MoneyNeverLost'  BY <1>3, <1>11 DEF Money, MoneyNeverLost
<1>13. PrincipalPaid(rows') + plan'.credit <= Net'  BY <1>3, <1>11 DEF Money
<1> QED  BY <1>3, <1>9, <1>12, <1>13 DEF Money

\* Submitting a payment keeps Money.
LEMMA MoneySubmitted ==
  ASSUME Typed, Typed', Money, NEW p \in Payments, NEW amount \in Amounts, NEW target \in Targets,
         Submit(p, amount, target)
  PROVE  Money'
<1> DEFINE y == [Unused EXCEPT !.status = "PENDING", !.amount = amount, !.target = target]
<1>1. y \in PaymentRecords /\ y.status = "PENDING" /\ ~y.reversed /\ y.fee = 0
  BY SubmittedTyped DEF Unused
<1>2. /\ payment' = [payment EXCEPT ![p] = y] /\ payment[p].status = "NONE"
      /\ UNCHANGED <<rows, plan>>
  BY DEF Submit
<1> HIDE DEF y
<1>3. payment[p] \in PaymentRecords  BY PlanParts
<1>4. \A q \in Payments : payment'[q] = IF q = p THEN y ELSE payment[q]  BY <1>2, PlanParts
<1>5. \A q \in Payments : SoundPayment(payment'[q])
  BY <1>1, <1>4 DEF SoundPayment, Money
<1>7. Standing' = Standing /\ Net' = Net
  <2>1. Counted(y) = 0 /\ Netted(y) = 0 /\ Counted(payment[p]) = 0 /\ Netted(payment[p]) = 0
    BY <1>1, <1>2 DEF Counted, Netted
  <2>3. payment \in [Payments -> PaymentRecords]  BY PlanParts
  <2>4. /\ SumFunction(CountedAll(payment')) = SumFunction(CountedAll(payment)) + Counted(y) - Counted(payment[p])
        /\ SumFunction(NettedAll(payment')) = SumFunction(NettedAll(payment)) + Netted(y) - Netted(payment[p])
    BY <2>3, <1>1, <1>2, PaymentMoves
  <2>5. Standing' = SumFunction(CountedAll(payment'))  BY DEF Standing, CountedAll, Counted
  <2>6. Net' = SumFunction(NettedAll(payment'))  BY DEF Net
  <2>7. Standing \in Nat /\ Net \in Nat  BY PlanSums
  <2>8. Standing = SumFunction(CountedAll(payment)) /\ Net = SumFunction(NettedAll(payment))
    BY StandingIsSum DEF Net
  <2> QED  BY <2>1, <2>4, <2>5, <2>6, <2>7, <2>8
<1>8. MoneyNeverLost'  BY <1>2, <1>7 DEF Money, MoneyNeverLost
<1>9. PrincipalPaid(rows') + plan'.credit <= Net'  BY <1>2, <1>7 DEF Money
<1> QED  BY <1>2, <1>5, <1>8, <1>9 DEF Money

\* Every step of a counter keeps Money, if it writes over no money it has not seen.
LEMMA MoneyCounter ==
  ASSUME Typed, Typed', Money, NEW t \in Tellers, Counter(t), "money" \notin clashed'
  PROVE  Money'
<1>c. PaidInFull(rows) /\ rows \in Plans  BY PlanParts DEF Money
<1>d. teller[t] \in Requests  BY PlanParts
<1>2. ASSUME UNCHANGED <<rows, payment, plan>> PROVE Money'
  BY <1>2, <1>c, SameMoneyItself, MoneyUnmoved
<1>4. ASSUME NEW p \in Payments, NEW amount \in Amounts, NEW target \in Targets,
             RecordRead(t, p, amount, target)
      PROVE  Money'
  BY <1>2, <1>4 DEF RecordRead
<1>5. ASSUME NEW p \in Payments, VerifyFind(t, p) PROVE Money'  BY <1>2, <1>5 DEF VerifyFind
<1>6. ASSUME NEW p \in Payments, ReverseFind(t, p) PROVE Money'  BY <1>2, <1>6 DEF ReverseFind
<1>7. ASSUME NEW n \in Rows, WaiveFind(t, n) PROVE Money'  BY <1>2, <1>7 DEF WaiveFind
<1>8. CASE VerifyRead(t)  BY <1>2, <1>8 DEF VerifyRead
<1>9. CASE Apply(t)
  <2>1. MoneyAsSeen(teller[t]) /\ Unapplied(teller[t].new)  BY <1>9 DEF Apply, Clash
  <2> QED  BY <2>1, <1>9, MoneyApplied
<1>10. CASE Unlock(t)  BY <1>2, <1>10 DEF Unlock
<1>11. CASE ClearFlag(t)  BY <1>2, <1>11 DEF ClearFlag
<1>12. CASE CancelUnverified(t)
  <2>1. SamePayment(teller[t].new, payment[teller[t].payment])  BY <1>12 DEF CancelUnverified, Clash
  <2> QED  BY <2>1, <1>12, MoneyCancelled
<1>13. CASE TakeBackPayment(t)
  <2>1. MoneyAsSeen(teller[t])  BY <1>13 DEF TakeBackPayment, Clash
  <2> QED  BY <2>1, <1>13, MoneyTakenBack
<1>14. CASE Waive(t)
  <2> DEFINE n == teller[t].row
             v == teller[t].feePaid
  <2>1. n \in Rows  BY <1>14, <1>d, JobParts DEF Waive
  <2>2. /\ rows' = [rows EXCEPT ![n].fee = v, ![n].waived = TRUE]
        /\ UNCHANGED payment /\ plan'.credit = plan.credit
    <3>1. plan \in [status: PlanStatuses, credit: Nat, fees: Nat]  BY PlanParts
    <3> QED  BY <3>1, <1>14 DEF Waive, WaivedFee
  <2> HIDE DEF n, v
  <2>3. SameMoney(rows', rows) /\ PaidInFull(rows')  BY <2>1, <2>2, <1>c, OneRowSameMoney, OneRowPaidInFull
  <2> QED  BY <2>2, <2>3, MoneyUnmoved
<1>15. CASE GiveUp(t)  BY <1>2, <1>15 DEF GiveUp
<1> QED  BY <1>4, <1>5, <1>6, <1>7, <1>8, <1>9, <1>10, <1>11, <1>12, <1>13, <1>14, <1>15 DEF Counter

\* Every step of the nightly run keeps Money.
LEMMA MoneyNight ==
  ASSUME Typed, Typed', Money, Engine
  PROVE  Money'
<1>c. PaidInFull(rows) /\ rows \in Plans /\ plan \in [status: PlanStatuses, credit: Nat, fees: Nat]
  BY PlanParts DEF Money
<1>1. ASSUME UNCHANGED payment, plan'.credit = plan.credit, SameMoney(rows', rows), PaidInFull(rows')
      PROVE  Money'
  BY <1>1, MoneyUnmoved
<1>2. ASSUME UNCHANGED <<rows, plan, payment>> PROVE Money'
  BY <1>1, <1>2, <1>c, SameMoneyItself
<1>3. ASSUME NEW autoLock \in BOOLEAN, EngineStart(autoLock) PROVE Money'  BY <1>2, <1>3 DEF EngineStart
<1>4. CASE EngineSkip  BY <1>2, <1>4 DEF EngineSkip
<1>5. CASE EngineCharge
  <2> DEFINE n == engine.row
             owed == LateFee(Seen, DaysLate(n, engine.day), Rate, Cap)
  <2>1. n \in Rows /\ (rows' = rows \/ rows' = [rows EXCEPT ![n].fee = owed]) /\ UNCHANGED <<payment, plan>>
    BY <1>5 DEF EngineCharge
  <2> HIDE DEF owed, n
  <2>3. SameMoney(rows, rows) /\ PaidInFull(rows)  BY <1>c, SameMoneyItself
  <2>4. SameMoney([rows EXCEPT ![n].fee = owed], rows)  BY <2>1, <1>c, OneRowSameMoney
  <2>5. PaidInFull([rows EXCEPT ![n].fee = owed])  BY <2>1, <1>c, OneRowPaidInFull
  <2>2. SameMoney(rows', rows) /\ PaidInFull(rows')  BY <2>1, <2>3, <2>4, <2>5
  <2> QED  BY <2>1, <2>2, <1>1
<1>6. CASE EngineMarkOverdue
  <2>1. /\ engine.row \in Rows /\ rows' = [rows EXCEPT ![engine.row].status = "OVERDUE"]
        /\ UNCHANGED <<plan, payment>>
    BY <1>6, PlanParts DEF EngineMarkOverdue
  <2>2. SameMoney(rows', rows) /\ PaidInFull(rows')
    BY <2>1, <1>c, OneRowSameMoney, OneRowPaidInFull
  <2> QED  BY <2>1, <2>2, <1>1
<1>7. CASE EngineRemind
  <2> DEFINE s == CHOOSE s \in Reminder : TRUE
  <2>1. engine.row \in Rows /\ UNCHANGED <<payment, plan>>  BY <1>7, PlanParts DEF EngineRemind
  <2>2. rows' = IF Reminder = {} THEN rows ELSE [rows EXCEPT ![engine.row].status = s]
    BY <1>7 DEF EngineRemind
  <2>3. Reminder # {} => s # "PAID"
    <3>1. Reminder # {} => s \in Reminder  OBVIOUS
    <3> QED  BY <3>1, ReminderIsStatus
  <2> HIDE DEF s
  <2>4. SameMoney(rows', rows) /\ PaidInFull(rows')
    BY <2>1, <2>2, <2>3, <1>c, SameMoneyItself, OneRowSameMoney, OneRowPaidInFull
  <2> QED  BY <2>1, <2>4, <1>1
<1>8. CASE EngineEnforce  BY <1>2, <1>8 DEF EngineEnforce
<1>9. CASE EngineEnd
  <2>1. plan'.credit = plan.credit /\ UNCHANGED <<rows, payment>>  BY <1>9, <1>c DEF EngineEnd
  <2> QED  BY <2>1, <1>1, <1>c, SameMoneyItself
<1>10. CASE EngineFails  BY <1>2, <1>10 DEF EngineFails
<1>11. CASE EngineMarkPlan
  <2>1. plan'.credit = plan.credit /\ UNCHANGED <<rows, payment>>  BY <1>11, <1>c DEF EngineMarkPlan
  <2> QED  BY <2>1, <1>1, <1>c, SameMoneyItself
<1>12. CASE EngineLockFails  BY <1>2, <1>12 DEF EngineLockFails
<1>13. CASE EngineRead  BY <1>2, <1>13 DEF EngineRead
<1> QED  BY <1>3, <1>4, <1>5, <1>6, <1>7, <1>8, <1>9, <1>10, <1>11, <1>12, <1>13 DEF Engine

\* What a request has written over stays written over.
LEMMA ClashesStay == [Next]_vars => clashed \subseteq clashed'
BY DEF Next, NewDay, Submit, Counter, RecordRead, VerifyFind, ReverseFind, WaiveFind, VerifyRead, Apply, Unlock,
       ClearFlag, CancelUnverified, TakeBackPayment, Waive, GiveUp, Engine, EngineRead, EngineStart, EngineSkip,
       EngineCharge, EngineMarkOverdue, EngineMarkPlan, EngineRemind, EngineEnforce, EngineLockFails,
       EngineEnd, EngineFails, vars

\* Every step keeps Money until a request writes over another's.
LEMMA MoneyStep ==
  ASSUME Typed, Typed', MoneyUnlessClashed, [Next]_vars
  PROVE  MoneyUnlessClashed'
<1> SUFFICES ASSUME "money" \notin clashed' PROVE Money'  BY DEF MoneyUnlessClashed
<1>a. Money  BY ClashesStay DEF MoneyUnlessClashed
<1>1. CASE NewDay
  BY <1>1, <1>a DEF NewDay, Money, MoneyNeverLost, Standing, Net
<1>2. ASSUME NEW p \in Payments, NEW amount \in Amounts, NEW target \in Targets, Submit(p, amount, target)
      PROVE  Money'
  BY <1>2, <1>a, MoneySubmitted
<1>3. ASSUME NEW t \in Tellers, Counter(t) PROVE Money'  BY <1>3, <1>a, MoneyCounter
<1>4. CASE Engine  BY <1>4, <1>a, MoneyNight
<1>5. CASE UNCHANGED vars
  BY <1>5, <1>a DEF vars, Money, MoneyNeverLost, Standing, Net
<1> QED  BY <1>1, <1>2, <1>3, <1>4, <1>5 DEF Next

\* Principal on the rows is money received.
LEMMA MoneyIsBacked == Typed /\ MoneyUnlessClashed => PrincipalBacked
BY PlanSums DEF MoneyUnlessClashed, Money, PrincipalBacked

\* A phone let go: the step completes the plan with every installment covered.
LEMMA ReleasedStep ==
  ASSUME Typed, Typed', Money', [Next]_vars, device' = "INACTIVE", device # "INACTIVE"
  PROVE  plan'.status = "COMPLETED" /\ Standing' >= N * Due
<1>1. PICK t \in Tellers : Apply(t)
  BY ZenonT(60) DEF Next, NewDay, Submit, Counter, RecordRead, VerifyFind, ReverseFind, WaiveFind, VerifyRead, Unlock,
         ClearFlag, CancelUnverified, TakeBackPayment, Waive, GiveUp, Engine, EngineRead, EngineStart,
         EngineSkip, EngineCharge, EngineMarkOverdue, EngineMarkPlan, EngineRemind, EngineEnforce, EngineLockFails,
         EngineEnd, EngineFails, vars
<1>2. PlanStatus(rows') = "COMPLETED" /\ plan'.status = PlanStatus(rows')
  BY <1>1 DEF Apply, Handover
<1>3. rows' \in Plans  BY DEF Typed
<1>4. \A n \in Rows : rows'[n].status = "PAID"  BY <1>2, <1>3, StatusSays
<1>5. \A n \in 1..N : rows'[n].paid = Due  BY <1>4, Parameters DEF Money, PaidInFull
<1>6. rows' \in [1..N -> PlanRow] /\ Due \in Nat  BY <1>3, PlansAreRows, Parameters
<1>7. PrincipalPaid(rows') = N * Due  BY <1>5, <1>6, EquallyPaid, Zenon
<1>8. PrincipalPaid(rows') + plan'.credit <= Net'  BY DEF Money
<1>9. Net' <= Standing' /\ Net' \in Nat /\ Standing' \in Nat
  <2>1. payment' \in [Payments -> PaymentRecords]  BY DEF Typed
  <2>2. Standing' = SumFunction(CountedAll(payment')) /\ Net' = SumFunction(NettedAll(payment'))
    BY DEF Standing, CountedAll, Counted, Net
  <2> QED  BY <2>1, <2>2, PaymentSums
<1>10. plan'.credit \in Nat /\ N * Due \in Nat  BY Parameters DEF Typed
<1> QED  BY <1>2, <1>7, <1>8, <1>9, <1>10, SMTT(40)

(* Whatever requests and nightly runs overlap and wherever they fail, until a request
   writes over money another has put on the plan: principal paid, fees paid and credit
   account for what the shop received.  (Past that they need not:
   MoneyNeverLost and its counterexample.) *)
THEOREM EveryRupeeKept == Spec => []MoneyKept
<1>1. Init => Typed /\ MoneyUnlessClashed  BY TypedInit, MoneyInit DEF MoneyUnlessClashed
<1>2. Typed /\ MoneyUnlessClashed /\ [Next]_vars => (Typed /\ MoneyUnlessClashed)'  BY TypedStep, MoneyStep
<1>3. MoneyUnlessClashed => MoneyKept  BY DEF MoneyUnlessClashed, Money, MoneyKept
<1> QED  BY <1>1, <1>2, <1>3, PTL DEF Spec

(* Under the same proviso: no installment shows principal no payment brought, and no
   credit is held that none did. *)
THEOREM PrincipalIsBacked == Spec => []PrincipalBacked
<1>1. Init => Typed /\ MoneyUnlessClashed  BY TypedInit, MoneyInit DEF MoneyUnlessClashed
<1>2. Typed /\ MoneyUnlessClashed /\ [Next]_vars => (Typed /\ MoneyUnlessClashed)'  BY TypedStep, MoneyStep
<1> QED  BY <1>1, <1>2, MoneyIsBacked, PTL DEF Spec

(* Under the same proviso: a phone is let go only in a step that completes a plan
   whose principal has been received in full. *)
THEOREM ReleasedWhenPaid == Spec => ReleasedOnlyWhenPaid
<1>1. Init => Typed /\ MoneyUnlessClashed  BY TypedInit, MoneyInit DEF MoneyUnlessClashed
<1>2. Typed /\ MoneyUnlessClashed /\ [Next]_vars => (Typed /\ MoneyUnlessClashed)'  BY TypedStep, MoneyStep
<1>3. Typed /\ Typed' /\ MoneyUnlessClashed' /\ [Next]_vars
        => [device' = "INACTIVE" /\ device # "INACTIVE" /\ "money" \notin clashed'
              => plan'.status = "COMPLETED" /\ Standing' >= N * Due]_vars
  BY ReleasedStep DEF MoneyUnlessClashed
<1> QED  BY <1>1, <1>2, <1>3, PTL DEF Spec, ReleasedOnlyWhenPaid

-----------------------------------------------------------------------------
(* PlanLedger: what the rows, the plan and the phone say of each other *)

RowsSettled == PaidIsSettled /\ NoFeeOverpaid

Released == plan.status = "COMPLETED" => device = "INACTIVE"

\* Credit is what is left when nothing is owed, and a payment's fee part is of it.
Owing ==
  /\ RowsSettled
  /\ \A p \in Payments : payment[p].fee <= payment[p].amount
  /\ plan.credit > 0 => \A n \in Rows : Outstanding(rows[n]) = 0

SomeOverdue(rs) == \E n \in Rows : rs[n].status = "OVERDUE"

\* A column is what the rows give, or something failed before it was written.
Derived ==
  /\ plan.status = PlanStatus(rows) \/ "status" \in missed \/ engine.pc = "plan"
  /\ "status" \in missed => SomeOverdue(rows)
  /\ plan.fees = OutstandingFees(rows) \/ "fees" \in missed \/ (engine # Asleep /\ engine.affected)

Held(status) == status \in {"LOCKED", "OVERDUE"}

\* Some request is about to let the phone go.
Letting(jobs) == \E t \in Tellers : jobs[t].pc \in {"unlock", "clear"}

\* A nightly run has read the plan and the phone.
AtWork(run) == run.pc \notin {"asleep", "read"}

\* The phone is restricted for an overdue row, or is about to be let go; and for
\* an overdue row it is restricted, or about to be.
Restraint ==
  /\ Released
  /\ AtWork(engine) => plan.status # "COMPLETED" /\ (device = "ACTIVE" => engine.device = "ACTIVE")
  /\ Held(device) => SomeOverdue(rows) \/ "lift" \in missed \/ Letting(teller)
  /\ SomeOverdue(rows) =>
       device # "ACTIVE" \/ "lock" \in missed \/ engine.pc \in {"plan", "enforce"}

\* What the nightly run has still to look at is as it read it.
Ahead ==
  /\ engine.pc = "read" => ~engine.affected
  /\ engine.pc \in {"read", "charge"} => \A n \in Rows : n >= engine.row => rows[n] = engine.rows[n]
  /\ engine.pc \in {"mark", "plan", "enforce"} =>
       \A n \in Rows : n > engine.row => rows[n] = engine.rows[n]
  /\ engine.pc = "mark" => Seen.status # "PAID" /\ rows[engine.row].status = Seen.status
  /\ engine.pc \in {"plan", "enforce"} => rows[engine.row].status = "OVERDUE"
  /\ engine.pc = "enforce" => plan.status = "OVERDUE"

Calm == Owing /\ Derived /\ Restraint /\ Ahead

CalmUnlessClashed == clashed = {} => Calm

\* Equal sums of values that nowhere rise are equal values.
LEMMA SumsMeet ==
  ASSUME NEW S, IsFiniteSet(S), NEW g \in [S -> Int], NEW h \in [S -> Int],
         \A x \in S : g[x] <= h[x], SumFunction(g) = SumFunction(h)
  PROVE  \A x \in S : g[x] = h[x]
<1> SUFFICES ASSUME NEW a \in S, g[a] # h[a] PROVE FALSE  OBVIOUS
<1> DEFINE k == [h EXCEPT ![a] = g[a]]
<1>1. k \in [S -> Int] /\ k[a] = g[a]  OBVIOUS
<1>2. SameBut(S, h, k, a)  BY DEF SameBut
<1>3. \A x \in S : g[x] <= k[x]  OBVIOUS
<1> HIDE DEF k
<1>4. SumFunction(k) = SumFunction(h) + k[a] - h[a]  BY <1>1, <1>2, SumMoves
<1>5. SumFunction(g) <= SumFunction(k)  BY <1>1, <1>3, SumUpTo
<1>6. SumFunction(h) \in Int /\ SumFunction(k) \in Int  BY <1>1, SumIsInt
<1>7. g[a] \in Int /\ h[a] \in Int /\ g[a] <= h[a]  OBVIOUS
<1> QED  BY <1>1, <1>4, <1>5, <1>6, <1>7

\* The same fees due on every row are the same in all.
LEMMA SameFeesDue ==
  ASSUME NEW a, NEW b, DOMAIN a = Rows, DOMAIN b = Rows, \A n \in Rows : FeeDue(a[n]) = FeeDue(b[n])
  PROVE  OutstandingFees(a) = OutstandingFees(b)
<1>1. [n \in DOMAIN a |-> FeeDue(a[n])] = [n \in DOMAIN b |-> FeeDue(b[n])]  OBVIOUS
<1> QED  BY <1>1 DEF OutstandingFees, Sum

\* What a plan's status depends on.
LEMMA SameStatus ==
  ASSUME NEW a \in Plans, NEW b \in Plans,
         \A n \in Rows : /\ a[n].status = "PAID" <=> b[n].status = "PAID"
                         /\ a[n].status = "OVERDUE" <=> b[n].status = "OVERDUE"
  PROVE  PlanStatus(a) = PlanStatus(b)
<1>1. PlanStatus(a) \in PlanStatuses /\ PlanStatus(b) \in PlanStatuses  BY StatusSays
<1>2. PlanStatus(a) = "COMPLETED" <=> PlanStatus(b) = "COMPLETED"
  <2>1. PlanStatus(a) = "COMPLETED" <=> \A n \in Rows : a[n].status = "PAID"  BY StatusSays
  <2>2. PlanStatus(b) = "COMPLETED" <=> \A n \in Rows : b[n].status = "PAID"  BY StatusSays
  <2> QED  BY <2>1, <2>2
<1>3. PlanStatus(a) = "OVERDUE" <=> PlanStatus(b) = "OVERDUE"
  <2>1. PlanStatus(a) = "OVERDUE" <=> \E n \in Rows : a[n].status = "OVERDUE"  BY StatusSays
  <2>2. PlanStatus(b) = "OVERDUE" <=> \E n \in Rows : b[n].status = "OVERDUE"  BY StatusSays
  <2> QED  BY <2>1, <2>2
<1> QED  BY <1>1, <1>2, <1>3 DEF PlanStatuses

\* Rows are equal when their columns are.
LEMMA RowEquality ==
  ASSUME NEW a \in PlanRow, NEW b \in PlanRow, a.due = b.due, a.paid = b.paid, a.fee = b.fee,
         a.feePaid = b.feePaid, a.status = b.status, a.waived = b.waived
  PROVE  a = b
BY DEF PlanRow

\* Nothing having changed since, the rows written are the rows computed.
LEMMA WrittenIsNew ==
  ASSUME rows \in Plans, NEW new \in [1..N -> PlanRow], \A n \in Rows : PaidInto(rows[n], new[n])
  PROVE  Written(rows, new) = new
<1>1. ASSUME NEW n \in Rows PROVE Written(rows, new)[n] = new[n]
  <2> DEFINE o == rows[n]
             w == new[n]
             st == IF Settled(w) THEN "PAID" ELSE o.status
             y == [o EXCEPT !.paid = w.paid, !.feePaid = w.feePaid, !.status = st]
  <2>1. o \in SoundRow /\ o \in PlanRow /\ w \in PlanRow  BY Parameters, RowParts DEF Plans
  <2>2. Written(rows, new)[n] = IF w = o THEN o ELSE y
    <3>1. y = [o EXCEPT !.paid = w.paid, !.feePaid = w.feePaid, !.status = IF Settled(w) THEN "PAID" ELSE @]
      BY <2>1 DEF SoundRow
    <3> QED  BY <3>1 DEF Written
  <2>3. ASSUME w # o PROVE y = w
    <3>1. /\ w.due = o.due /\ w.fee = o.fee /\ w.waived = o.waived /\ w.status = st
      BY <2>3 DEF PaidInto
    <3>2. w.paid \in Nat /\ w.feePaid \in Nat /\ w.status \in RowStatuses  BY <2>1 DEF PlanRow
    <3> HIDE DEF st
    <3>3. y \in PlanRow /\ y.due = o.due /\ y.paid = w.paid /\ y.fee = o.fee /\ y.feePaid = w.feePaid
          /\ y.status = st /\ y.waived = o.waived
      BY <2>1, <3>1, <3>2 DEF PlanRow
    <3> HIDE DEF y
    <3> QED  BY <2>1, <3>1, <3>3, RowEquality
  <2> QED  BY <2>2, <2>3
<1>2. DOMAIN Written(rows, new) = 1..N /\ Written(rows, new) = [n \in Rows |-> Written(rows, new)[n]]
  BY Parameters DEF Written
<1>3. new = [n \in Rows |-> new[n]]  BY Parameters
<1> QED  BY <1>1, <1>2, <1>3

\* So are the rows a reversal writes.
LEMMA TakenBackIsNew ==
  ASSUME rows \in Plans, NEW new \in [1..N -> PlanRow], \A n \in Rows : TakenFrom(rows[n], new[n])
  PROVE  TakenBack(rows, new) = new
<1>1. ASSUME NEW n \in Rows PROVE TakenBack(rows, new)[n] = new[n]
  <2> DEFINE o == rows[n]
             w == new[n]
             y == [o EXCEPT !.paid = w.paid, !.feePaid = w.feePaid, !.status = w.status]
  <2>1. o \in SoundRow /\ o \in PlanRow /\ w \in PlanRow  BY Parameters, RowParts DEF Plans
  <2>2. TakenBack(rows, new)[n] = IF w = o THEN o ELSE y  BY DEF TakenBack
  <2>3. ASSUME w # o PROVE y = w
    <3>1. w.due = o.due /\ w.fee = o.fee /\ w.waived = o.waived
      BY <2>3 DEF TakenFrom
    <3>2. w.paid \in Nat /\ w.feePaid \in Nat /\ w.status \in RowStatuses  BY <2>1 DEF PlanRow
    <3>3. y \in PlanRow /\ y.due = o.due /\ y.paid = w.paid /\ y.fee = o.fee /\ y.feePaid = w.feePaid
          /\ y.status = w.status /\ y.waived = o.waived
      BY <2>1, <3>1, <3>2 DEF PlanRow
    <3> HIDE DEF y
    <3> QED  BY <2>1, <3>1, <3>3, RowEquality
  <2> QED  BY <2>2, <2>3
<1>2. TakenBack(rows, new) = [n \in Rows |-> TakenBack(rows, new)[n]]
  BY Parameters DEF TakenBack
<1>3. new = [n \in Rows |-> new[n]]  BY Parameters
<1> QED  BY <1>1, <1>2, <1>3

\* A row in order stays in order when money goes in or comes out.
InOrder(r) == (r.status = "PAID" => Outstanding(r) = 0) /\ r.feePaid <= r.fee

\* RowsSettled, row by row.
LEMMA OrderSays == RowsSettled <=> \A n \in Rows : InOrder(rows[n])
BY DEF RowsSettled, PaidIsSettled, NoFeeOverpaid, InOrder

\* Money goes in.
LEMMA PaidRowInOrder ==
  ASSUME NEW o \in PlanRow, NEW w \in PlanRow, PaidInto(o, w), InOrder(o)
  PROVE  InOrder(w)
<1>1. CASE w = o  BY <1>1
<1>2. CASE w # o
  <2>1. Outstanding(o) > 0 /\ w.status = IF Settled(w) THEN "PAID" ELSE o.status  BY <1>2 DEF PaidInto
  <2>2. Settled(w) <=> Outstanding(w) = 0  BY WhatIsOwed
  <2>3. o.status # "PAID"  BY <2>1, WhatIsOwed DEF InOrder
  <2>4. w.status = "PAID" => Outstanding(w) = 0  BY <2>1, <2>2, <2>3
  <2>5. w.feePaid <= w.fee
    <3>1. w.fee = o.fee /\ (w.feePaid = o.feePaid \/ w.feePaid <= w.fee)  BY DEF PaidInto
    <3> QED  BY <3>1 DEF InOrder
  <2> QED  BY <2>4, <2>5 DEF InOrder
<1> QED  BY <1>1, <1>2

\* Money comes out.
LEMMA TakenRowInOrder ==
  ASSUME NEW o \in PlanRow, NEW w \in PlanRow, TakenFrom(o, w), InOrder(o)
  PROVE  InOrder(w)
<1>1. CASE w = o  BY <1>1
<1>2. CASE w # o
  <2>1. w.status # "PAID" /\ w.fee = o.fee /\ w.feePaid <= o.feePaid  BY <1>2 DEF TakenFrom
  <2>2. o.fee \in Nat /\ o.feePaid \in Nat /\ w.feePaid \in Nat /\ o.feePaid <= o.fee
    BY WhatIsOwed DEF InOrder
  <2> QED  BY <2>1, <2>2 DEF InOrder
<1> QED  BY <1>1, <1>2

\* What a row owes depends on its four amounts.
LEMMA SameAmountsOwe ==
  ASSUME NEW a, NEW b, a.due = b.due, a.paid = b.paid, a.fee = b.fee, a.feePaid = b.feePaid
  PROVE  Outstanding(a) = Outstanding(b) /\ FeeDue(a) = FeeDue(b)
BY DEF Outstanding, FeeDue, PrincipalDue

\* Calm holds at the start.
LEMMA CalmInit == Init => Calm
<1> SUFFICES ASSUME Init PROVE Calm  OBVIOUS
<1>0. Typed  BY TypedInit
<1>1. engine = Asleep /\ engine.pc = "asleep" /\ \A t \in Tellers : teller[t] = Free  BY DEF Init, Asleep
<1>3. ASSUME NEW n \in Rows PROVE rows[n].status = "PENDING" /\ rows[n].feePaid = 0 /\ rows[n].fee = 0
  BY DEF Init
<1>4. Owing
  <2>1. RowsSettled  BY <1>3 DEF RowsSettled, PaidIsSettled, NoFeeOverpaid
  <2>2. \A p \in Payments : payment[p].fee <= payment[p].amount  BY DEF Init, Unused
  <2>3. plan.credit = 0  BY DEF Init
  <2> QED  BY <2>1, <2>2, <2>3 DEF Owing
<1>5. Derived
  <2>1. rows \in Plans  BY <1>0, PlanParts
  <2>2. 1 \in Rows  BY Parameters
  <2>3. PlanStatus(rows) = "CURRENT"
    <3>1. PlanStatus(rows) # "COMPLETED"  BY <2>1, <2>2, <1>3, StatusSays
    <3>2. PlanStatus(rows) # "OVERDUE"  BY <2>1, <1>3, StatusSays
    <3> QED  BY <2>1, <3>1, <3>2, StatusSays DEF PlanStatuses
  <2>4. OutstandingFees(rows) = 0
    <3>1. \A n \in Rows : FeeDue(rows[n]) = 0
      <4>1. ASSUME NEW n \in Rows PROVE FeeDue(rows[n]) = 0
        <5>1. rows[n] \in PlanRow  BY <2>1, PlansAreRows, Parameters
        <5> QED  BY <5>1, <1>3, WhatIsOwed
      <4> QED  BY <4>1
    <3>2. [n \in DOMAIN rows |-> FeeDue(rows[n])] = [n \in 1..N |-> 0]  BY <2>1, <3>1, PlansAreRows, Parameters
    <3>3. IsFiniteSet(1..N)
      <4>1. 1 \in Int /\ N \in Int  BY Parameters
      <4> QED  BY <4>1, FS_Interval
    <3>4. SumFunction([n \in 1..N |-> 0]) = Cardinality(1..N) * 0
      <4>1. 0 \in Int  OBVIOUS
      <4> QED  BY <4>1, <3>3, SumOfEqual, Zenon
    <3>5. Cardinality(1..N) \in Nat  BY <3>3, FS_CardinalityType
    <3>6. OutstandingFees(rows) = SumFunction([n \in DOMAIN rows |-> FeeDue(rows[n])])
      BY DEF OutstandingFees, Sum
    <3>7. OutstandingFees(rows) = Cardinality(1..N) * 0  BY <3>2, <3>4, <3>6, Zenon
    <3> QED  BY <3>5, <3>7
  <2>5. plan.status = "CURRENT" /\ plan.fees = 0  BY DEF Init
  <2>6. missed = {}  BY DEF Init
  <2> QED  BY <2>3, <2>4, <2>5, <2>6 DEF Derived
<1>6. Restraint
  <2>1. plan.status = "CURRENT" /\ device = "ACTIVE"  BY DEF Init
  <2>2. ~SomeOverdue(rows)  BY <1>3 DEF SomeOverdue
  <2> QED  BY <2>1, <2>2, <1>1 DEF Restraint, Released, Held, AtWork
<1>7. Ahead  BY <1>1 DEF Ahead
<1> QED  BY <1>4, <1>5, <1>6, <1>7 DEF Calm

\* What a request has to leave behind.
LEMMA CalmAfter ==
  ASSUME engine' = Asleep, Owing', Derived', Released',
         Held(device') => SomeOverdue(rows') \/ "lift" \in missed' \/ Letting(teller'),
         SomeOverdue(rows') => device' # "ACTIVE" \/ "lock" \in missed'
  PROVE  Calm'
<1>1. engine'.pc = "asleep"  BY DEF Asleep
<1>2. Restraint'  BY <1>1 DEF Restraint, AtWork, SomeOverdue, Held, Letting
<1>3. Ahead'  BY <1>1 DEF Ahead
<1> QED  BY <1>2, <1>3 DEF Calm

\* What Calm says while the nightly run sleeps.
LEMMA CalmIdle ==
  ASSUME Calm, engine = Asleep
  PROVE  /\ engine.pc = "asleep"
         /\ Held(device) => SomeOverdue(rows) \/ "lift" \in missed \/ Letting(teller)
         /\ SomeOverdue(rows) => device # "ACTIVE" \/ "lock" \in missed
         /\ plan.status = PlanStatus(rows) \/ "status" \in missed
         /\ "status" \in missed => SomeOverdue(rows)
         /\ plan.fees = OutstandingFees(rows) \/ "fees" \in missed
<1>1. engine.pc = "asleep"  BY DEF Asleep
<1> QED  BY <1>1 DEF Calm, Restraint, Derived

\* A request that was not to let the phone go leaves those that are.
LEMMA StillLetting ==
  ASSUME NEW t \in Tellers, teller[t].pc \notin {"unlock", "clear"},
         \A u \in Tellers : u # t => teller'[u] = teller[u]
  PROVE  Letting(teller) => Letting(teller')
BY DEF Letting

\* Steps that touch neither the plan nor its phone.
LEMMA CalmStays ==
  ASSUME Calm, UNCHANGED <<rows, plan, device, engine>>,
         \A p \in Payments : payment'[p].fee <= payment'[p].amount,
         missed \subseteq missed', missed' \subseteq missed \cup {"lift"},
         Letting(teller) => Letting(teller') \/ "lift" \in missed'
  PROVE  Calm'
<1>1. Owing'  BY DEF Calm, Owing, RowsSettled, PaidIsSettled, NoFeeOverpaid
<1>2. /\ "fees" \in missed' <=> "fees" \in missed
      /\ "status" \in missed' <=> "status" \in missed
      /\ "lock" \in missed' <=> "lock" \in missed
      /\ "lift" \in missed => "lift" \in missed'
  OBVIOUS
<1>3. Derived'  BY <1>2 DEF Calm, Derived, SomeOverdue
<1>4. Restraint'
  <2>1. Released'  BY DEF Calm, Restraint, Released
  <2>2. AtWork(engine') => plan'.status # "COMPLETED" /\ (device' = "ACTIVE" => engine'.device = "ACTIVE")
    BY DEF Calm, Restraint
  <2>3. Held(device') => SomeOverdue(rows') \/ "lift" \in missed' \/ Letting(teller')
    BY <1>2 DEF Calm, Restraint
  <2>4. SomeOverdue(rows') => device' # "ACTIVE" \/ "lock" \in missed' \/ engine'.pc \in {"plan", "enforce"}
    BY <1>2 DEF Calm, Restraint
  <2> QED  BY <2>1, <2>2, <2>3, <2>4 DEF Restraint, AtWork, SomeOverdue, Held, Letting
<1>5. Ahead'  BY DEF Calm, Ahead, Seen
<1> QED  BY <1>1, <1>3, <1>4, <1>5 DEF Calm

\* A day passes.
LEMMA CalmDay ==
  ASSUME Calm, NewDay \/ UNCHANGED vars
  PROVE  Calm'
<1>1. UNCHANGED <<rows, plan, payment, device, teller, engine, missed>>  BY DEF NewDay, vars
<1>2. \A p \in Payments : payment'[p].fee <= payment'[p].amount  BY <1>1 DEF Calm, Owing
<1> QED  BY <1>1, <1>2, CalmStays

\* A payment is submitted.
LEMMA CalmSubmitted ==
  ASSUME Typed, Calm, NEW p \in Payments, NEW amount \in Amounts, NEW target \in Targets,
         Submit(p, amount, target)
  PROVE  Calm'
<1> DEFINE y == [Unused EXCEPT !.status = "PENDING", !.amount = amount, !.target = target]
<1>1. UNCHANGED <<rows, plan, device, teller, engine, missed>> /\ payment' = [payment EXCEPT ![p] = y]
  BY DEF Submit
<1>2. y.fee = 0 /\ y.amount = amount /\ amount \in Nat  BY Parameters DEF Unused
<1> HIDE DEF y
<1>3. \A q \in Payments : payment'[q] = IF q = p THEN y ELSE payment[q]  BY <1>1, PlanParts
<1>4. \A q \in Payments : payment'[q].fee <= payment'[q].amount  BY <1>2, <1>3 DEF Calm, Owing
<1>5. missed' = missed /\ Letting(teller') = Letting(teller)  BY <1>1
<1> HIDE DEF Calm
<1> QED  BY <1>1, <1>4, <1>5, CalmStays

\* A request reads the plan.
LEMMA CalmReading ==
  ASSUME Typed, Calm, NEW t \in Tellers,
         \/ \E p \in Payments, amount \in Amounts, target \in Targets : RecordRead(t, p, amount, target)
         \/ \E p \in Payments : VerifyFind(t, p) \/ ReverseFind(t, p)
         \/ \E n \in Rows : WaiveFind(t, n)
         \/ VerifyRead(t)
  PROVE  Calm'
<1>1. UNCHANGED <<rows, plan, payment, device, engine, missed>>
  BY DEF RecordRead, VerifyFind, ReverseFind, WaiveFind, VerifyRead
<1>2. teller[t] = Free \/ teller[t].pc = "found"
  BY DEF RecordRead, VerifyFind, ReverseFind, WaiveFind, VerifyRead
<1>3. teller[t].pc \notin {"unlock", "clear"}  BY <1>2, FreeIsRequest
<1>4. \A u \in Tellers : u # t => teller'[u] = teller[u]
  BY PlanParts DEF RecordRead, VerifyFind, ReverseFind, WaiveFind, VerifyRead
<1>5. Letting(teller) => Letting(teller')  BY <1>3, <1>4, StillLetting
<1>6. \A p \in Payments : payment'[p].fee <= payment'[p].amount  BY <1>1 DEF Calm, Owing
<1> HIDE DEF Calm
<1> QED  BY <1>1, <1>5, <1>6, CalmStays

\* The two statements that let a phone go keep Calm, if the phone may still go.
LEMMA CalmReleasing ==
  ASSUME Typed, Calm, NEW t \in Tellers, Unlock(t) \/ ClearFlag(t), clashed' = {}
  PROVE  Calm'
<1>1. UNCHANGED <<rows, plan, payment, missed, engine>>  BY DEF Unlock, ClearFlag
<1>2. engine = Asleep /\ device # "INACTIVE" /\ ~SomeOverdue(rows)
  BY DEF Unlock, ClearFlag, Clash, StillDue, SomeOverdue
<1>3. device' = "ACTIVE"
  <2>1. device \in {"ACTIVE", "OVERDUE", "LOCKED"}  BY <1>2, PlanParts DEF Devices
  <2>2. device = "ACTIVE" \/ Record!CanMove(device, "ACTIVE")
    BY <2>1 DEF Record!CanMove, Record!ValidNext
  <2> QED  BY <2>2 DEF Unlock, ClearFlag
<1>4. plan.status # "COMPLETED"  BY <1>2 DEF Calm, Restraint, Released
<1>5. Owing'  BY <1>1 DEF Calm, Owing, RowsSettled, PaidIsSettled, NoFeeOverpaid
<1>6. Derived'  BY <1>1 DEF Calm, Derived, SomeOverdue
<1>7. Released'  BY <1>1, <1>4 DEF Released
<1>8. ~SomeOverdue(rows') /\ engine' = Asleep  BY <1>1, <1>2
<1>9. ~Held(device')  BY <1>3 DEF Held
<1> HIDE DEF Calm
<1> QED  BY <1>5, <1>6, <1>7, <1>8, <1>9, CalmAfter

\* A request that fails keeps Calm: what it leaves undone is on record.
LEMMA CalmGivenUp ==
  ASSUME Typed, Calm, NEW t \in Tellers, GiveUp(t)
  PROVE  Calm'
<1>1. UNCHANGED <<rows, plan, payment, device, engine>>  BY DEF GiveUp
<1>2. missed' = IF teller[t].pc \in {"unlock", "clear"} THEN missed \cup {"lift"} ELSE missed
  BY DEF GiveUp
<1>3. missed \subseteq missed' /\ missed' \subseteq missed \cup {"lift"}  BY <1>2
<1>4. Letting(teller) => Letting(teller') \/ "lift" \in missed'
  <2>1. CASE teller[t].pc \in {"unlock", "clear"}  BY <2>1, <1>2
  <2>2. CASE teller[t].pc \notin {"unlock", "clear"}
    <3>1. \A u \in Tellers : u # t => teller'[u] = teller[u]  BY PlanParts DEF GiveUp
    <3> QED  BY <2>2, <3>1, StillLetting
  <2> QED  BY <2>1, <2>2
<1>5. \A p \in Payments : payment'[p].fee <= payment'[p].amount  BY <1>1 DEF Calm, Owing
<1> HIDE DEF Calm
<1> QED  BY <1>1, <1>3, <1>4, <1>5, CalmStays

\* Cancelling a payment that was never verified keeps Calm.
LEMMA CalmCancelled ==
  ASSUME Typed, Calm, NEW t \in Tellers, CancelUnverified(t)
  PROVE  Calm'
<1> DEFINE p == teller[t].payment
           y == [payment[p] EXCEPT !.status = "FAILED", !.reversed = TRUE]
<1>0. Computing(teller[t]) /\ teller[t].pc = "reverse"  BY DEF CancelUnverified, Computing
<1>1. p \in Payments  BY <1>0, PlanParts, JobParts
<1>2. payment[p] \in PaymentRecords /\ payment' = [payment EXCEPT ![p] = y]
  BY <1>1, PlanParts DEF CancelUnverified
<1>3. y.fee = payment[p].fee /\ y.amount = payment[p].amount  BY <1>2 DEF PaymentRecords
<1>4. UNCHANGED <<rows, plan, device, engine, missed>>  BY DEF CancelUnverified
<1>5. \A u \in Tellers : u # t => teller'[u] = teller[u]  BY PlanParts DEF CancelUnverified
<1> HIDE DEF y
<1>6. \A q \in Payments : payment'[q].fee <= payment'[q].amount
  <2>1. \A q \in Payments : payment'[q] = IF q = p THEN y ELSE payment[q]  BY <1>2, PlanParts
  <2> QED  BY <2>1, <1>1, <1>3 DEF Calm, Owing
<1>7. Letting(teller) => Letting(teller')  BY <1>0, <1>5, StillLetting
<1> HIDE DEF Calm
<1> QED  BY <1>4, <1>6, <1>7, CalmStays

\* Waiving a fee keeps Calm, if what was paid of it is what the request saw.
LEMMA CalmWaived ==
  ASSUME Typed, Typed', Calm, NEW t \in Tellers, Waive(t), clashed' = {}
  PROVE  Calm'
<1> DEFINE n == teller[t].row
           v == teller[t].feePaid
           x == [rows[n] EXCEPT !.fee = v]
           y == [x EXCEPT !.waived = TRUE]
<1>0. teller[t].pc = "waive"  BY DEF Waive
<1>1. n \in Rows /\ v \in 0..Cap  BY <1>0, PlanParts, JobParts
<1>2. v = rows[n].feePaid /\ engine = Asleep /\ engine' = Asleep  BY DEF Waive, Clash
<1>3. rows \in Plans /\ rows \in [Rows -> SoundRow] /\ rows[n] \in SoundRow
  <2>1. rows \in Plans  BY PlanParts, SMTT(40)
  <2> QED  BY <2>1, <1>1 DEF Plans
<1>4. /\ rows' = [rows EXCEPT ![n] = y]
      /\ plan' = [plan EXCEPT !.fees = OutstandingFees(rows')]
      /\ teller' = [teller EXCEPT ![t] = Free] /\ UNCHANGED <<payment, device>>
  <2>1. rows' = [rows EXCEPT ![n].fee = v, ![n].waived = TRUE]  BY DEF Waive, WaivedFee
  <2>2. [rows EXCEPT ![n].fee = v, ![n].waived = TRUE] = [rows EXCEPT ![n] = y]  BY <1>1, <1>3
  <2>3. plan' = [plan EXCEPT !.fees = OutstandingFees(rows')]  BY DEF Waive, WaivedFee
  <2> QED  BY <2>1, <2>2, <2>3 DEF Waive
<1>5. y.fee = v /\ y.feePaid = rows[n].feePaid /\ y.paid = rows[n].paid /\ y.due = rows[n].due
      /\ y.status = rows[n].status
  BY <1>3 DEF SoundRow
<1> HIDE DEF x, y
<1>6. \A m \in Rows : rows'[m] = IF m = n THEN y ELSE rows[m]  BY <1>1, <1>3, <1>4, OneChanged
<1>7. rows' \in Plans  BY DEF Typed
<1>8. \A m \in Rows : rows'[m].status = rows[m].status  BY <1>1, <1>5, <1>6
<1>9. \A m \in Rows : Outstanding(rows[m]) = 0 => Outstanding(rows'[m]) = 0
  <2>1. Outstanding(rows[n]) = 0 => Outstanding(y) = 0
    <3>1. rows[n] \in PlanRow /\ rows'[n] \in PlanRow /\ rows'[n] = y
      BY <1>1, <1>3, <1>6, <1>7, RowParts DEF Plans
    <3>2. PrincipalDue(y) = PrincipalDue(rows[n])  BY <1>5 DEF PrincipalDue
    <3>3. FeeDue(y) = 0  BY <1>2, <1>5, <3>1, WhatIsOwed
    <3>4. Outstanding(y) = PrincipalDue(y) + FeeDue(y)
          /\ Outstanding(rows[n]) = PrincipalDue(rows[n]) + FeeDue(rows[n])
          /\ PrincipalDue(rows[n]) \in Nat /\ FeeDue(rows[n]) \in Nat
      BY <3>1, WhatIsOwed
    <3> QED  BY <3>2, <3>3, <3>4
  <2> QED  BY <2>1, <1>6
<1>10. plan \in [status: PlanStatuses, credit: Nat, fees: Nat]  BY PlanParts
<1>11. plan'.status = plan.status /\ plan'.credit = plan.credit /\ plan'.fees = OutstandingFees(rows')
  BY <1>4, <1>10
<1>12. Owing'
  <2>1. \A m \in Rows : InOrder(rows[m])  BY OrderSays DEF Calm, Owing
  <2>2. \A m \in Rows : rows'[m].status = "PAID" => Outstanding(rows'[m]) = 0
    BY <2>1, <1>8, <1>9 DEF InOrder
  <2>3. \A m \in Rows : rows'[m].feePaid <= rows'[m].fee
    <3>1. y.feePaid <= y.fee
      <4>1. v \in Nat  BY <1>1, Parameters
      <4> QED  BY <4>1, <1>2, <1>5
    <3> QED  BY <2>1, <3>1, <1>6 DEF InOrder
  <2>4. RowsSettled'  BY <2>2, <2>3 DEF RowsSettled, PaidIsSettled, NoFeeOverpaid
  <2>5. plan'.credit > 0 => \A m \in Rows : Outstanding(rows'[m]) = 0
    BY <1>9, <1>11 DEF Calm, Owing
  <2>6. \A p \in Payments : payment'[p].fee <= payment'[p].amount  BY <1>4 DEF Calm, Owing
  <2> QED  BY <2>4, <2>5, <2>6 DEF Owing
<1>a. missed' = missed \ {"fees"}  BY DEF Waive
<1>b. /\ Held(device) => SomeOverdue(rows) \/ "lift" \in missed \/ Letting(teller)
      /\ SomeOverdue(rows) => device # "ACTIVE" \/ "lock" \in missed
      /\ plan.status = PlanStatus(rows) \/ "status" \in missed
      /\ "status" \in missed => SomeOverdue(rows)
  BY <1>2, CalmIdle
<1>c. SomeOverdue(rows) <=> SomeOverdue(rows')  BY <1>8 DEF SomeOverdue
<1>d. Letting(teller) => Letting(teller')
  <2>1. \A u \in Tellers : u # t => teller'[u] = teller[u]  BY <1>4, PlanParts
  <2> QED  BY <2>1, <1>0, StillLetting
<1>13. Derived'
  <2>1. PlanStatus(rows') = PlanStatus(rows)  BY <1>3, <1>7, <1>8, SameStatus
  <2>2. "status" \in missed' => SomeOverdue(rows')  BY <1>a, <1>b, <1>c
  <2>3. plan'.status = PlanStatus(rows') \/ "status" \in missed'  BY <2>1, <1>11, <1>a, <1>b
  <2> QED  BY <2>2, <2>3, <1>11 DEF Derived, SomeOverdue
<1>14. Released'  BY <1>4, <1>11 DEF Calm, Restraint, Released
<1>15. /\ Held(device') => SomeOverdue(rows') \/ "lift" \in missed' \/ Letting(teller')
       /\ SomeOverdue(rows') => device' # "ACTIVE" \/ "lock" \in missed'
  BY <1>4, <1>a, <1>b, <1>c, <1>d
<1> QED  BY <1>2, <1>12, <1>13, <1>14, <1>15, CalmAfter

\* Paying a plan that owes nothing changes no row.
LEMMA NothingOwedNothingTaken ==
  ASSUME NEW o \in [1..N -> PlanRow], NEW w \in [1..N -> PlanRow], \A n \in Rows : PaidInto(o[n], w[n]),
         \A n \in Rows : Outstanding(o[n]) = 0
  PROVE  w = o
<1>1. ASSUME NEW n \in 1..N PROVE w[n] = o[n]
  <2>1. PaidInto(o[n], w[n]) /\ Outstanding(o[n]) = 0  BY Parameters
  <2> QED  BY <2>1 DEF PaidInto
<1>2. w = [n \in 1..N |-> w[n]] /\ o = [n \in 1..N |-> o[n]]  OBVIOUS
<1> QED  BY <1>1, <1>2

\* Nothing rises and nothing is left over: nothing moved.
LEMMA Squeezed ==
  ASSUME NEW P \in Nat, NEW F \in Nat, NEW P2 \in Nat, NEW F2 \in Nat, NEW left \in Nat,
         P2 <= P, F2 <= F, (P + F) - P2 - F2 = 0 - left
  PROVE  P2 = P /\ F2 = F
OBVIOUS

\* applyPaymentEffect keeps Calm, if what it writes over is what it saw.
LEMMA CalmApplied ==
  ASSUME Typed, Typed', Money, Calm, NEW t \in Tellers, Apply(t), clashed' = {}
  PROVE  Calm'
<1> DEFINE job == teller[t]
           p == job.payment
           spread == Spread(job)
           new == spread.rows
           x == IF payment[p].status = "NONE" THEN job.new ELSE payment[p]
           y == Verified(x, spread.fees)
           status == PlanStatus(rows')
           amount == job.new.amount
<1>1. job \in Requests /\ Computing(job) /\ job.pc = "apply"  BY PlanParts DEF Apply, Computing
<1>2. p \in Payments /\ job.credit \in Nat /\ job.new \in PaymentRecords /\ amount \in Nat
  BY <1>1, JobParts, PaymentParts
<1>c. MoneyAsSeen(job) /\ Unapplied(job.new) /\ RowsAsSeen(job)  BY DEF Apply, Clash
<1>3. job.rows = rows /\ job.credit = plan.credit /\ engine = Asleep /\ engine' = Asleep
  BY <1>c DEF Apply, MoneyAsSeen, RowsAsSeen
<1>4. /\ new \in [1..N -> PlanRow] /\ spread.left \in Nat /\ spread.fees \in Nat
      /\ \A n \in Rows : PaidInto(rows[n], new[n])
      /\ PrincipalPaid(new) + FeesPaid(new) + spread.left
           = PrincipalPaid(rows) + FeesPaid(rows) + (amount + plan.credit)
      /\ FeesPaid(new) = FeesPaid(rows) + spread.fees
      /\ spread.left = 0 \/ \A n \in Rows : Outstanding(new[n]) = 0
  BY <1>1, <1>3, PaymentSpreads
<1>5. rows \in Plans /\ rows \in [1..N -> PlanRow] /\ rows' \in Plans  BY PlanParts, PlansAreRows DEF Typed
<1>6. /\ rows' = Written(rows, new)
      /\ plan' = [status |-> status, credit |-> spread.left, fees |-> OutstandingFees(rows')]
      /\ payment' = [payment EXCEPT ![p] = y]
      /\ device' = Handover(status, device)
      /\ teller' = [teller EXCEPT ![t] = [pc |-> Lift(status, device')]]
  <2>1. /\ rows' = Written(job.rows, new)
        /\ plan' = [status |-> status, credit |-> spread.left, fees |-> OutstandingFees(rows')]
        /\ payment' = [payment EXCEPT ![p] =
                         Verified(IF @.status = "NONE" THEN job.new ELSE @, spread.fees)]
        /\ device' = Handover(status, device)
        /\ teller' = [teller EXCEPT ![t] = [pc |-> Lift(status, device')]]
    BY DEF Apply, Spread
  <2>2. payment' = [payment EXCEPT ![p] = y]  BY <2>1, <1>2, PlanParts
  <2>3. rows' = Written(rows, new)  BY <2>1, <1>3
  <2> HIDE DEF y, new, status
  <2> QED  BY <2>1, <2>2, <2>3
<1>7. /\ payment[p].fee = 0 /\ job.new.fee = 0
      /\ payment[p].status # "NONE" => payment[p].amount = amount
  <2>1. payment[p] \in PaymentRecords /\ SoundPayment(payment[p])  BY <1>2, PlanParts DEF Money
  <2>2. SamePayment(job.new, payment[p])  BY <1>c DEF MoneyAsSeen
  <2> HIDE DEF job
  <2> QED  BY <2>1, <2>2, <1>2, <1>c, UnappliedSays
<1>8. x \in PaymentRecords /\ x.fee = 0 /\ x.amount = amount  BY <1>2, <1>7, PlanParts
<1> HIDE DEF x, spread
<1>9. y.amount = amount /\ y.fee = spread.fees
  <2>1. y.amount = x.amount /\ y.fee = IF spread.fees > 0 THEN spread.fees ELSE x.fee
    BY <1>4, <1>8, VerifiedSays
  <2> QED  BY <2>1, <1>4, <1>8
<1> HIDE DEF y
<1>10. rows' = new  BY <1>4, <1>5, <1>6, WrittenIsNew
<1>11. \A n \in Rows : rows[n] \in PlanRow /\ new[n] \in PlanRow  BY <1>4, <1>5, Parameters
<1>12. \A n \in Rows : InOrder(rows[n])  BY OrderSays DEF Calm, Owing
<1>13. \A n \in Rows : InOrder(rows'[n])  BY <1>4, <1>10, <1>11, <1>12, PaidRowInOrder
<1>14. RowsSettled'  BY <1>13 DEF RowsSettled, PaidIsSettled, NoFeeOverpaid, InOrder
<1>15. spread.fees <= amount
  <2>1. /\ PrincipalPaid(rows) \in Nat /\ FeesPaid(rows) \in Nat /\ PrincipalPaid(new) \in Nat
        /\ FeesPaid(new) \in Nat /\ plan.credit \in Nat
    BY <1>4, <1>5, PaidSums, PlanParts
  <2>2. CASE plan.credit > 0
    <3>1. \A n \in Rows : Outstanding(rows[n]) = 0  BY <2>2 DEF Calm, Owing
    <3>2. new = rows  BY <3>1, <1>4, <1>5, NothingOwedNothingTaken
    <3>3. spread.fees = 0
      <4>1. FeesPaid(rows) = FeesPaid(rows) + spread.fees  BY <3>2, <1>4
      <4> QED  BY <4>1, <2>1, <1>4
    <3> QED  BY <3>3, <1>2
  <2>3. CASE plan.credit = 0
    <3>1. PrincipalPaid(rows) <= PrincipalPaid(new)
      <4>1. \A n \in 1..N : rows[n].paid <= new[n].paid
        <5>1. ASSUME NEW n \in 1..N PROVE rows[n].paid <= new[n].paid
          <6>1. PaidInto(rows[n], new[n]) /\ rows[n] \in PlanRow /\ new[n] \in PlanRow
            BY <1>4, <1>11, Parameters
          <6>2. rows[n].paid \in Nat /\ new[n].paid \in Nat  BY <6>1, WhatIsOwed
          <6> QED  BY <6>1, <6>2 DEF PaidInto
        <5> QED  BY <5>1
      <4> QED  BY <4>1, <1>4, <1>5, LessPaid
    <3>2. PrincipalPaid(new) + FeesPaid(new) + spread.left
            = PrincipalPaid(rows) + FeesPaid(rows) + amount
      BY <1>2, <1>4, <2>3
    <3>3. FeesPaid(new) = FeesPaid(rows) + spread.fees /\ spread.left \in Nat /\ spread.fees \in Nat  BY <1>4
    <3> QED  BY <3>1, <3>2, <3>3, <2>1, <1>2
  <2> QED  BY <2>1, <2>2, <2>3
<1>16. Owing'
  <2>1. \A q \in Payments : payment'[q] = IF q = p THEN y ELSE payment[q]  BY <1>6, PlanParts
  <2>2. \A q \in Payments : payment'[q].fee <= payment'[q].amount  BY <2>1, <1>9, <1>15 DEF Calm, Owing
  <2>3. plan'.credit > 0 => \A n \in Rows : Outstanding(rows'[n]) = 0
    <3>1. plan' = [status |-> status, credit |-> spread.left, fees |-> OutstandingFees(rows')]  BY <1>6
    <3> HIDE DEF status
    <3>2. plan'.credit = spread.left  BY <3>1, SMTT(40)
    <3> QED  BY <3>2, <1>4, <1>10
  <2> QED  BY <2>2, <2>3, <1>14 DEF Owing
<1>a. missed' = missed \ (Recalculated \cup LiftTried(status))
  BY <1>3 DEF Apply, Spread
<1>17. Derived'
  <2>1. "status" \notin missed'  BY <1>a DEF Recalculated
  <2> QED  BY <2>1, <1>6 DEF Derived
<1>18. status \in PlanStatuses  BY <1>5, StatusSays
<1>19. plan'.status = status /\ device' = Handover(status, device) /\ device \in Devices  BY <1>6, PlanParts
<1>20. teller'[t] = [pc |-> Lift(status, device')]  BY <1>6, PlanParts
<1>21. status = "OVERDUE" <=> SomeOverdue(rows')  BY <1>5, StatusSays DEF SomeOverdue
<1>b. SomeOverdue(rows') => SomeOverdue(rows)
  BY <1>4, <1>10 DEF SomeOverdue, PaidInto
<1> HIDE DEF status
<1>22. status = "COMPLETED" => device' = "INACTIVE"
  BY <1>19 DEF Handover, Devices, Record!Releasable
<1>23. Released'  BY <1>19, <1>22 DEF Released
<1>24. device' \in Devices  BY DEF Typed
<1>25. Held(device') => SomeOverdue(rows') \/ teller'[t].pc \in {"unlock", "clear"}
  BY <1>18, <1>20, <1>21, <1>22 DEF Lift, PlanStatuses, Restricted, Held
<1>26. Held(device') => SomeOverdue(rows') \/ "lift" \in missed' \/ Letting(teller')  BY <1>25 DEF Letting
<1>27. SomeOverdue(rows') => device' # "ACTIVE" \/ "lock" \in missed'
  <2> SUFFICES ASSUME SomeOverdue(rows') PROVE device' # "ACTIVE" \/ "lock" \in missed'  OBVIOUS
  <2>1. status = "OVERDUE"  BY <1>21
  <2>2. device' = device  BY <2>1, <1>19 DEF Handover
  <2>3. "lock" \in missed => "lock" \in missed'  BY <2>1, <1>a DEF Recalculated, LiftTried
  <2>4. device # "ACTIVE" \/ "lock" \in missed  BY <1>3, <1>b, CalmIdle
  <2> QED  BY <2>2, <2>3, <2>4
<1> HIDE DEF Calm
<1> QED  BY <1>3, <1>16, <1>17, <1>23, <1>26, <1>27, CalmAfter

\* reversePaymentEffect keeps Calm, if what it writes over is what it saw.
LEMMA CalmTakenBack ==
  ASSUME Typed, Typed', Calm, NEW t \in Tellers, TakeBackPayment(t), clashed' = {}
  PROVE  Calm'
<1> DEFINE job == teller[t]
           p == job.payment
           new == Undone(job).rows
           left == Undone(job).left
           amount == job.new.amount
           reclaimed == Min({job.credit, amount})
           y == [payment[p] EXCEPT !.status = "REFUNDED", !.reversed = TRUE]
<1>1. job \in Requests /\ Computing(job) /\ job.pc = "reverse"  BY PlanParts DEF TakeBackPayment, Computing
<1>2. p \in Payments /\ job.credit \in Nat /\ job.new \in PaymentRecords /\ amount \in Nat
  BY <1>1, JobParts, PaymentParts
<1>3. job.rows = rows /\ job.credit = plan.credit /\ engine = Asleep /\ engine' = Asleep
  <2>1. MoneyAsSeen(job) /\ RowsAsSeen(job) /\ engine' = engine  BY DEF TakeBackPayment, Clash
  <2> QED  BY <2>1 DEF MoneyAsSeen, RowsAsSeen
<1>4. /\ reclaimed \in Nat /\ reclaimed = IF plan.credit <= amount THEN plan.credit ELSE amount
      /\ CreditLeft(plan.credit, amount) = plan.credit - reclaimed
      /\ new \in [1..N -> PlanRow] /\ left \in Nat
      /\ \A n \in Rows : TakenFrom(rows[n], new[n])
      /\ (PrincipalPaid(rows) + FeesPaid(rows)) - PrincipalPaid(new) - FeesPaid(new)
           = (amount - reclaimed) - left
  BY <1>1, <1>3, ReversalTakes DEF CreditLeft
<1>5. rows \in Plans /\ rows \in [1..N -> PlanRow] /\ rows' \in Plans  BY PlanParts, PlansAreRows DEF Typed
<1>6. /\ rows' = TakenBack(rows, new)
      /\ plan' = [status |-> PlanStatus(rows'),
                  credit |-> IF reclaimed > 0 THEN CreditLeft(plan.credit, amount) ELSE plan.credit,
                  fees |-> OutstandingFees(rows')]
      /\ payment' = [payment EXCEPT ![p].status = "REFUNDED", ![p].reversed = TRUE]
      /\ teller' = [teller EXCEPT ![t] = Free] /\ device' = device
      /\ missed' = missed \ Recalculated
  BY <1>3 DEF TakeBackPayment, Undone
<1>7. payment[p] \in PaymentRecords /\ payment' = [payment EXCEPT ![p] = y]  BY <1>2, <1>6, PlanParts
<1>8. y.fee = payment[p].fee /\ y.amount = payment[p].amount  BY <1>7 DEF PaymentRecords
<1> HIDE DEF new, left, y, reclaimed
<1>9. rows' = new  BY <1>4, <1>5, <1>6, TakenBackIsNew
<1>10. \A n \in Rows : rows[n] \in PlanRow /\ new[n] \in PlanRow  BY <1>4, <1>5, Parameters
<1>11. \A n \in Rows : InOrder(rows[n])  BY OrderSays DEF Calm, Owing
<1>12. \A n \in Rows : InOrder(rows'[n])  BY <1>4, <1>9, <1>10, <1>11, TakenRowInOrder
<1>13. RowsSettled'  BY <1>12 DEF RowsSettled, PaidIsSettled, NoFeeOverpaid, InOrder
<1>14. plan'.credit > 0 => \A n \in Rows : Outstanding(rows'[n]) = 0
  <2> SUFFICES ASSUME plan'.credit > 0, NEW n \in Rows PROVE Outstanding(rows'[n]) = 0  OBVIOUS
  <2>1. plan.credit \in Nat /\ plan'.credit = plan.credit - reclaimed
    <3>1. plan.credit \in Nat  BY PlanParts
    <3>2. plan'.credit = IF reclaimed > 0 THEN plan.credit - reclaimed ELSE plan.credit  BY <1>4, <1>6
    <3> QED  BY <3>1, <3>2, <1>4
  <2>2. plan.credit > 0 /\ reclaimed = amount  BY <2>1, <1>2, <1>4
  <2>3. Outstanding(rows[n]) = 0  BY <2>2 DEF Calm, Owing
  <2>4. /\ PrincipalPaid(rows) \in Nat /\ FeesPaid(rows) \in Nat /\ PrincipalPaid(new) \in Nat
        /\ FeesPaid(new) \in Nat
    BY <1>4, <1>5, PaidSums
  <2>5. \A m \in 1..N : new[m].paid <= rows[m].paid /\ new[m].feePaid <= rows[m].feePaid
    BY <1>4, Parameters DEF TakenFrom
  <2>6. PrincipalPaid(new) <= PrincipalPaid(rows)  BY <2>5, <1>4, <1>5, LessPaid
  <2>7. FeesPaid(new) <= FeesPaid(rows)  BY <2>5, <1>4, <1>5, LessFeePaid
  <2>8. PrincipalPaid(new) = PrincipalPaid(rows) /\ FeesPaid(new) = FeesPaid(rows)
    <3>1. (PrincipalPaid(rows) + FeesPaid(rows)) - PrincipalPaid(new) - FeesPaid(new) = (amount - amount) - left
      BY <1>4, <2>2
    <3>2. amount - amount = 0  BY <1>2
    <3>3. (PrincipalPaid(rows) + FeesPaid(rows)) - PrincipalPaid(new) - FeesPaid(new) = 0 - left  BY <3>1, <3>2
    <3>4. left \in Nat  BY <1>4
    <3> QED  BY <3>3, <3>4, <2>4, <2>6, <2>7, Squeezed
  <2>9. new[n].paid = rows[n].paid
    <3> DEFINE g == Paids(new)
               h == Paids(rows)
    <3>1. /\ PrincipalPaid(new) = SumFunction(g) /\ PrincipalPaid(rows) = SumFunction(h) /\ IsFiniteSet(1..N)
          /\ g \in [1..N -> Int] /\ h \in [1..N -> Int]
      BY <1>4, <1>5, Parameters, SumsOfRows
    <3>a. \A m \in 1..N : g[m] = new[m].paid  BY <1>4 DEF Paids
    <3>b. \A m \in 1..N : h[m] = rows[m].paid  BY <1>5 DEF Paids
    <3> HIDE DEF g, h
    <3>2. \A m \in 1..N : g[m] <= h[m]  BY <3>a, <3>b, <2>5
    <3>3. SumFunction(g) = SumFunction(h)  BY <3>1, <2>8
    <3>4. \A m \in 1..N : g[m] = h[m]  BY <3>1, <3>2, <3>3, SumsMeet
    <3> QED  BY <3>a, <3>b, <3>4, Parameters
  <2>10. new[n].feePaid = rows[n].feePaid
    <3> DEFINE g == FeePaids(new)
               h == FeePaids(rows)
    <3>1. /\ FeesPaid(new) = SumFunction(g) /\ FeesPaid(rows) = SumFunction(h) /\ IsFiniteSet(1..N)
          /\ g \in [1..N -> Int] /\ h \in [1..N -> Int]
      BY <1>4, <1>5, Parameters, SumsOfRows
    <3>a. \A m \in 1..N : g[m] = new[m].feePaid  BY <1>4 DEF FeePaids
    <3>b. \A m \in 1..N : h[m] = rows[m].feePaid  BY <1>5 DEF FeePaids
    <3> HIDE DEF g, h
    <3>2. \A m \in 1..N : g[m] <= h[m]  BY <3>a, <3>b, <2>5
    <3>3. SumFunction(g) = SumFunction(h)  BY <3>1, <2>8
    <3>4. \A m \in 1..N : g[m] = h[m]  BY <3>1, <3>2, <3>3, SumsMeet
    <3> QED  BY <3>a, <3>b, <3>4, Parameters
  <2>11. new[n].due = rows[n].due /\ new[n].fee = rows[n].fee  BY <1>4 DEF TakenFrom
  <2> QED  BY <2>3, <2>9, <2>10, <2>11, <1>9, SameAmountsOwe
<1>15. Owing'
  <2>1. \A q \in Payments : payment'[q] = IF q = p THEN y ELSE payment[q]  BY <1>7, PlanParts
  <2>2. \A q \in Payments : payment'[q].fee <= payment'[q].amount  BY <2>1, <1>2, <1>8 DEF Calm, Owing
  <2> QED  BY <2>2, <1>13, <1>14 DEF Owing
<1>a. /\ Held(device) => SomeOverdue(rows) \/ "lift" \in missed \/ Letting(teller)
      /\ SomeOverdue(rows) => device # "ACTIVE" \/ "lock" \in missed
      /\ plan.status = PlanStatus(rows) \/ "status" \in missed
      /\ "status" \in missed => SomeOverdue(rows)
  BY <1>3, CalmIdle
<1>b. /\ "status" \notin missed'
      /\ "lift" \in missed' <=> "lift" \in missed
      /\ "lock" \in missed' <=> "lock" \in missed
  BY <1>6 DEF Recalculated
<1>16. Derived'  BY <1>6, <1>b DEF Derived
<1>17. Released'
  <2> SUFFICES ASSUME plan'.status = "COMPLETED" PROVE device' = "INACTIVE"  BY DEF Released
  <2>1. PlanStatus(rows') = "COMPLETED"  BY <1>6
  <2>2. \A n \in Rows : rows'[n].status = "PAID"  BY <2>1, <1>5, StatusSays
  <2>3. \A n \in Rows : rows[n].status = "PAID"
    <3>1. \A n \in Rows : new[n].status = "PAID"  BY <2>2, <1>9
    <3>2. \A n \in Rows : new[n] # rows[n] => new[n].status # "PAID"  BY <1>4 DEF TakenFrom
    <3> QED  BY <3>1, <3>2
  <2>4. PlanStatus(rows) = "COMPLETED"  BY <2>3, <1>5, StatusSays
  <2>5. plan.status = "COMPLETED"  BY <2>3, <2>4, <1>a DEF SomeOverdue
  <2> QED  BY <2>5, <1>6 DEF Calm, Restraint, Released
<1>18. /\ Held(device') => SomeOverdue(rows') \/ "lift" \in missed' \/ Letting(teller')
       /\ SomeOverdue(rows') => device' # "ACTIVE" \/ "lock" \in missed'
  <2>1. SomeOverdue(rows) <=> SomeOverdue(rows')
    <3>1. \A n \in Rows : rows[n].status = "OVERDUE" <=> new[n].status = "OVERDUE"  BY <1>4 DEF TakenFrom
    <3> QED  BY <3>1, <1>9 DEF SomeOverdue
  <2>2. \A u \in Tellers : u # t => teller'[u] = teller[u]  BY <1>6, PlanParts
  <2>3. Letting(teller) => Letting(teller')  BY <2>2, <1>1, StillLetting
  <2> QED  BY <2>1, <2>3, <1>6, <1>a, <1>b
<1> QED  BY <1>3, <1>15, <1>16, <1>17, <1>18, CalmAfter

-----------------------------------------------------------------------------
(* PlanLedger: the nightly run, on a plan nothing else writes *)

\* A status written to one row changes nothing else.
LEMMA OneStatusWritten ==
  ASSUME NEW rs \in Plans, NEW n \in Rows, NEW v, NEW w, w = [rs EXCEPT ![n].status = v]
  PROVE  /\ \A m \in Rows : m # n => w[m] = rs[m]
         /\ w[n].status = v
         /\ \A m \in Rows : /\ w[m].due = rs[m].due /\ w[m].paid = rs[m].paid /\ w[m].fee = rs[m].fee
                            /\ w[m].feePaid = rs[m].feePaid
<1>1. rs[n] \in SoundRow /\ rs \in [Rows -> SoundRow]  BY DEF Plans
<1> DEFINE z == [rs[n] EXCEPT !.status = v]
<1>2. z.due = rs[n].due /\ z.paid = rs[n].paid /\ z.fee = rs[n].fee /\ z.feePaid = rs[n].feePaid
      /\ z.status = v
  BY <1>1 DEF SoundRow
<1>3. w = [rs EXCEPT ![n] = z]  OBVIOUS
<1> HIDE DEF z
<1>4. \A m \in Rows : w[m] = IF m = n THEN z ELSE rs[m]  BY <1>1, <1>3, OneChanged
<1> QED  BY <1>2, <1>4

\* A fee written to one row changes nothing else.
LEMMA OneFeeWritten ==
  ASSUME NEW rs \in Plans, NEW n \in Rows, NEW v, NEW w, w = [rs EXCEPT ![n].fee = v]
  PROVE  /\ \A m \in Rows : m # n => w[m] = rs[m]
         /\ w[n].fee = v /\ w[n].feePaid = rs[n].feePaid /\ w[n].status = rs[n].status
<1>1. rs[n] \in SoundRow /\ rs \in [Rows -> SoundRow]  BY DEF Plans
<1> DEFINE z == [rs[n] EXCEPT !.fee = v]
<1>2. z.fee = v /\ z.feePaid = rs[n].feePaid /\ z.status = rs[n].status
  BY <1>1 DEF SoundRow
<1>3. w = [rs EXCEPT ![n] = z]  OBVIOUS
<1> HIDE DEF z
<1>4. \A m \in Rows : w[m] = IF m = n THEN z ELSE rs[m]  BY <1>1, <1>3, OneChanged
<1> QED  BY <1>2, <1>4

\* What a statement of the nightly run has to leave behind.
LEMMA NightAfter ==
  ASSUME Calm, UNCHANGED <<payment, teller>>,
         RowsSettled', plan'.credit > 0 => \A n \in Rows : Outstanding(rows'[n]) = 0,
         Derived', Released',
         AtWork(engine') => plan'.status # "COMPLETED" /\ (device' = "ACTIVE" => engine'.device = "ACTIVE"),
         Held(device') => SomeOverdue(rows') \/ "lift" \in missed' \/ Letting(teller),
         SomeOverdue(rows') => device' # "ACTIVE" \/ "lock" \in missed' \/ engine'.pc \in {"plan", "enforce"},
         Ahead'
  PROVE  Calm'
<1>1. Owing'  BY DEF Calm, Owing
<1>2. Restraint'  BY DEF Restraint, AtWork, SomeOverdue, Held, Letting
<1> QED  BY <1>1, <1>2 DEF Calm

\* What Calm says while the nightly run is between two statements.
LEMMA NightStands ==
  ASSUME Calm
  PROVE  /\ RowsSettled /\ (plan.credit > 0 => \A n \in Rows : Outstanding(rows[n]) = 0)
         /\ Released
         /\ AtWork(engine) => plan.status # "COMPLETED" /\ (device = "ACTIVE" => engine.device = "ACTIVE")
         /\ Held(device) => SomeOverdue(rows) \/ "lift" \in missed \/ Letting(teller)
         /\ SomeOverdue(rows) => device # "ACTIVE" \/ "lock" \in missed \/ engine.pc \in {"plan", "enforce"}
BY DEF Calm, Owing, Restraint

\* A statement that leaves the plan and its rows alone.
LEMMA NightPasses ==
  ASSUME Calm, UNCHANGED <<rows, plan, payment, teller>>,
         plan.status = PlanStatus(rows) \/ "status" \in missed' \/ engine'.pc = "plan",
         "status" \in missed' => SomeOverdue(rows),
         plan.fees = OutstandingFees(rows) \/ "fees" \in missed' \/ (engine' # Asleep /\ engine'.affected),
         AtWork(engine') => plan.status # "COMPLETED" /\ (device' = "ACTIVE" => engine'.device = "ACTIVE"),
         Held(device') => SomeOverdue(rows) \/ "lift" \in missed' \/ Letting(teller),
         SomeOverdue(rows) => device' # "ACTIVE" \/ "lock" \in missed' \/ engine'.pc \in {"plan", "enforce"},
         plan.status # "COMPLETED" \/ device' = device, Ahead'
  PROVE  Calm'
<1>1. /\ RowsSettled /\ (plan.credit > 0 => \A n \in Rows : Outstanding(rows[n]) = 0)
      /\ Released
  BY NightStands
<1>2. rows' = rows /\ plan' = plan  OBVIOUS
<1>3. RowsSettled'  BY <1>1, <1>2 DEF RowsSettled, PaidIsSettled, NoFeeOverpaid
<1>4. Derived'  BY <1>2 DEF Derived, SomeOverdue
<1>5. Released'  BY <1>1, <1>2 DEF Released
<1>6. /\ Held(device') => SomeOverdue(rows') \/ "lift" \in missed' \/ Letting(teller)
      /\ SomeOverdue(rows') => device' # "ACTIVE" \/ "lock" \in missed' \/ engine'.pc \in {"plan", "enforce"}
  BY <1>2
<1>7. plan'.credit > 0 => \A n \in Rows : Outstanding(rows'[n]) = 0  BY <1>1, <1>2
<1>8. AtWork(engine') => plan'.status # "COMPLETED" /\ (device' = "ACTIVE" => engine'.device = "ACTIVE")
  BY <1>2
<1> HIDE DEF Calm
<1> QED  BY <1>3, <1>4, <1>5, <1>6, <1>7, <1>8, NightAfter

\* The nightly run reads the rows.
LEMMA CalmRead ==
  ASSUME Typed, Calm, EngineRead
  PROVE  Calm'
<1>1. /\ UNCHANGED <<rows, plan, payment, teller>> /\ device' = device /\ missed' = missed
      /\ engine = Asleep /\ engine'.pc = "read" /\ engine'.rows = rows /\ ~engine'.affected
  BY DEF EngineRead
<1>2. Ahead'  BY <1>1 DEF Ahead
<1>3. /\ plan.status = PlanStatus(rows) \/ "status" \in missed
      /\ "status" \in missed => SomeOverdue(rows)
      /\ plan.fees = OutstandingFees(rows) \/ "fees" \in missed
      /\ Held(device) => SomeOverdue(rows) \/ "lift" \in missed \/ Letting(teller)
      /\ SomeOverdue(rows) => device # "ACTIVE" \/ "lock" \in missed
  BY <1>1, CalmIdle
<1>4. ~AtWork(engine')  BY <1>1 DEF AtWork
<1> HIDE DEF Calm
<1> QED  BY <1>1, <1>2, <1>3, <1>4, NightPasses

\* It reads the plan and the phone, and begins or leaves a completed plan alone.
LEMMA CalmStart ==
  ASSUME Typed, Calm, NEW autoLock \in BOOLEAN, EngineStart(autoLock)
  PROVE  Calm'
<1>1. /\ UNCHANGED <<rows, plan, payment, teller>> /\ device' = device /\ missed' = missed
      /\ engine.pc = "read" /\ engine # Asleep /\ engine \in Nightly
  BY PlanParts, RunParts DEF EngineStart, Asleep
<1>2. /\ plan.status = PlanStatus(rows) \/ "status" \in missed
      /\ "status" \in missed => SomeOverdue(rows)
      /\ plan.fees = OutstandingFees(rows) \/ "fees" \in missed
      /\ ~engine.affected /\ \A n \in Rows : n >= engine.row => rows[n] = engine.rows[n]
  BY <1>1 DEF Calm, Derived, Ahead
<1>3. /\ Held(device) => SomeOverdue(rows) \/ "lift" \in missed \/ Letting(teller)
      /\ SomeOverdue(rows) => device # "ACTIVE" \/ "lock" \in missed
  BY <1>1, NightStands DEF AtWork
<1>4. CASE plan.status = "COMPLETED"
  <2>1. engine' = Asleep  BY <1>4 DEF EngineStart
  <2>2. engine'.pc = "asleep"  BY <2>1 DEF Asleep
  <2>3. ~AtWork(engine') /\ Ahead'  BY <2>2 DEF AtWork, Ahead
  <2> HIDE DEF Calm
  <2> QED  BY <1>1, <1>2, <1>3, <2>3, NightPasses
<1>5. CASE plan.status # "COMPLETED"
  <2>1. engine' = [engine EXCEPT !.pc = "charge", !.device = device, !.autoLock = autoLock]
    BY <1>5 DEF EngineStart
  <2>2. /\ engine'.pc = "charge" /\ engine'.device = device /\ engine'.row = engine.row
        /\ engine'.rows = engine.rows
    BY <2>1, <1>1 DEF Nightly
  <2>3. Ahead'  BY <1>1, <1>2, <2>2 DEF Ahead
  <2> HIDE DEF Calm
  <2> QED  BY <1>1, <1>2, <1>3, <1>5, <2>2, <2>3, NightPasses
<1> QED  BY <1>4, <1>5

\* The run moves on to the next row.
LEMMA AheadNext ==
  ASSUME Typed, engine # Asleep, engine.row \in Rows, engine' = NextRow,
         \A n \in Rows : n > engine.row => rows'[n] = engine.rows[n]
  PROVE  Ahead'
<1>1. engine'.pc = "charge" /\ engine'.row = engine.row + 1 /\ engine'.rows = engine.rows  BY NextRowTyped
<1>2. ASSUME NEW n \in Rows, n >= engine.row + 1 PROVE rows'[n] = engine.rows[n]
  <2>1. n \in Int /\ engine.row \in Int  BY Parameters
  <2>2. n > engine.row  BY <1>2, <2>1
  <2> QED  BY <2>2
<1> QED  BY <1>1, <1>2 DEF Ahead

\* A statement that ends the work on a row and leaves the plan and its rows alone.
LEMMA RowPasses ==
  ASSUME Typed, Calm, engine.row \in Rows, engine.pc \in {"charge", "mark", "enforce"},
         engine' = NextRow, UNCHANGED <<rows, plan, payment, teller>>,
         \A n \in Rows : n > engine.row => rows[n] = engine.rows[n],
         missed' \ {"lock"} = missed \ {"lock"},
         device' = "ACTIVE" => device = "ACTIVE", Held(device') => Held(device) \/ SomeOverdue(rows),
         SomeOverdue(rows) => device' # "ACTIVE" \/ "lock" \in missed'
  PROVE  Calm'
<1>1. engine # Asleep /\ AtWork(engine)  BY DEF Asleep, AtWork
<1>2. Ahead'  BY <1>1, AheadNext
<1>3. engine'.affected = engine.affected /\ engine'.pc = "charge" /\ engine'.device = engine.device
  BY <1>1, NextRowTyped
<1>4. engine' # Asleep  BY <1>3 DEF Asleep
<1>5. /\ "status" \in missed' <=> "status" \in missed
      /\ "fees" \in missed' <=> "fees" \in missed
      /\ "lift" \in missed' <=> "lift" \in missed
  OBVIOUS
<1>6. /\ plan.status = PlanStatus(rows) \/ "status" \in missed'
      /\ "status" \in missed' => SomeOverdue(rows)
      /\ plan.fees = OutstandingFees(rows) \/ "fees" \in missed' \/ engine'.affected
  BY <1>3, <1>5 DEF Calm, Derived
<1>7. /\ plan.status # "COMPLETED" /\ (device = "ACTIVE" => engine.device = "ACTIVE")
      /\ Held(device) => SomeOverdue(rows) \/ "lift" \in missed \/ Letting(teller)
  BY <1>1, NightStands DEF AtWork
<1>8. Held(device') => SomeOverdue(rows) \/ "lift" \in missed' \/ Letting(teller)  BY <1>5, <1>7
<1>9. device' = "ACTIVE" => engine'.device = "ACTIVE"  BY <1>3, <1>7
<1> HIDE DEF Calm
<1> QED  BY <1>2, <1>4, <1>6, <1>7, <1>8, <1>9, NightPasses

\* A row that is paid is passed over.
LEMMA CalmSkip ==
  ASSUME Typed, Calm, EngineSkip
  PROVE  Calm'
<1>1. engine # Asleep /\ engine.row \in Rows /\ engine' = NextRow /\ engine.pc = "charge"
      /\ UNCHANGED <<rows, plan, payment, teller>> /\ device' = device /\ missed' = missed
  BY DEF EngineSkip, Asleep
<1>3. \A n \in Rows : n > engine.row => rows[n] = engine.rows[n]
  <2>1. \A n \in Rows : n >= engine.row => rows[n] = engine.rows[n]  BY <1>1 DEF Calm, Ahead
  <2>2. ASSUME NEW n \in Rows, n > engine.row PROVE rows[n] = engine.rows[n]
    <3>1. n \in Int /\ engine.row \in Int  BY <1>1, Parameters
    <3>2. n >= engine.row  BY <2>2, <3>1
    <3> QED  BY <2>1, <3>2
  <2> QED  BY <2>2
<1>4. SomeOverdue(rows) => device' # "ACTIVE" \/ "lock" \in missed'  BY <1>1, NightStands
<1> HIDE DEF Calm
<1> QED  BY <1>1, <1>3, <1>4, RowPasses

\* The phone of an overdue plan is locked, or flagged.
LEMMA CalmEnforce ==
  ASSUME Typed, Calm, EngineEnforce
  PROVE  Calm'
<1>1. engine # Asleep /\ engine.row \in Rows /\ engine' = NextRow /\ engine.pc = "enforce"
      /\ UNCHANGED <<rows, plan, payment, teller>> /\ missed' = missed \ {"lock"}
  BY PlanParts DEF EngineEnforce, Asleep
<1>2. device' = IF Locks
                THEN IF Record!CanMove(device, "LOCKED") THEN "LOCKED" ELSE device
                ELSE IF engine.device \in {"ACTIVE", "ENROLLED"} THEN "OVERDUE"
                ELSE device
  BY DEF EngineEnforce
<1>3. device = "ACTIVE" => engine.device = "ACTIVE"  BY <1>1 DEF Calm, Restraint, AtWork
<1>4. \A n \in Rows : n > engine.row => rows[n] = engine.rows[n]  BY <1>1 DEF Calm, Ahead
<1>5. SomeOverdue(rows)  BY <1>1 DEF Calm, Ahead, SomeOverdue
<1>6. device' # "ACTIVE"
  <2>1. Record!CanMove("ACTIVE", "LOCKED")  BY DEF Record!CanMove, Record!ValidNext
  <2> QED  BY <2>1, <1>2, <1>3
<1>7. missed' \ {"lock"} = missed \ {"lock"}  BY <1>1
<1> HIDE DEF Calm
<1> QED  BY <1>1, <1>4, <1>5, <1>6, <1>7, RowPasses

\* A phone that cannot be locked is on record as such.
LEMMA CalmLockFails ==
  ASSUME Typed, Calm, EngineLockFails
  PROVE  Calm'
<1>1. engine # Asleep /\ engine.row \in Rows /\ engine' = NextRow /\ engine.pc = "enforce"
      /\ UNCHANGED <<rows, plan, payment, teller>> /\ device' = device /\ missed' = missed \cup {"lock"}
  BY PlanParts DEF EngineLockFails, Asleep
<1>2. \A n \in Rows : n > engine.row => rows[n] = engine.rows[n]  BY <1>1 DEF Calm, Ahead
<1>3. missed' \ {"lock"} = missed \ {"lock"} /\ "lock" \in missed'  BY <1>1
<1> HIDE DEF Calm
<1> QED  BY <1>1, <1>2, <1>3, RowPasses

\* The run ends early: what it has not got to is on record.
LEMMA CalmFails ==
  ASSUME Typed, Calm, EngineFails
  PROVE  Calm'
<1>1. engine # Asleep /\ engine' = Asleep
      /\ UNCHANGED <<rows, plan, payment, teller>> /\ device' = device /\ missed' = missed \cup NotReached
  BY DEF EngineFails
<1>3. Ahead' /\ ~AtWork(engine')  BY <1>1 DEF Ahead, AtWork, Asleep
<1>4. /\ "status" \in missed' <=> "status" \in missed \/ engine.pc = "plan"
      /\ "fees" \in missed' <=> "fees" \in missed \/ engine.affected
      /\ "lock" \in missed' <=> "lock" \in missed \/ engine.pc \in {"plan", "enforce"}
      /\ "lift" \in missed' <=> "lift" \in missed
  BY <1>1 DEF NotReached
<1>5. engine.pc = "plan" => SomeOverdue(rows)
  BY PlanParts DEF Calm, Ahead, SomeOverdue
<1>6. /\ plan.status = PlanStatus(rows) \/ "status" \in missed'
      /\ "status" \in missed' => SomeOverdue(rows)
      /\ plan.fees = OutstandingFees(rows) \/ "fees" \in missed'
  BY <1>4, <1>5 DEF Calm, Derived
<1>7. /\ Held(device') => SomeOverdue(rows) \/ "lift" \in missed' \/ Letting(teller)
      /\ SomeOverdue(rows) => device' # "ACTIVE" \/ "lock" \in missed'
  BY <1>1, <1>4, NightStands
<1> HIDE DEF Calm
<1> QED  BY <1>1, <1>3, <1>6, <1>7, NightPasses

\* The run ends and derives the plan's totals again.
LEMMA CalmEnd ==
  ASSUME Typed, Calm, EngineEnd
  PROVE  Calm'
<1>1. engine # Asleep /\ engine' = Asleep /\ UNCHANGED <<rows, payment, device, teller>>
      /\ plan' = (IF engine.affected THEN [plan EXCEPT !.fees = OutstandingFees(rows)] ELSE plan)
      /\ missed' = (IF engine.affected THEN missed \ {"fees"} ELSE missed)
      /\ engine.pc = "charge"
  BY DEF EngineEnd, Asleep
<1>3. plan \in [status: PlanStatuses, credit: Nat, fees: Nat]  BY PlanParts
<1>4. plan'.status = plan.status /\ plan'.credit = plan.credit  BY <1>1, <1>3
<1>5. plan'.fees = OutstandingFees(rows) \/ "fees" \in missed'
  BY <1>1, <1>3 DEF Calm, Derived
<1>6. /\ "status" \in missed' <=> "status" \in missed
      /\ "lock" \in missed' <=> "lock" \in missed
      /\ "lift" \in missed' <=> "lift" \in missed
  BY <1>1
<1>7. /\ RowsSettled /\ (plan.credit > 0 => \A n \in Rows : Outstanding(rows[n]) = 0)
      /\ Released
      /\ Held(device) => SomeOverdue(rows) \/ "lift" \in missed \/ Letting(teller)
      /\ SomeOverdue(rows) => device # "ACTIVE" \/ "lock" \in missed
  BY <1>1, NightStands DEF AtWork
<1>8. RowsSettled'  BY <1>1, <1>7 DEF RowsSettled, PaidIsSettled, NoFeeOverpaid
<1>9. Derived'  BY <1>1, <1>4, <1>5, <1>6 DEF Calm, Derived, SomeOverdue
<1>10. Released'  BY <1>1, <1>4, <1>7 DEF Released
<1>11. Ahead' /\ ~AtWork(engine')  BY <1>1 DEF Ahead, AtWork, Asleep
<1>12. plan'.credit > 0 => \A n \in Rows : Outstanding(rows'[n]) = 0  BY <1>1, <1>4, <1>7
<1>13. /\ Held(device') => SomeOverdue(rows') \/ "lift" \in missed' \/ Letting(teller)
       /\ SomeOverdue(rows') => device' # "ACTIVE" \/ "lock" \in missed'
  BY <1>1, <1>6, <1>7
<1> HIDE DEF Calm
<1> QED  BY <1>1, <1>8, <1>9, <1>10, <1>11, <1>12, <1>13, NightAfter

\* A late fee is charged.
LEMMA CalmCharge ==
  ASSUME Typed, Typed', Calm, EngineCharge
  PROVE  Calm'
<1> DEFINE k == engine.row
           owed == LateFee(Seen, DaysLate(k, engine.day), Rate, Cap)
           grown == owed > Seen.fee
<1>1. engine # Asleep /\ k \in Rows /\ engine.pc = "charge" /\ Seen.status # "PAID"
      /\ UNCHANGED <<plan, payment, device, teller>> /\ missed' = missed
  BY DEF EngineCharge, Asleep
<1>2. /\ rows' = IF grown THEN [rows EXCEPT ![k].fee = owed] ELSE rows
      /\ engine' = [engine EXCEPT !.pc = "mark", !.affected = engine.affected \/ grown]
  BY DEF EngineCharge, Affects
<1>4. engine \in Nightly /\ engine.day \in 0..LastDay /\ engine.rows \in Plans  BY <1>1, RunParts, PlanParts
<1>5. Seen \in SoundRow /\ engine.day \in Nat  BY <1>1, <1>4, Parameters DEF Seen, Plans
<1>6. owed \in 0..Cap /\ (Seen.paid >= Seen.due => owed = 0)  BY <1>1, <1>5, LateFeeIsDue
<1>7. \A n \in Rows : n >= k => rows[n] = engine.rows[n]  BY <1>1 DEF Calm, Ahead
<1>8. rows[k] = Seen
  <2>1. k >= k  BY <1>1, Parameters
  <2> QED  BY <1>1, <1>7, <2>1 DEF Seen
<1> HIDE DEF owed
<1>9. rows \in Plans  BY PlanParts
<1>10. /\ RowsSettled /\ (plan.credit > 0 => \A n \in Rows : Outstanding(rows[n]) = 0)
       /\ Released
       /\ plan.status # "COMPLETED" /\ (device = "ACTIVE" => engine.device = "ACTIVE")
       /\ Held(device) => SomeOverdue(rows) \/ "lift" \in missed \/ Letting(teller)
       /\ SomeOverdue(rows) => device # "ACTIVE" \/ "lock" \in missed
  BY <1>1, NightStands DEF AtWork
<1>11. \A n \in Rows : n # k => rows'[n] = rows[n]
  BY <1>1, <1>2, <1>9, OneFeeWritten
<1>12. rows'[k].status = rows[k].status /\ rows'[k].feePaid = rows[k].feePaid
  BY <1>1, <1>2, <1>9, OneFeeWritten
<1>13. rows'[k].fee = IF grown THEN owed ELSE rows[k].fee
  <2> HIDE DEF grown
  <2>1. CASE grown
    <3>1. rows' = [rows EXCEPT ![k].fee = owed]  BY <2>1, <1>2
    <3>2. rows'[k].fee = owed
      <4>1. rows'[k] = [rows[k] EXCEPT !.fee = owed]  BY <3>1, <1>1, <1>9 DEF Plans
      <4>2. rows[k] \in SoundRow  BY <1>1, <1>9 DEF Plans
      <4> QED  BY <4>1, <4>2 DEF SoundRow, PlanRow
    <3> QED  BY <2>1, <3>2
  <2>2. CASE ~grown  BY <2>2, <1>2
  <2> QED  BY <2>1, <2>2
<1>14. /\ rows[k].fee \in Nat /\ rows[k].feePaid \in Nat /\ rows[k].paid \in Nat /\ rows[k].due \in Nat
       /\ owed \in Nat
  <2>1. rows[k] \in PlanRow  BY <1>5, <1>8, RowParts
  <2>2. 0..Cap \subseteq Nat  BY Parameters
  <2> QED  BY <2>1, <2>2, <1>6, WhatIsOwed
<1>15. RowsSettled'
  <2>1. \A n \in Rows : InOrder(rows[n])  BY <1>10, OrderSays
  <2>2. InOrder(rows'[k])
    <3>1. rows'[k].status # "PAID"  BY <1>1, <1>8, <1>12
    <3>2. rows[k].feePaid <= rows[k].fee  BY <2>1, <1>1 DEF InOrder
    <3>3. rows'[k].feePaid <= rows'[k].fee  BY <3>2, <1>8, <1>12, <1>13, <1>14
    <3> QED  BY <3>1, <3>3 DEF InOrder
  <2>3. \A n \in Rows : InOrder(rows'[n])  BY <2>1, <2>2, <1>11
  <2> QED  BY <2>3 DEF RowsSettled, PaidIsSettled, NoFeeOverpaid, InOrder
<1>16. plan'.credit > 0 => \A n \in Rows : Outstanding(rows'[n]) = 0
  <2> SUFFICES ASSUME plan.credit > 0 PROVE \A n \in Rows : Outstanding(rows'[n]) = 0  BY <1>1
  <2>1. \A n \in Rows : Outstanding(rows[n]) = 0  BY <1>10
  <2>2. Outstanding(rows[k]) = 0 /\ rows[k] \in PlanRow  BY <2>1, <1>1, <1>5, <1>8, RowParts
  <2>3. rows[k].paid >= rows[k].due  BY <2>2, WhatIsOwed DEF Settled
  <2>4. ~grown  BY <2>3, <1>6, <1>8, <1>14
  <2>5. rows' = rows  BY <2>4, <1>2
  <2> QED  BY <2>1, <2>5
<1>17. Derived'
  <2>1. \A n \in Rows : rows'[n].status = rows[n].status  BY <1>11, <1>12
  <2>2. rows' \in Plans  BY DEF Typed
  <2>3. PlanStatus(rows') = PlanStatus(rows)  BY <2>1, <2>2, <1>9, SameStatus
  <2>4. engine' # Asleep /\ (engine'.affected <=> (engine.affected \/ grown))
    <3>1. engine'.pc = "mark" /\ (engine'.affected <=> (engine.affected \/ grown))
      BY <1>2, <1>4 DEF Nightly
    <3> QED  BY <3>1 DEF Asleep
  <2>5. ~grown => rows' = rows  BY <1>2
  <2>6. /\ plan.fees = OutstandingFees(rows) \/ "fees" \in missed \/ engine.affected
        /\ plan.status = PlanStatus(rows) \/ "status" \in missed
        /\ "status" \in missed => SomeOverdue(rows)
    BY <1>1 DEF Calm, Derived
  <2>7. plan' = plan /\ missed' = missed  BY <1>1
  <2>8. SomeOverdue(rows) => SomeOverdue(rows')  BY <2>1 DEF SomeOverdue
  <2> HIDE DEF grown
  <2>9. plan'.status = PlanStatus(rows') \/ "status" \in missed'  BY <2>3, <2>6, <2>7
  <2>10. plan'.fees = OutstandingFees(rows') \/ "fees" \in missed' \/ (engine' # Asleep /\ engine'.affected)
    BY <2>4, <2>5, <2>6, <2>7
  <2> QED  BY <2>6, <2>7, <2>8, <2>9, <2>10 DEF Derived, SomeOverdue
<1>18. Released'  BY <1>1, <1>10 DEF Released
<1>19. plan'.status # "COMPLETED" /\ (device' = "ACTIVE" => engine'.device = "ACTIVE")
  <2>1. engine'.device = engine.device  BY <1>2, <1>4 DEF Nightly
  <2> QED  BY <2>1, <1>1, <1>10
<1>20. /\ Held(device') => SomeOverdue(rows') \/ "lift" \in missed' \/ Letting(teller)
       /\ SomeOverdue(rows') => device' # "ACTIVE" \/ "lock" \in missed'
  <2>1. SomeOverdue(rows) <=> SomeOverdue(rows')  BY <1>11, <1>12 DEF SomeOverdue
  <2> QED  BY <2>1, <1>1, <1>10
<1>21. Ahead'
  <2>1. engine'.pc = "mark" /\ engine'.row = k /\ engine'.rows = engine.rows  BY <1>2, <1>4 DEF Nightly
  <2>2. ASSUME NEW n \in Rows, n > k PROVE rows'[n] = engine.rows[n]
    <3>1. n \in Int /\ k \in Int  BY <1>1, Parameters
    <3>2. n >= k /\ n # k  BY <2>2, <3>1
    <3> QED  BY <3>2, <1>7, <1>11
  <2>3. Seen' = Seen  BY <2>1 DEF Seen
  <2>4. rows'[k].status = Seen.status /\ Seen.status # "PAID"  BY <1>1, <1>8, <1>12
  <2> QED  BY <2>1, <2>2, <2>3, <2>4 DEF Ahead
<1> HIDE DEF Calm
<1> QED  BY <1>1, <1>15, <1>16, <1>17, <1>18, <1>19, <1>20, <1>21, NightAfter

\* A row is marked overdue.
LEMMA CalmMark ==
  ASSUME Typed, Typed', Calm, EngineMarkOverdue
  PROVE  Calm'
<1> DEFINE k == engine.row
<1>1. engine # Asleep /\ k \in Rows /\ engine.pc = "mark"
      /\ UNCHANGED <<plan, payment, device, teller>> /\ missed' = missed
  BY PlanParts DEF EngineMarkOverdue, Asleep
<1>2. /\ rows' = [rows EXCEPT ![k].status = "OVERDUE"]
      /\ engine' = [engine EXCEPT !.pc = "plan"]
  BY DEF EngineMarkOverdue
<1>4. engine \in Nightly  BY <1>1, RunParts, PlanParts
<1>5. rows \in Plans /\ rows' \in Plans  BY PlanParts DEF Typed
<1>6. plan' = plan  BY <1>1
<1>7. /\ engine'.pc = "plan" /\ engine'.affected = engine.affected /\ engine'.row = k
      /\ engine'.rows = engine.rows /\ engine'.device = engine.device
  BY <1>2, <1>4 DEF Nightly
<1>8. \A n \in Rows : n # k => rows'[n] = rows[n]  BY <1>1, <1>2, <1>5, OneStatusWritten
<1>9. rows'[k].status = "OVERDUE"
  <2>1. rows'[k] = [rows[k] EXCEPT !.status = "OVERDUE"]  BY <1>1, <1>2, <1>5 DEF Plans
  <2>2. rows[k] \in SoundRow  BY <1>1, <1>5 DEF Plans
  <2> QED  BY <2>1, <2>2 DEF SoundRow, PlanRow
<1>10. \A n \in Rows : /\ rows'[n].due = rows[n].due /\ rows'[n].paid = rows[n].paid
                       /\ rows'[n].fee = rows[n].fee /\ rows'[n].feePaid = rows[n].feePaid
  BY <1>1, <1>2, <1>5, OneStatusWritten
<1>11. \A n \in Rows : Outstanding(rows'[n]) = Outstanding(rows[n])  BY <1>10, SameAmountsOwe
<1>12. /\ RowsSettled /\ (plan.credit > 0 => \A n \in Rows : Outstanding(rows[n]) = 0)
       /\ plan.status # "COMPLETED" /\ (device = "ACTIVE" => engine.device = "ACTIVE")
  BY <1>1, NightStands DEF AtWork
<1>13. RowsSettled'
  <2>1. \A n \in Rows : InOrder(rows[n])  BY <1>12, OrderSays
  <2>2. \A n \in Rows : InOrder(rows'[n])
    BY <2>1, <1>8, <1>9, <1>10 DEF InOrder
  <2> QED  BY <2>2 DEF RowsSettled, PaidIsSettled, NoFeeOverpaid, InOrder
<1>14. plan'.credit > 0 => \A n \in Rows : Outstanding(rows'[n]) = 0  BY <1>6, <1>11, <1>12
<1>15. SomeOverdue(rows')  BY <1>1, <1>9 DEF SomeOverdue
<1>16. Derived'
  <2>1. \A n \in Rows : FeeDue(rows'[n]) = FeeDue(rows[n])  BY <1>10, SameAmountsOwe
  <2>2. OutstandingFees(rows') = OutstandingFees(rows)  BY <1>5, <2>1, PlansAreRows, SameFeesDue
  <2>3. plan.fees = OutstandingFees(rows) \/ "fees" \in missed \/ engine.affected
    BY <1>1 DEF Calm, Derived
  <2>4. engine' # Asleep  BY <1>7 DEF Asleep
  <2>5. plan'.fees = OutstandingFees(rows') \/ "fees" \in missed' \/ (engine' # Asleep /\ engine'.affected)
    BY <2>2, <2>3, <2>4, <1>1, <1>6, <1>7
  <2> QED  BY <2>5, <1>7, <1>15 DEF Derived, SomeOverdue
<1>17. Released'  BY <1>6, <1>12 DEF Released
<1>18. Ahead'
  <2>1. \A n \in Rows : n > k => rows[n] = engine.rows[n]  BY <1>1 DEF Calm, Ahead
  <2>2. \A n \in Rows : n > k => n # k  BY <1>1, Parameters
  <2>3. \A n \in Rows : n > k => rows'[n] = engine.rows[n]  BY <2>1, <2>2, <1>8
  <2> QED  BY <2>3, <1>7, <1>9 DEF Ahead
<1>19. plan'.status # "COMPLETED" /\ (device' = "ACTIVE" => engine'.device = "ACTIVE")
  BY <1>1, <1>7, <1>12
<1> HIDE DEF Calm
<1> QED  BY <1>1, <1>7, <1>13, <1>14, <1>15, <1>16, <1>17, <1>18, <1>19, NightAfter

\* The plan is marked overdue, after its row.
LEMMA CalmMarkPlan ==
  ASSUME Typed, Calm, EngineMarkPlan
  PROVE  Calm'
<1>1. engine # Asleep /\ engine.row \in Rows /\ engine.pc = "plan"
      /\ UNCHANGED <<rows, payment, device, teller>> /\ missed' = missed \ {"status"}
  BY PlanParts DEF EngineMarkPlan, Asleep
<1>2. /\ plan' = [plan EXCEPT !.status = "OVERDUE"]
      /\ engine' = [engine EXCEPT !.pc = "enforce", !.affected = TRUE]
  BY DEF EngineMarkPlan
<1>4. engine \in Nightly /\ rows \in Plans /\ plan \in [status: PlanStatuses, credit: Nat, fees: Nat]
  BY <1>1, RunParts, PlanParts
<1>5. plan'.status = "OVERDUE" /\ plan'.credit = plan.credit  BY <1>2, <1>4
<1>6. /\ engine'.pc = "enforce" /\ engine'.affected /\ engine'.row = engine.row
      /\ engine'.rows = engine.rows /\ engine'.device = engine.device
  BY <1>2, <1>4 DEF Nightly
<1>7. /\ RowsSettled /\ (plan.credit > 0 => \A n \in Rows : Outstanding(rows[n]) = 0)
      /\ device = "ACTIVE" => engine.device = "ACTIVE"
      /\ Held(device) => SomeOverdue(rows) \/ "lift" \in missed \/ Letting(teller)
  BY <1>1, NightStands DEF AtWork
<1>8. RowsSettled'  BY <1>1, <1>7 DEF RowsSettled, PaidIsSettled, NoFeeOverpaid
<1>9. plan'.credit > 0 => \A n \in Rows : Outstanding(rows'[n]) = 0  BY <1>1, <1>5, <1>7
<1>10. rows[engine.row].status = "OVERDUE"  BY <1>1 DEF Calm, Ahead
<1>11. SomeOverdue(rows) /\ PlanStatus(rows) = "OVERDUE"
  BY <1>1, <1>4, <1>10, StatusSays DEF SomeOverdue
<1>12. engine' # Asleep  BY <1>6 DEF Asleep
<1>13. Derived'  BY <1>1, <1>5, <1>6, <1>11, <1>12 DEF Derived
<1>14. Released'  BY <1>5 DEF Released
<1>15. Ahead'
  <2>1. \A n \in Rows : n > engine.row => rows[n] = engine.rows[n]  BY <1>1 DEF Calm, Ahead
  <2> QED  BY <2>1, <1>1, <1>5, <1>6, <1>10 DEF Ahead
<1>16. plan'.status # "COMPLETED" /\ (device' = "ACTIVE" => engine'.device = "ACTIVE")
  BY <1>1, <1>5, <1>6, <1>7
<1>17. Held(device') => SomeOverdue(rows') \/ "lift" \in missed' \/ Letting(teller)  BY <1>1, <1>11
<1> HIDE DEF Calm
<1> QED  BY <1>1, <1>6, <1>8, <1>9, <1>13, <1>14, <1>15, <1>16, <1>17, NightAfter

\* A reminder sets the status of a row.
LEMMA CalmRemind ==
  ASSUME Typed, Typed', Calm, EngineRemind
  PROVE  Calm'
<1> DEFINE k == engine.row
           s == CHOOSE s \in Reminder : TRUE
<1>1. engine # Asleep /\ k \in Rows /\ engine.pc = "mark" /\ engine' = NextRow
      /\ UNCHANGED <<plan, payment, device, teller>> /\ missed' = missed
  BY PlanParts DEF EngineRemind, Asleep
<1>2. rows' = IF Reminder = {} THEN rows ELSE [rows EXCEPT ![k].status = s]
  BY DEF EngineRemind
<1>4. engine \in Nightly  BY <1>1, RunParts, PlanParts
<1>5. rows \in Plans /\ rows' \in Plans  BY PlanParts DEF Typed
<1>6. Reminder # {} => s \notin {"PAID", "OVERDUE"}
  <2>1. Reminder # {} => s \in Reminder  OBVIOUS
  <2> QED  BY <2>1, ReminderIsStatus
<1>7. Reminder # {} => rows[k].status \notin {"PAID", "OVERDUE"}
  <2>1. Seen.status # "PAID" /\ rows[k].status = Seen.status  BY <1>1 DEF Calm, Ahead
  <2>2. Reminder # {} => Seen.status # "OVERDUE"  BY DEF Reminder
  <2> QED  BY <2>1, <2>2
<1> HIDE DEF s
<1>8. \A n \in Rows : n # k => rows'[n] = rows[n]  BY <1>1, <1>2, <1>5, OneStatusWritten
<1>9. \A n \in Rows : /\ rows'[n].due = rows[n].due /\ rows'[n].paid = rows[n].paid
                      /\ rows'[n].fee = rows[n].fee /\ rows'[n].feePaid = rows[n].feePaid
  <2>1. CASE Reminder = {}  BY <2>1, <1>2
  <2>2. CASE Reminder # {}  BY <2>2, <1>1, <1>2, <1>5, OneStatusWritten
  <2> QED  BY <2>1, <2>2
<1>10. /\ rows'[k].status = "PAID" <=> rows[k].status = "PAID"
       /\ rows'[k].status = "OVERDUE" <=> rows[k].status = "OVERDUE"
  <2>1. CASE Reminder = {}  BY <2>1, <1>2
  <2>2. CASE Reminder # {}
    <3>0. rows' = [rows EXCEPT ![k].status = s]  BY <2>2, <1>2
    <3>1. rows'[k].status = s
      <4>1. rows'[k] = [rows[k] EXCEPT !.status = s]  BY <3>0, <1>1, <1>5 DEF Plans
      <4>2. rows[k] \in SoundRow  BY <1>1, <1>5 DEF Plans
      <4> QED  BY <4>1, <4>2 DEF SoundRow, PlanRow
    <3> QED  BY <3>1, <2>2, <1>6, <1>7
  <2> QED  BY <2>1, <2>2
<1>11. \A n \in Rows : /\ rows'[n].status = "PAID" <=> rows[n].status = "PAID"
                       /\ rows'[n].status = "OVERDUE" <=> rows[n].status = "OVERDUE"
  BY <1>8, <1>10
<1>12. \A n \in Rows : Outstanding(rows'[n]) = Outstanding(rows[n]) /\ FeeDue(rows'[n]) = FeeDue(rows[n])
  BY <1>9, SameAmountsOwe
<1>13. /\ RowsSettled /\ (plan.credit > 0 => \A n \in Rows : Outstanding(rows[n]) = 0)
       /\ Released
       /\ plan.status # "COMPLETED" /\ (device = "ACTIVE" => engine.device = "ACTIVE")
       /\ Held(device) => SomeOverdue(rows) \/ "lift" \in missed \/ Letting(teller)
       /\ SomeOverdue(rows) => device # "ACTIVE" \/ "lock" \in missed
  BY <1>1, NightStands DEF AtWork
<1>14. RowsSettled'
  <2>1. \A n \in Rows : InOrder(rows[n])  BY <1>13, OrderSays
  <2>2. \A n \in Rows : InOrder(rows'[n])
    BY <2>1, <1>9, <1>11, <1>12 DEF InOrder
  <2> QED  BY <2>2 DEF RowsSettled, PaidIsSettled, NoFeeOverpaid, InOrder
<1>15. plan'.credit > 0 => \A n \in Rows : Outstanding(rows'[n]) = 0  BY <1>1, <1>12, <1>13
<1>16. engine'.affected = engine.affected /\ engine'.device = engine.device /\ engine' # Asleep
  <2>1. engine'.affected = engine.affected /\ engine'.pc = "charge" /\ engine'.device = engine.device
    BY <1>1, NextRowTyped
  <2> QED  BY <2>1 DEF Asleep
<1>17. Derived'
  <2>1. PlanStatus(rows') = PlanStatus(rows)  BY <1>5, <1>11, SameStatus
  <2>2. OutstandingFees(rows') = OutstandingFees(rows)  BY <1>5, <1>12, PlansAreRows, SameFeesDue
  <2>3. /\ plan.fees = OutstandingFees(rows) \/ "fees" \in missed \/ engine.affected
        /\ plan.status = PlanStatus(rows) \/ "status" \in missed
        /\ "status" \in missed => SomeOverdue(rows)
    BY <1>1 DEF Calm, Derived
  <2>4. plan' = plan /\ missed' = missed  BY <1>1
  <2>5. SomeOverdue(rows) => SomeOverdue(rows')  BY <1>11 DEF SomeOverdue
  <2>6. plan'.status = PlanStatus(rows') \/ "status" \in missed'  BY <2>1, <2>3, <2>4
  <2>7. plan'.fees = OutstandingFees(rows') \/ "fees" \in missed' \/ (engine' # Asleep /\ engine'.affected)
    BY <2>2, <2>3, <2>4, <1>16
  <2> QED  BY <2>3, <2>4, <2>5, <2>6, <2>7 DEF Derived, SomeOverdue
<1>18. Released'  BY <1>1, <1>13 DEF Released
<1>19. plan'.status # "COMPLETED" /\ (device' = "ACTIVE" => engine'.device = "ACTIVE")
  BY <1>1, <1>13, <1>16
<1>20. /\ Held(device') => SomeOverdue(rows') \/ "lift" \in missed' \/ Letting(teller)
       /\ SomeOverdue(rows') => device' # "ACTIVE" \/ "lock" \in missed'
  <2>1. SomeOverdue(rows) <=> SomeOverdue(rows')  BY <1>11 DEF SomeOverdue
  <2> QED  BY <2>1, <1>1, <1>13
<1>21. Ahead'
  <2>1. \A n \in Rows : n > k => rows[n] = engine.rows[n]  BY <1>1 DEF Calm, Ahead
  <2>2. \A n \in Rows : n > k => n # k  BY <1>1, Parameters
  <2>3. \A n \in Rows : n > k => rows'[n] = engine.rows[n]  BY <2>1, <2>2, <1>8
  <2> QED  BY <2>3, <1>1, AheadNext
<1> HIDE DEF Calm
<1> QED  BY <1>1, <1>14, <1>15, <1>17, <1>18, <1>19, <1>20, <1>21, NightAfter

\* Every step keeps Calm until a request writes over what it has not seen.
LEMMA CalmStep ==
  ASSUME Typed, Typed', MoneyUnlessClashed, CalmUnlessClashed, [Next]_vars
  PROVE  CalmUnlessClashed'
<1> SUFFICES ASSUME clashed' = {} PROVE Calm'  BY DEF CalmUnlessClashed
<1>a. clashed = {}  BY ClashesStay
<1>b. Money /\ Calm  BY <1>a DEF MoneyUnlessClashed, CalmUnlessClashed
<1>1. CASE NewDay \/ UNCHANGED vars  BY <1>1, <1>b, CalmDay
<1>2. ASSUME NEW p \in Payments, NEW amount \in Amounts, NEW target \in Targets, Submit(p, amount, target)
      PROVE  Calm'
  BY <1>2, <1>b, CalmSubmitted
<1>3. ASSUME NEW t \in Tellers, Counter(t) PROVE Calm'
  <2>1. CASE Apply(t)  BY <1>b, <2>1, CalmApplied
  <2>2. CASE TakeBackPayment(t)  BY <1>b, <2>2, CalmTakenBack
  <2>3. CASE CancelUnverified(t)  BY <1>b, <2>3, CalmCancelled
  <2>4. CASE Waive(t)  BY <1>b, <2>4, CalmWaived
  <2>5. CASE Unlock(t) \/ ClearFlag(t)  BY <1>b, <2>5, CalmReleasing
  <2>6. CASE GiveUp(t)  BY <1>b, <2>6, CalmGivenUp
  <2>7. ASSUME \/ \E p \in Payments, amount \in Amounts, target \in Targets : RecordRead(t, p, amount, target)
               \/ \E p \in Payments : VerifyFind(t, p) \/ ReverseFind(t, p)
               \/ \E n \in Rows : WaiveFind(t, n)
               \/ VerifyRead(t)
        PROVE  Calm'
    BY <1>b, <2>7, CalmReading
  <2> QED  BY <1>3, <2>1, <2>2, <2>3, <2>4, <2>5, <2>6, <2>7 DEF Counter
<1>4. CASE Engine
  <2>1. ASSUME NEW autoLock \in BOOLEAN, EngineStart(autoLock) PROVE Calm'  BY <1>b, <2>1, CalmStart
  <2> QED  BY <1>4, <1>b, <2>1, CalmRead, CalmSkip, CalmCharge, CalmMark, CalmMarkPlan, CalmRemind,
              CalmEnforce, CalmLockFails, CalmEnd, CalmFails DEF Engine
<1> QED  BY <1>1, <1>2, <1>3, <1>4 DEF Next

\* What is on record is one of the things that can be.
OnRecord == missed \subseteq {"fees", "status", "lift", "lock"} /\ clashed \subseteq {"money", "order"}

\* OnRecord holds at the start, and every step keeps it.
LEMMA OnRecordKept ==
  /\ Init => OnRecord
  /\ OnRecord /\ [Next]_vars => OnRecord'
<1>1. Init => OnRecord  BY DEF Init, OnRecord
<1>2. ASSUME OnRecord, [Next]_vars PROVE OnRecord'
  <2>1. missed' \subseteq missed \cup {"fees", "status", "lift", "lock"}
    <3>1. CASE NewDay \/ UNCHANGED vars  BY <3>1 DEF NewDay, vars
    <3>2. ASSUME NEW p \in Payments, NEW amount \in Amounts, NEW target \in Targets, Submit(p, amount, target)
          PROVE  missed' = missed
      BY <3>2 DEF Submit
    <3>3. ASSUME NEW t \in Tellers, Counter(t) PROVE missed' \subseteq missed \cup {"lift"}
      BY <3>3 DEF Counter, RecordRead, VerifyFind, ReverseFind, WaiveFind, VerifyRead, Apply, Unlock,
                  ClearFlag, CancelUnverified, TakeBackPayment, Waive, GiveUp
    <3>4. CASE Engine
      BY <3>4 DEF Engine, EngineRead, EngineStart, EngineSkip, EngineCharge, EngineMarkOverdue,
                  EngineMarkPlan, EngineRemind, EngineEnforce, EngineLockFails, EngineEnd, EngineFails,
                  NotReached
    <3> QED  BY <1>2, <3>1, <3>2, <3>3, <3>4 DEF Next
  <2>2. clashed' \subseteq clashed \cup {"money", "order"}
    <3>1. CASE NewDay \/ UNCHANGED vars  BY <3>1 DEF NewDay, vars
    <3>2. ASSUME NEW p \in Payments, NEW amount \in Amounts, NEW target \in Targets, Submit(p, amount, target)
          PROVE  clashed' = clashed
      BY <3>2 DEF Submit
    <3>3. ASSUME NEW t \in Tellers, Counter(t) PROVE clashed' \subseteq clashed \cup {"money", "order"}
      BY <3>3 DEF Counter, RecordRead, VerifyFind, ReverseFind, WaiveFind, VerifyRead, Apply, Unlock,
                  ClearFlag, CancelUnverified, TakeBackPayment, Waive, GiveUp, Clash
    <3>4. CASE Engine
      BY <3>4 DEF Engine, EngineRead, EngineStart, EngineSkip, EngineCharge, EngineMarkOverdue,
                  EngineMarkPlan, EngineRemind, EngineEnforce, EngineLockFails, EngineEnd, EngineFails
    <3> QED  BY <1>2, <3>1, <3>2, <3>3, <3>4 DEF Next
  <2> QED  BY <1>2, <2>1, <2>2 DEF OnRecord
<1> QED  BY <1>1, <1>2

\* What Typed says to the outside.
LEMMA TypedSays ==
  ASSUME Typed, OnRecord
  PROVE  TypeOK
<1>1. \A n \in Rows : rows[n] \in SoundRow  BY PlanParts DEF Plans
<1>2. \A n \in Rows : /\ rows[n].paid \in 0..Due /\ rows[n].due = Due
                      /\ rows[n].fee \in 0..Cap /\ rows[n].feePaid \in 0..Cap
                      /\ rows[n].status \in RowStatuses /\ rows[n].waived \in BOOLEAN
  BY <1>1, RowParts
<1>3. \A p \in Payments :
        /\ payment[p].status \in {"NONE", "PENDING", "VERIFIED", "FAILED", "REFUNDED"}
        /\ payment[p].reversed \in BOOLEAN /\ payment[p].amount \in Amounts \cup {0}
        /\ payment[p].target \in 0..N /\ payment[p].fee \in Nat
  BY PlanParts DEF PaymentRecords
<1>4. \A t \in Tellers : teller[t].pc \in {"free", "found", "apply", "unlock", "clear", "reverse", "waive"}
  BY PlanParts, JobParts
<1>5. engine.pc \in {"asleep", "read", "charge", "mark", "plan", "enforce"}  BY PlanParts, RunParts
<1>6. device \in Record!Statuses  BY PlanParts DEF Devices, Record!Statuses
<1>7. /\ today \in 0..LastDay /\ plan.status \in {"CURRENT", "OVERDUE", "COMPLETED"}
      /\ plan.credit \in Nat /\ plan.fees \in Nat
  BY PlanParts DEF PlanStatuses
<1> QED  BY <1>2, <1>3, <1>4, <1>5, <1>6, <1>7 DEF TypeOK, OnRecord

\* What Calm says to the outside.
LEMMA CalmSays ==
  ASSUME Typed, CalmUnlessClashed
  PROVE  RowsInOrder /\ CompletedIsReleased /\ PhoneFollowsPlan /\ TotalsHonest
<1>1. RowsInOrder /\ CompletedIsReleased
  BY DEF RowsInOrder, CompletedIsReleased, CalmUnlessClashed, Calm, Owing, RowsSettled, Restraint, Released
<1>2. PhoneFollowsPlan
  <2> SUFFICES ASSUME engine = Asleep, \A t \in Tellers : teller[t] = Free, clashed = {}
               PROVE  /\ device \in Restricted => SomeOverdue(rows) \/ "lift" \in missed
                      /\ SomeOverdue(rows) => device \in Restricted \cup {"INACTIVE"} \/ "lock" \in missed
    BY DEF PhoneFollowsPlan, SomeOverdue
  <2>1. device \in Devices  BY PlanParts
  <2>2. ~Letting(teller)  BY FreeIsRequest DEF Letting
  <2>3. /\ Held(device) => SomeOverdue(rows) \/ "lift" \in missed
        /\ SomeOverdue(rows) => device # "ACTIVE" \/ "lock" \in missed
    BY <2>2, CalmIdle DEF CalmUnlessClashed
  <2> QED  BY <2>1, <2>3 DEF Restricted, Devices, Held
<1>3. TotalsHonest
  <2> SUFFICES ASSUME engine = Asleep, clashed = {}
               PROVE  /\ plan.fees = OutstandingFees(rows) \/ "fees" \in missed
                      /\ plan.status = PlanStatus(rows) \/ "status" \in missed
    BY DEF TotalsHonest
  <2> QED  BY CalmIdle DEF CalmUnlessClashed
<1> QED  BY <1>1, <1>2, <1>3

\* Calm is kept.
LEMMA PlanIsCalm == Spec => [](Typed /\ OnRecord /\ CalmUnlessClashed)
<1>1. Init => Typed /\ MoneyUnlessClashed /\ OnRecord /\ CalmUnlessClashed
  BY TypedInit, MoneyInit, OnRecordKept, CalmInit DEF MoneyUnlessClashed, CalmUnlessClashed
<1>2. Typed /\ MoneyUnlessClashed /\ OnRecord /\ CalmUnlessClashed /\ [Next]_vars
        => (Typed /\ MoneyUnlessClashed /\ OnRecord /\ CalmUnlessClashed)'
  <2> SUFFICES ASSUME Typed, MoneyUnlessClashed, OnRecord, CalmUnlessClashed, [Next]_vars
               PROVE  (Typed /\ MoneyUnlessClashed /\ OnRecord /\ CalmUnlessClashed)'
    OBVIOUS
  <2>1. Typed'  BY TypedStep
  <2>2. MoneyUnlessClashed'  BY <2>1, MoneyStep
  <2>3. CalmUnlessClashed'  BY <2>1, CalmStep
  <2>4. OnRecord'  BY OnRecordKept
  <2> QED  BY <2>1, <2>2, <2>3, <2>4
<1> QED  BY <1>1, <1>2, PTL DEF Spec

(* Whatever overlaps and wherever it fails: the columns, the jobs and the payments are
   what their types say, and no row has more principal on it than it costs. *)
THEOREM PlanTypes == Spec => []TypeOK
<1>1. Typed /\ OnRecord /\ CalmUnlessClashed => TypeOK  BY TypedSays
<1> QED  BY <1>1, PlanIsCalm, PTL

(* Requests and nightly runs overlap as they like; for as long as none of them writes
   rows that are not as it saw them: a row marked paid owes nothing, fee included, and
   no fee is paid beyond what was charged. *)
THEOREM PaidRowsAreSettled == Spec => []RowsInOrder
<1>1. Typed /\ OnRecord /\ CalmUnlessClashed => RowsInOrder  BY CalmSays
<1> QED  BY <1>1, PlanIsCalm, PTL

(* Under the same proviso, and that no phone is unlocked after an installment has
   become overdue, the plan completed, or a nightly run begun: a plan that is completed
   has let its phone go, also after a reversal, a waiver or a second payment. *)
THEOREM CompletedMeansReleased == Spec => []CompletedIsReleased
<1>1. Typed /\ OnRecord /\ CalmUnlessClashed => CompletedIsReleased  BY CalmSays
<1> QED  BY <1>1, PlanIsCalm, PTL

(* Under the same provisos: when nothing is under way, a phone is restricted exactly
   while an installment of its plan is overdue, but for a restriction that a failure
   kept from being lifted or put on and nothing has dealt with since. *)
THEOREM PhoneFollowsThePlan == Spec => []PhoneFollowsPlan
<1>1. Typed /\ OnRecord /\ CalmUnlessClashed => PhoneFollowsPlan  BY CalmSays
<1> QED  BY <1>1, PlanIsCalm, PTL

(* Under the same provisos: whenever the nightly run sleeps, the plan's stored status
   and fees are those its rows give, unless a run ended before it wrote them and nothing
   has written them since. *)
THEOREM TotalsAreHonest == Spec => []TotalsHonest
<1>1. Typed /\ OnRecord /\ CalmUnlessClashed => TotalsHonest  BY CalmSays
<1> QED  BY <1>1, PlanIsCalm, PTL

-----------------------------------------------------------------------------
(* Sums over sequences *)

\* The sum over any part of the domain is an integer.
LEMMA PartIsInt ==
  ASSUME NEW S, IsFiniteSet(S), NEW g \in [S -> Int]
  PROVE  \A s \in SUBSET S : Sums(g)[s] \in Int
<1> DEFINE P == {s \in SUBSET S : Sums(g)[s] \in Int}
<1>0. DOMAIN g = S  OBVIOUS
<1>1. {} \in P  BY <1>0, SumTurns
<1>2. ASSUME NEW s \in SUBSET S, s # {}, s \ {CHOOSE x \in s : TRUE} \in P PROVE s \in P
  <2> DEFINE x == CHOOSE x \in s : TRUE
  <2>1. x \in S  BY <1>2
  <2>2. Sums(g)[s] = g[x] + Sums(g)[s \ {x}]  BY <1>0, <1>2, SumTurns
  <2>3. Sums(g)[s \ {x}] \in Int /\ g[x] \in Int  BY <1>2, <2>1
  <2> QED  BY <2>2, <2>3
<1> HIDE DEF P
<1>3. SUBSET S \subseteq P  BY <1>1, <1>2, SubsetInduction
<1> QED  BY <1>3 DEF P

\* A sum may be taken in any order.
LEMMA SumAnyOrder ==
  ASSUME NEW S, IsFiniteSet(S), NEW g \in [S -> Int]
  PROVE  \A s \in SUBSET S : \A a \in s : Sums(g)[s] = Sums(g)[s \ {a}] + g[a]
<1> DEFINE Right(s) == \A a \in s : Sums(g)[s] = Sums(g)[s \ {a}] + g[a]
           P == {k \in Nat : \A s \in SUBSET S : Cardinality(s) <= k => Right(s)}
<1>0. DOMAIN g = S /\ \A s \in SUBSET S : Sums(g)[s] \in Int  BY PartIsInt
<1>1. 0 \in P
  <2>1. ASSUME NEW s \in SUBSET S, Cardinality(s) <= 0 PROVE Right(s)
    <3>1. s = {}  BY <2>1, SmallIsEmpty
    <3> QED  BY <3>1
  <2> QED  BY <2>1
<1>2. ASSUME NEW k \in Nat, k \in P PROVE k + 1 \in P
  <2>1. ASSUME NEW s \in SUBSET S, Cardinality(s) <= k + 1, NEW a \in s
        PROVE  Sums(g)[s] = Sums(g)[s \ {a}] + g[a]
    <3> DEFINE x == CHOOSE x \in s : TRUE
               t == s \ {x}
               u == s \ {a}
    <3>1. x \in s /\ x \in S /\ a \in S /\ g[x] \in Int /\ g[a] \in Int  BY <2>1
    <3>2. Sums(g)[s] = g[x] + Sums(g)[t]  BY <1>0, <2>1, SumTurns
    <3>3. \A y \in s : s \ {y} \in SUBSET S /\ Cardinality(s \ {y}) <= k
      <4> TAKE y \in s
      <4>1. /\ s \ {y} \in SUBSET S /\ Cardinality(s) \in Nat
            /\ Cardinality(s \ {y}) = Cardinality(s) - 1
        BY OneLess
      <4> QED  BY <2>1, <4>1
    <3>4. /\ t \in SUBSET S /\ Cardinality(t) <= k /\ u \in SUBSET S /\ Cardinality(u) <= k
      <4> HIDE DEF x
      <4> QED  BY <3>1, <3>3
    <3>5. CASE x = a
      <4>1. t = u /\ g[x] = g[a]  BY <3>5
      <4> HIDE DEF x, t, u
      <4>2. Sums(g)[t] \in Int  BY <1>0, <3>4
      <4> QED  BY <3>1, <3>2, <4>1, <4>2 DEF u
    <3>6. CASE x # a
      <4>1. a \in t /\ x \in u /\ t \ {a} = u \ {x} /\ t \ {a} \in SUBSET S  BY <3>1, <3>6
      <4> HIDE DEF x, t, u
      <4>2. Sums(g)[t] = Sums(g)[t \ {a}] + g[a]  BY <1>2, <3>4, <4>1
      <4>3. Sums(g)[u] = Sums(g)[u \ {x}] + g[x]  BY <1>2, <3>4, <4>1
      <4>4. Sums(g)[t \ {a}] \in Int /\ Sums(g)[t] \in Int /\ Sums(g)[u] \in Int  BY <1>0, <3>4, <4>1
      <4>5. Sums(g)[s] = Sums(g)[u] + g[a]  BY <3>1, <3>2, <4>1, <4>2, <4>3, <4>4, SMTT(20)
      <4> QED  BY <4>5 DEF u
    <3> QED  BY <3>5, <3>6
  <2> QED  BY <2>1
<1> HIDE DEF P
<1>3. Nat \subseteq P  BY <1>1, <1>2, NatSetInduction
<1>4. ASSUME NEW s \in SUBSET S PROVE Right(s)
  <2>1. Cardinality(s) \in Nat /\ Cardinality(s) <= Cardinality(s)  BY FS_Subset, FS_CardinalityType
  <2> QED  BY <1>3, <2>1 DEF P
<1> QED  BY <1>4

\* A part sums to the same wherever it is a part of.
LEMMA SumOfPart ==
  ASSUME NEW S, IsFiniteSet(S), NEW g \in [S -> Int], NEW T \in SUBSET S
  PROVE  SumFunction([x \in T |-> g[x]]) = Sums(g)[T]
<1> DEFINE h == [x \in T |-> g[x]]
           P == {s \in SUBSET T : Sums(h)[s] = Sums(g)[s]}
<1>0. DOMAIN g = S /\ DOMAIN h = T /\ IsFiniteSet(T) /\ T \in SUBSET T  BY FS_Subset
<1>1. {} \in P  BY <1>0, SumTurns
<1>2. ASSUME NEW s \in SUBSET T, s # {}, s \ {CHOOSE x \in s : TRUE} \in P PROVE s \in P
  <2> DEFINE x == CHOOSE x \in s : TRUE
  <2>1. x \in T /\ s \in SUBSET S  BY <1>2
  <2>2. Sums(g)[s] = g[x] + Sums(g)[s \ {x}]  BY <1>0, <1>2, <2>1, SumTurns
  <2>3. Sums(h)[s] = h[x] + Sums(h)[s \ {x}]  BY <1>0, <1>2, SumTurns
  <2>4. Sums(h)[s \ {x}] = Sums(g)[s \ {x}]  BY <1>2
  <2>5. h[x] = g[x]  BY <2>1
  <2> QED  BY <2>2, <2>3, <2>4, <2>5
<1> HIDE DEF P
<1>3. SUBSET T \subseteq P  BY <1>0, <1>1, <1>2, SubsetInduction
<1>4. Sums(h)[T] = Sums(g)[T]  BY <1>0, <1>3 DEF P
<1> QED  BY <1>0, <1>4, SumIsLast

\* One more place.
LEMMA SumOneMore ==
  ASSUME NEW m \in Nat, NEW g \in [1..(m + 1) -> Int]
  PROVE  SumFunction(g) = SumFunction([i \in 1..m |-> g[i]]) + g[m + 1]
<1> DEFINE S == 1..(m + 1)
<1>1. IsFiniteSet(S) /\ DOMAIN g = S  BY FS_Interval
<1>2. 1..m \in SUBSET S /\ S \ {m + 1} = 1..m /\ m + 1 \in S /\ S \in SUBSET S  OBVIOUS
<1> HIDE DEF S
<1>3. g \in [S -> Int]  BY DEF S
<1>4. Sums(g)[S] = Sums(g)[S \ {m + 1}] + g[m + 1]
  <2>1. \A s \in SUBSET S : \A a \in s : Sums(g)[s] = Sums(g)[s \ {a}] + g[a]
    BY <1>1, <1>3, SumAnyOrder
  <2> QED  BY <1>2, <2>1
<1>5. SumFunction([i \in 1..m |-> g[i]]) = Sums(g)[1..m]  BY <1>1, <1>2, <1>3, SumOfPart
<1> QED  BY <1>1, <1>2, <1>4, <1>5, SumIsLast

\* No place.
LEMMA SumOfNone == \A g : DOMAIN g = {} => SumFunction(g) = 0
<1> SUFFICES ASSUME NEW g, DOMAIN g = {} PROVE SumFunction(g) = 0  OBVIOUS
<1>1. IsFiniteSet(DOMAIN g)  BY FS_EmptySet
<1> QED  BY <1>1, SumTurns, SumIsLast

\* Two stretches of places.
LEMMA SumJoins ==
  ASSUME NEW a \in Nat, NEW b \in Nat, NEW g \in [1..(a + b) -> Int]
  PROVE  SumFunction(g) = SumFunction([i \in 1..a |-> g[i]]) + SumFunction([i \in 1..b |-> g[a + i]])
<1> DEFINE first == SumFunction([i \in 1..a |-> g[i]])
           second(k) == SumFunction([i \in 1..k |-> g[a + i]])
           whole(k) == SumFunction([i \in 1..(a + k) |-> g[i]])
           P == {k \in Nat : k <= b => whole(k) = first + second(k)}
<1>0. ASSUME NEW k \in Nat, k <= b
      PROVE  /\ [i \in 1..(a + k) |-> g[i]] \in [1..(a + k) -> Int]
             /\ [i \in 1..k |-> g[a + i]] \in [1..k -> Int]
             /\ whole(k) \in Int /\ second(k) \in Int
  <2>1. /\ [i \in 1..(a + k) |-> g[i]] \in [1..(a + k) -> Int]
        /\ [i \in 1..k |-> g[a + i]] \in [1..k -> Int]
    BY <1>0
  <2>2. IsFiniteSet(1..(a + k)) /\ IsFiniteSet(1..k)  BY <1>0, FS_Interval
  <2> QED  BY <2>1, <2>2, SumIsInt
<1>1. 0 \in P
  <2>1. 1..0 = {} /\ DOMAIN [i \in 1..0 |-> g[a + i]] = {} /\ a + 0 = a  OBVIOUS
  <2>2. second(0) = 0  BY <2>1, SumOfNone
  <2>3. whole(0) = first  BY <2>1
  <2>4. 0 \in Nat /\ 0 <= b  OBVIOUS
  <2> HIDE DEF whole, first, second
  <2>5. whole(0) \in Int  BY <1>0, <2>4
  <2>6. whole(0) = first + second(0)  BY <2>2, <2>3, <2>5
  <2> QED  BY <2>6
<1>2. ASSUME NEW k \in Nat, k \in P PROVE k + 1 \in P
  <2> SUFFICES ASSUME k + 1 <= b PROVE whole(k + 1) = first + second(k + 1)  OBVIOUS
  <2> DEFINE w == [i \in 1..(a + k + 1) |-> g[i]]
             v == [i \in 1..(k + 1) |-> g[a + i]]
  <2>1. w \in [1..(a + k + 1) -> Int] /\ v \in [1..(k + 1) -> Int]  OBVIOUS
  <2>2. /\ [i \in 1..(a + k) |-> w[i]] = [i \in 1..(a + k) |-> g[i]]
        /\ [i \in 1..k |-> v[i]] = [i \in 1..k |-> g[a + i]]
        /\ w[a + k + 1] = g[a + k + 1] /\ v[k + 1] = g[a + (k + 1)] /\ a + k + 1 = a + (k + 1)
        /\ g[a + k + 1] \in Int
    OBVIOUS
  <2>3. whole(k + 1) = SumFunction(w) /\ second(k + 1) = SumFunction(v)  BY <2>2
  <2> HIDE DEF w, v
  <2>4. SumFunction(w) = SumFunction([i \in 1..(a + k) |-> w[i]]) + w[a + k + 1]
    <3> DEFINE c == a + k
    <3>1. c \in Nat /\ w \in [1..(c + 1) -> Int]  BY <2>1
    <3> HIDE DEF c
    <3>2. SumFunction(w) = SumFunction([i \in 1..c |-> w[i]]) + w[c + 1]  BY <3>1, SumOneMore
    <3> QED  BY <3>2 DEF c
  <2>5. SumFunction(v) = SumFunction([i \in 1..k |-> v[i]]) + v[k + 1]  BY <2>1, SumOneMore
  <2>6. SumFunction(w) = whole(k) + g[a + k + 1] /\ SumFunction(v) = second(k) + g[a + k + 1]
    BY <2>2, <2>4, <2>5
  <2>7. whole(k) = first + second(k)  BY <1>2
  <2>8. whole(k) \in Int /\ second(k) \in Int /\ g[a + k + 1] \in Int
    <3>1. k <= b  OBVIOUS
    <3> HIDE DEF whole, second
    <3> QED  BY <1>0, <2>2, <3>1
  <2>9. first \in Int
    <3>1. a + 0 = a /\ 0 <= b  OBVIOUS
    <3> QED  BY <1>0, <3>1
  <2> HIDE DEF first, second, whole
  <2> QED  BY <2>3, <2>6, <2>7, <2>8, <2>9
<1>3. Nat \subseteq P
  <2> HIDE DEF P
  <2> QED  BY <1>1, <1>2, NatSetInduction
<1>4. whole(b) = first + second(b)  BY <1>3, SMTT(40)
<1>5. g = [i \in 1..(a + b) |-> g[i]]  OBVIOUS
<1> QED  BY <1>4, <1>5

-----------------------------------------------------------------------------
(* Counter: the rows of a schedule *)

BilledRow ==
  [id: Nat \X Nat, due: Nat, paid: Nat, fee: {0}, feePaid: {0}, status: RowStatuses, waived: BOOLEAN]

\* What a row without fees owes.
LEMMA BilledOwes ==
  ASSUME NEW row \in BilledRow
  PROVE  /\ row.due \in Nat /\ row.paid \in Nat /\ FeeDue(row) = 0
         /\ PrincipalDue(row) = IF row.due >= row.paid THEN row.due - row.paid ELSE 0
         /\ PrincipalDue(row) \in Nat /\ Outstanding(row) = PrincipalDue(row)
<1>1. row.due \in Nat /\ row.paid \in Nat /\ row.fee = 0 /\ row.feePaid = 0  BY DEF BilledRow
<1>2. FeeDue(row) = 0
  <2>1. row.fee - row.feePaid = 0  BY <1>1
  <2>2. Max({0, 0}) = 0  BY MaxOfTwo
  <2> QED  BY <2>1, <2>2 DEF FeeDue
<1>3. PrincipalDue(row) = IF row.due >= row.paid THEN row.due - row.paid ELSE 0
  BY <1>1, MaxOfTwo DEF PrincipalDue
<1>4. PrincipalDue(row) \in Nat  BY <1>1, <1>3
<1> QED  BY <1>1, <1>2, <1>3, <1>4 DEF Outstanding

Dues(rs) == [n \in DOMAIN rs |-> PrincipalDue(rs[n])]
OwedIn(rs) == Sum(rs, PrincipalDue)

\* The sums of a schedule are sums over its rows.
LEMMA BilledSums ==
  ASSUME NEW m \in Nat, NEW rs \in [1..m -> BilledRow]
  PROVE  /\ PrincipalPaid(rs) = SumFunction(Paids(rs)) /\ OwedIn(rs) = SumFunction(Dues(rs))
         /\ Paids(rs) \in [1..m -> Int] /\ Dues(rs) \in [1..m -> Int]
         /\ \A n \in 1..m : Paids(rs)[n] = rs[n].paid /\ Dues(rs)[n] = PrincipalDue(rs[n])
         /\ PrincipalPaid(rs) \in Nat /\ OwedIn(rs) \in Nat
         /\ IsFiniteSet(1..m)
<1>1. PrincipalPaid(rs) = SumFunction(Paids(rs)) /\ OwedIn(rs) = SumFunction(Dues(rs))
  BY DEF PrincipalPaid, OwedIn, Sum, Paids, Dues
<1>2. \A n \in 1..m : rs[n].paid \in Nat /\ PrincipalDue(rs[n]) \in Nat
  BY BilledOwes
<1>3. Paids(rs) \in [1..m -> Nat] /\ Dues(rs) \in [1..m -> Nat]
  BY <1>2 DEF Paids, Dues
<1>4. IsFiniteSet(1..m)  BY FS_Interval
<1>5. PrincipalPaid(rs) \in Nat /\ OwedIn(rs) \in Nat
  BY <1>1, <1>3, <1>4, SumIsNat
<1> QED  BY <1>1, <1>3, <1>4, <1>5 DEF Paids, Dues

\* One row changes.
LEMMA OneBilledChanges ==
  ASSUME NEW m \in Nat, NEW rs \in [1..m -> BilledRow], NEW new \in [1..m -> BilledRow], NEW n \in 1..m,
         \A i \in 1..m : i # n => new[i] = rs[i]
  PROVE  /\ PrincipalPaid(new) = PrincipalPaid(rs) + new[n].paid - rs[n].paid
         /\ OwedIn(new) = OwedIn(rs) + PrincipalDue(new[n]) - PrincipalDue(rs[n])
<1> DEFINE g == Paids(rs)
           h == Paids(new)
           dg == Dues(rs)
           dh == Dues(new)
<1>1. /\ PrincipalPaid(rs) = SumFunction(g) /\ OwedIn(rs) = SumFunction(dg)
      /\ g \in [1..m -> Int] /\ dg \in [1..m -> Int] /\ IsFiniteSet(1..m)
      /\ \A i \in 1..m : g[i] = rs[i].paid /\ dg[i] = PrincipalDue(rs[i])
  BY BilledSums
<1>2. /\ PrincipalPaid(new) = SumFunction(h) /\ OwedIn(new) = SumFunction(dh)
      /\ h \in [1..m -> Int] /\ dh \in [1..m -> Int]
      /\ \A i \in 1..m : h[i] = new[i].paid /\ dh[i] = PrincipalDue(new[i])
  BY BilledSums
<1> HIDE DEF g, h, dg, dh
<1>3. \A i \in 1..m : i # n => h[i] = g[i]  BY <1>1, <1>2
<1>6. \A i \in 1..m : i # n => dh[i] = dg[i]  BY <1>1, <1>2
<1> DEFINE S == 1..m
<1>7. g \in [S -> Int] /\ h \in [S -> Int] /\ dg \in [S -> Int] /\ dh \in [S -> Int]
      /\ IsFiniteSet(S) /\ n \in S
  BY <1>1, <1>2
<1>8. SameBut(S, g, h, n) /\ SameBut(S, dg, dh, n)
  BY <1>3, <1>6 DEF SameBut
<1> HIDE DEF S
<1>4. SumFunction(h) = SumFunction(g) + h[n] - g[n]  BY <1>7, <1>8, SumMoves, ZenonT(40)
<1>5. SumFunction(dh) = SumFunction(dg) + dh[n] - dg[n]  BY <1>7, <1>8, SumMoves, ZenonT(40)
<1> QED  BY <1>1, <1>2, <1>4, <1>5

\* Two schedules one after the other.
LEMMA BilledJoin ==
  ASSUME NEW a \in Seq(BilledRow), NEW b \in Seq(BilledRow)
  PROVE  /\ a \o b \in Seq(BilledRow)
         /\ PrincipalPaid(a \o b) = PrincipalPaid(a) + PrincipalPaid(b)
         /\ OwedIn(a \o b) = OwedIn(a) + OwedIn(b)
<1> DEFINE k == Len(a)
           l == Len(b)
           c == a \o b
<1>1. /\ k \in Nat /\ l \in Nat /\ a \in [1..k -> BilledRow] /\ b \in [1..l -> BilledRow]
      /\ c \in Seq(BilledRow) /\ Len(c) = k + l /\ c \in [1..(k + l) -> BilledRow]
      /\ \A i \in 1..k : c[i] = a[i]
      /\ \A i \in 1..l : c[k + i] = b[i]
  <2>1. c \in Seq(BilledRow) /\ Len(c) = k + l  BY ConcatProperties
  <2>2. \A i \in 1..(k + l) : c[i] = IF i <= k THEN a[i] ELSE b[i - k]  BY ConcatProperties
  <2>3. k \in Nat /\ l \in Nat /\ a \in [1..k -> BilledRow] /\ b \in [1..l -> BilledRow]
        /\ c \in [1..(k + l) -> BilledRow]
    BY <2>1, LenProperties
  <2> HIDE DEF k, l, c
  <2>4. \A i \in 1..k : c[i] = a[i]  BY <2>2, <2>3
  <2>5. \A i \in 1..l : c[k + i] = b[i]
    <3> TAKE i \in 1..l
    <3> DEFINE j == k + i
    <3>1. j \in 1..(k + l) /\ ~(j <= k) /\ j - k = i  BY <2>3
    <3> HIDE DEF j
    <3>2. c[j] = b[j - k]  BY <2>2, <3>1
    <3> QED  BY <3>1, <3>2 DEF j
  <2> QED  BY <2>1, <2>3, <2>4, <2>5
<1> HIDE DEF k, l, c
<1>0. k + l \in Nat  BY <1>1
<1>2. /\ PrincipalPaid(c) = SumFunction(Paids(c)) /\ OwedIn(c) = SumFunction(Dues(c))
      /\ Paids(c) \in [1..(k + l) -> Int] /\ Dues(c) \in [1..(k + l) -> Int]
  BY <1>0, <1>1, BilledSums
<1>3. /\ [i \in 1..k |-> Paids(c)[i]] = Paids(a) /\ [i \in 1..l |-> Paids(c)[k + i]] = Paids(b)
  BY <1>1 DEF Paids
<1>4. /\ [i \in 1..k |-> Dues(c)[i]] = Dues(a) /\ [i \in 1..l |-> Dues(c)[k + i]] = Dues(b)
  BY <1>1 DEF Dues
<1>5. SumFunction(Paids(c)) = SumFunction(Paids(a)) + SumFunction(Paids(b))
  BY <1>1, <1>2, <1>3, SumJoins, ZenonT(60)
<1>6. SumFunction(Dues(c)) = SumFunction(Dues(a)) + SumFunction(Dues(b))
  BY <1>1, <1>2, <1>4, SumJoins, ZenonT(60)
<1>7. /\ PrincipalPaid(a) = SumFunction(Paids(a)) /\ OwedIn(a) = SumFunction(Dues(a))
      /\ PrincipalPaid(b) = SumFunction(Paids(b)) /\ OwedIn(b) = SumFunction(Dues(b))
  BY <1>1, BilledSums
<1> QED  BY <1>1, <1>2, <1>5, <1>6, <1>7 DEF c

\* No row.
LEMMA BilledNothing == PrincipalPaid(<<>>) = 0 /\ OwedIn(<<>>) = 0 /\ <<>> \in Seq(BilledRow)
<1>1. DOMAIN Paids(<<>>) = {} /\ DOMAIN Dues(<<>>) = {}  BY DEF Paids, Dues
<1>2. PrincipalPaid(<<>>) = SumFunction(Paids(<<>>)) /\ OwedIn(<<>>) = SumFunction(Dues(<<>>))
  BY DEF PrincipalPaid, OwedIn, Sum, Paids, Dues
<1> QED  BY <1>1, <1>2, SumOfNone

\* One row more.
LEMMA BilledAppend ==
  ASSUME NEW m \in Nat, NEW rs \in [1..(m + 1) -> BilledRow]
  PROVE  LET first == [i \in 1..m |-> rs[i]] IN
         PrincipalPaid(rs) = PrincipalPaid(first) + rs[m + 1].paid
<1> DEFINE first == [i \in 1..m |-> rs[i]]
<1>0. m + 1 \in Nat /\ m + 1 \in 1..(m + 1)  OBVIOUS
<1>1. first \in [1..m -> BilledRow]  OBVIOUS
<1>2. PrincipalPaid(rs) = SumFunction(Paids(rs)) /\ Paids(rs) \in [1..(m + 1) -> Int]
      /\ Paids(rs)[m + 1] = rs[m + 1].paid
  BY <1>0, BilledSums
<1>3. PrincipalPaid(first) = SumFunction(Paids(first))  BY <1>1, BilledSums
<1>4. [i \in 1..m |-> Paids(rs)[i]] = Paids(first)  BY DEF Paids
<1> HIDE DEF first
<1>5. SumFunction(Paids(rs)) = SumFunction(Paids(first)) + Paids(rs)[m + 1]
  BY <1>2, <1>4, SumOneMore
<1> QED  BY <1>2, <1>3, <1>5 DEF first

-----------------------------------------------------------------------------
(* Counter: a payment spread over a schedule *)

BilledSpreads(m) == [rows: [1..m -> BilledRow], left: Nat, fees: {0}]

\* What a payment may make of a row without fees.
BilledInto(o, w) ==
  /\ w.id = o.id /\ w.due = o.due /\ w.paid >= o.paid
  /\ w.paid = o.paid \/ w.paid <= w.due

\* One turn of the loop, over rows without fees.
LEMMA OneBilled ==
  ASSUME NEW m \in Nat, NEW sp \in BilledSpreads(m), NEW n \in 1..m
  PROVE  LET t == Settle(sp, n) IN
         /\ t \in BilledSpreads(m)
         /\ \A i \in 1..m : i # n => t.rows[i] = sp.rows[i]
         /\ BilledInto(sp.rows[n], t.rows[n])
         /\ t.left = sp.left - (t.rows[n].paid - sp.rows[n].paid)
<1> DEFINE row == sp.rows[n]
           left == sp.left
           toFee == Min({FeeDue(row), left})
           toPrincipal == Min({PrincipalDue(row), left - toFee})
           more == [row EXCEPT !.paid = @ + toPrincipal, !.feePaid = @ + toFee]
           new == IF Settled(more) THEN [more EXCEPT !.status = "PAID"] ELSE more
           t == Settle(sp, n)
<1>0. row \in BilledRow /\ left \in Nat /\ sp.fees = 0 /\ sp.rows \in [1..m -> BilledRow]
  BY DEF BilledSpreads
<1> DEFINE p == PrincipalDue(row)
<1>1. FeeDue(row) = 0 /\ row.due \in Nat /\ row.paid \in Nat /\ p \in Nat
      /\ p = IF row.due >= row.paid THEN row.due - row.paid ELSE 0
  BY <1>0, BilledOwes
<1>2. toFee = 0
  <2>1. Min({0, left}) = 0  BY <1>0, MinOfTwo
  <2> QED  BY <1>1, <2>1
<1>3. toPrincipal = IF p <= left THEN p ELSE left
  <2>1. left - toFee = left  BY <1>0, <1>2
  <2>2. Min({p, left}) = IF p <= left THEN p ELSE left  BY <1>0, <1>1, MinOfTwo
  <2> QED  BY <2>1, <2>2
<1> DEFINE np == row.paid + toPrincipal
<1>a. row = sp.rows[n] /\ left = sp.left  OBVIOUS
<1>4. CASE left <= 0 \/ Outstanding(row) <= 0
  <2>1. t = sp  BY <1>4 DEF Settle
  <2> HIDE DEF row, left, t
  <2>2. BilledInto(row, row)  BY <1>1 DEF BilledInto
  <2>3. left = left - (row.paid - row.paid)  BY <1>0, <1>1
  <2> QED  BY <2>1, <2>2, <2>3 DEF row, left, t
<1>5. CASE ~(left <= 0 \/ Outstanding(row) <= 0)
  <2>1. t = [rows |-> [sp.rows EXCEPT ![n] = new], left |-> left - toFee - toPrincipal,
             fees |-> sp.fees + toFee]
    BY <1>5 DEF Settle
  <2> HIDE DEF row, left, t, p, toFee, toPrincipal
  <2>2. np \in Nat /\ np >= row.paid /\ (np = row.paid \/ np <= row.due)
        /\ left - toPrincipal \in Nat /\ left - toFee - toPrincipal = left - toPrincipal
        /\ left - toPrincipal = left - (np - row.paid)
    <3> DEFINE pd == row.paid
               due == row.due
    <3>1. pd \in Nat /\ due \in Nat /\ left \in Nat /\ p \in Nat
          /\ p = IF due >= pd THEN due - pd ELSE 0
      BY <1>0, <1>1
    <3>2. toFee = 0 /\ toPrincipal = IF p <= left THEN p ELSE left  BY <1>2, <1>3
    <3>3. np = pd + toPrincipal  OBVIOUS
    <3> HIDE DEF pd, due, np
    <3>4. np \in Nat /\ np >= pd /\ (np = pd \/ np <= due)
          /\ left - toPrincipal \in Nat /\ left - toFee - toPrincipal = left - toPrincipal
          /\ left - toPrincipal = left - (np - pd)
      BY <3>1, <3>2, <3>3
    <3> QED  BY <3>4 DEF pd, due
  <2>3. more = [row EXCEPT !.paid = np, !.feePaid = 0]
    <3>1. row.feePaid = 0  BY <1>0 DEF BilledRow
    <3> QED  BY <1>0, <1>2, <3>1 DEF BilledRow
  <2> HIDE DEF np, more
  <2>4. more \in BilledRow /\ more.id = row.id /\ more.due = row.due /\ more.paid = np
    BY <1>0, <2>2, <2>3 DEF BilledRow
  <2>5. new \in BilledRow /\ new.id = row.id /\ new.due = row.due /\ new.paid = np
    BY <2>4 DEF BilledRow, RowStatuses
  <2> HIDE DEF new
  <2>6. BilledInto(row, new)  BY <2>2, <2>5 DEF BilledInto
  <2>7. t.rows = [sp.rows EXCEPT ![n] = new] /\ t.left = left - toPrincipal
        /\ t = [rows |-> [sp.rows EXCEPT ![n] = new], left |-> left - toPrincipal, fees |-> 0]
    BY <1>0, <1>2, <2>1, <2>2
  <2>8. [sp.rows EXCEPT ![n] = new] \in [1..m -> BilledRow]  BY <1>0, <2>5
  <2>9. t \in BilledSpreads(m)  BY <2>2, <2>7, <2>8 DEF BilledSpreads
  <2>10. t.rows[n] = new /\ \A i \in 1..m : i # n => t.rows[i] = sp.rows[i]  BY <1>0, <2>7
  <2>11. t.left = left - (new.paid - row.paid)  BY <2>2, <2>5, <2>7
  <2> QED  BY <1>a, <2>6, <2>9, <2>10, <2>11 DEF t
<1> QED  BY <1>4, <1>5

BilledInv(m, o, money, sp) ==
  /\ sp \in BilledSpreads(m) /\ sp.left <= money
  /\ \A i \in 1..m : BilledInto(o[i], sp.rows[i])
  /\ PrincipalPaid(sp.rows) + sp.left = PrincipalPaid(o) + money
  /\ (\A i \in 1..m : o[i].paid <= o[i].due)
       => OwedIn(sp.rows) + PrincipalPaid(sp.rows) = OwedIn(o) + PrincipalPaid(o)

\* One turn keeps it.
LEMMA BilledTurn ==
  ASSUME NEW m \in Nat, NEW o \in [1..m -> BilledRow], NEW money \in Nat, NEW n \in 1..m,
         NEW sp, BilledInv(m, o, money, sp)
  PROVE  BilledInv(m, o, money, Settle(sp, n))
<1> DEFINE t == Settle(sp, n)
<1>1. sp \in BilledSpreads(m)  BY DEF BilledInv
<1>2. /\ t \in BilledSpreads(m)
      /\ \A i \in 1..m : i # n => t.rows[i] = sp.rows[i]
      /\ BilledInto(sp.rows[n], t.rows[n])
      /\ t.left = sp.left - (t.rows[n].paid - sp.rows[n].paid)
  BY <1>1, OneBilled
<1> HIDE DEF t
<1> DEFINE a == sp.rows
           b == t.rows
           x == b[n].paid - a[n].paid
<1>3. a \in [1..m -> BilledRow] /\ b \in [1..m -> BilledRow] /\ sp.left \in Nat /\ t.left \in Nat
  BY <1>1, <1>2 DEF BilledSpreads
<1>4. /\ PrincipalPaid(b) = PrincipalPaid(a) + b[n].paid - a[n].paid
      /\ OwedIn(b) = OwedIn(a) + PrincipalDue(b[n]) - PrincipalDue(a[n])
  BY <1>2, <1>3, OneBilledChanges
<1>5. /\ a[n].paid \in Nat /\ b[n].paid \in Nat /\ a[n].due \in Nat
      /\ PrincipalDue(a[n]) = IF a[n].due >= a[n].paid THEN a[n].due - a[n].paid ELSE 0
      /\ PrincipalDue(b[n]) = IF b[n].due >= b[n].paid THEN b[n].due - b[n].paid ELSE 0
      /\ b[n].due = a[n].due
  BY <1>2, <1>3, BilledOwes DEF BilledInto
<1>6. PrincipalPaid(a) \in Nat /\ PrincipalPaid(b) \in Nat /\ PrincipalPaid(o) \in Nat
      /\ OwedIn(a) \in Nat /\ OwedIn(b) \in Nat /\ OwedIn(o) \in Nat
  BY <1>3, BilledSums
<1>7. \A i \in 1..m : BilledInto(o[i], b[i])
  <2> TAKE i \in 1..m
  <2>1. BilledInto(o[i], a[i])  BY DEF BilledInv
  <2>2. CASE i # n  BY <1>2, <2>1, <2>2
  <2>3. CASE i = n
    <3>1. o[i].paid \in Nat /\ a[i].paid \in Nat /\ b[i].paid \in Nat  BY <1>3, BilledOwes
    <3> QED  BY <1>2, <2>1, <2>3, <3>1 DEF BilledInto
  <2> QED  BY <2>2, <2>3
<1>8. PrincipalPaid(b) + t.left = PrincipalPaid(o) + money
  <2> DEFINE pa == PrincipalPaid(a)
             pb == PrincipalPaid(b)
             l == sp.left
             k == t.left
             u == a[n].paid
             v == b[n].paid
  <2>1. pa + l = PrincipalPaid(o) + money  BY DEF BilledInv
  <2>2. pb = pa + v - u /\ k = l - (v - u) /\ pa \in Nat /\ pb \in Nat /\ l \in Nat /\ k \in Nat
        /\ u \in Nat /\ v \in Nat
    BY <1>2, <1>3, <1>4, <1>5, <1>6
  <2> HIDE DEF pa, pb, l, k, u, v
  <2>3. pb + k = pa + l  BY <2>2
  <2> QED  BY <2>1, <2>3 DEF pb, k
<1>9. ASSUME \A i \in 1..m : o[i].paid <= o[i].due
      PROVE  OwedIn(b) + PrincipalPaid(b) = OwedIn(o) + PrincipalPaid(o)
  <2>1. OwedIn(a) + PrincipalPaid(a) = OwedIn(o) + PrincipalPaid(o)  BY <1>9 DEF BilledInv
  <2>2. a[n].paid <= a[n].due /\ b[n].paid <= b[n].due
    <3>1. BilledInto(o[n], a[n]) /\ BilledInto(o[n], b[n]) /\ o[n].paid <= o[n].due
      BY <1>7, <1>9 DEF BilledInv
    <3> QED  BY <3>1 DEF BilledInto
  <2> DEFINE pa == PrincipalPaid(a)
             pb == PrincipalPaid(b)
             wa == OwedIn(a)
             wb == OwedIn(b)
             u == a[n].paid
             v == b[n].paid
             d == a[n].due
             da == PrincipalDue(a[n])
             db == PrincipalDue(b[n])
  <2>3. da = d - u /\ db = d - v  BY <1>5, <2>2
  <2>4. pb = pa + v - u /\ wb = wa + db - da /\ pa \in Nat /\ pb \in Nat /\ wa \in Nat /\ wb \in Nat
        /\ u \in Nat /\ v \in Nat /\ d \in Nat
    BY <1>4, <1>5, <1>6
  <2> HIDE DEF pa, pb, wa, wb, u, v, d, da, db
  <2>5. wb + pb = wa + pa  BY <2>3, <2>4
  <2> QED  BY <2>1, <2>5 DEF pa, pb, wa, wb
<1>10. t.left <= money
  <2>1. sp.left <= money /\ b[n].paid >= a[n].paid  BY <1>2 DEF BilledInv, BilledInto
  <2>2. t.left = sp.left - (b[n].paid - a[n].paid)  BY <1>2
  <2> DEFINE l == sp.left
             k == t.left
             u == a[n].paid
             v == b[n].paid
  <2>3. l \in Nat /\ k \in Nat /\ u \in Nat /\ v \in Nat /\ l <= money /\ v >= u /\ k = l - (v - u)
    BY <1>3, <1>5, <2>1, <2>2
  <2> HIDE DEF l, k, u, v
  <2>4. k <= money  BY <2>3
  <2> QED  BY <2>4 DEF k
<1> QED  BY <1>2, <1>7, <1>8, <1>9, <1>10 DEF BilledInv, t

\* What a payment does to a schedule.
LEMMA BilledAllocated ==
  ASSUME NEW o \in Seq(BilledRow), NEW money \in Nat, NEW target \in Int
  PROVE  BilledInv(Len(o), o, money, Allocate(o, target, money))
<1> DEFINE m == Len(o)
           start == [rows |-> o, left |-> money, fees |-> 0]
           q == Queue(m, target)
           at(k) == After(Paying, start, q, k)
           P == {k \in Nat : k <= m => BilledInv(m, o, money, at(k))}
<1>1. m \in Nat /\ o \in [1..m -> BilledRow]  BY LenProperties
<1> HIDE DEF m
<1>2. q \in [1..m -> 1..m] /\ DOMAIN q = 1..m  BY <1>1, QueueIsFull
<1>3. Long(q, m)  BY <1>2 DEF Long
<1> HIDE DEF start, q
<1>4. at(0) = start  BY <1>1, <1>3, LoopStarts
<1>5. \A k \in 1..m : at(k) = Settle(at(k - 1), q[k])
  <2>1. \A k \in 1..m : After(Paying, start, q, k) = Go(Paying, After(Paying, start, q, k - 1), q[k])
    BY <1>1, <1>3, LoopGoes
  <2> QED  BY <2>1, GoSays
<1>6. Allocate(o, target, money) = at(m)
  <2>1. Allocate(o, target, money) = FoldLeft(Settle, start, q)  BY DEF Allocate, start, q, m
  <2>2. FoldLeft(Settle, start, q) = Rounds(Paying, start, q)[DOMAIN q]  BY LoopIsLast
  <2>3. Rounds(Paying, start, q)[DOMAIN q] = After(Paying, start, q, m)  BY <1>1, <1>3, LoopTurns
  <2> QED  BY <2>1, <2>2, <2>3
<1> HIDE DEF at
<1>7. 0 \in P
  <2>1. start \in BilledSpreads(m) /\ start.rows = o /\ start.left = money
    BY <1>1 DEF BilledSpreads, start
  <2>2. \A i \in 1..m : BilledInto(o[i], o[i])
    <3> TAKE i \in 1..m
    <3>1. o[i].paid \in Nat  BY <1>1, BilledOwes
    <3> QED  BY <3>1 DEF BilledInto
  <2>3. BilledInv(m, o, money, start)  BY <2>1, <2>2 DEF BilledInv
  <2> QED  BY <1>4, <2>3
<1>8. ASSUME NEW k \in Nat, k \in P PROVE k + 1 \in P
  <2> SUFFICES ASSUME k + 1 <= m PROVE BilledInv(m, o, money, at(k + 1))  OBVIOUS
  <2>1. BilledInv(m, o, money, at(k))  BY <1>1, <1>8
  <2>2. k + 1 \in 1..m /\ q[k + 1] \in 1..m /\ k + 1 - 1 = k  BY <1>1, <1>2
  <2>3. at(k + 1) = Settle(at(k), q[k + 1])  BY <1>5, <2>2
  <2> QED  BY <1>1, <2>1, <2>2, <2>3, BilledTurn
<1> HIDE DEF P
<1>9. Nat \subseteq P  BY <1>7, <1>8, NatSetInduction
<1>10. BilledInv(m, o, money, at(m))  BY <1>1, <1>9 DEF P
<1> QED  BY <1>6, <1>10 DEF m

-----------------------------------------------------------------------------
(* Counter: a schedule *)

DistinctIds(rs) == \A i, j \in 1..Len(rs) : rs[i].id = rs[j].id => i = j

\* Its rows add up to what is billed, to the rupee, and carry its number.
LEMMA ScheduleSays ==
  ASSUME NEW schedule \in Nat, NEW total \in Nat, NEW n \in Nat \ {0}
  PROVE  LET rs == Schedule(schedule, total, n) IN
         /\ rs \in Seq(BilledRow) /\ Len(rs) = n
         /\ PrincipalPaid(rs) = 0 /\ OwedIn(rs) = total
         /\ \A k \in 1..n : rs[k].id = <<schedule, k>> /\ rs[k].paid = 0
<1> DEFINE rs == Schedule(schedule, total, n)
           each == total \div n
           rest == total % n
           amount(k) == each + (IF k = n THEN rest ELSE 0)
<1>1. each \in Nat /\ rest \in Nat /\ (n * each) + rest = total  OBVIOUS
<1> HIDE DEF each, rest
<1>2. \A k \in 1..n : amount(k) \in Nat  BY <1>1
<1>3. rs = [k \in 1..n |-> InstallmentRow(schedule, k, amount(k))]
  BY DEF Schedule, each, rest
<1> HIDE DEF rs, amount
<1>4. ASSUME NEW k \in 1..n
      PROVE  /\ rs[k] \in BilledRow /\ rs[k].id = <<schedule, k>> /\ rs[k].paid = 0
             /\ rs[k].due = amount(k)
  BY <1>2, <1>3 DEF InstallmentRow, BilledRow, RowStatuses
<1>5. rs \in [1..n -> BilledRow] /\ DOMAIN rs = 1..n  BY <1>3, <1>4
<1>6. rs \in Seq(BilledRow) /\ Len(rs) = n
  <2>1. rs \in Seq(BilledRow)  BY <1>5, SeqDef
  <2> QED  BY <1>5, <2>1, LenProperties
<1>7. IsFiniteSet(1..n) /\ Cardinality(1..n) = n  BY FS_Interval
<1>8. PrincipalPaid(rs) = SumFunction(Paids(rs)) /\ OwedIn(rs) = SumFunction(Dues(rs))
  BY <1>5, BilledSums
<1>9. PrincipalPaid(rs) = 0
  <2>1. Paids(rs) = [k \in 1..n |-> 0]  BY <1>4, <1>5 DEF Paids
  <2>2. n * 0 = 0 /\ 0 \in Int  OBVIOUS
  <2> DEFINE S == 1..n
             v == 0
  <2>3. IsFiniteSet(S) /\ v \in Int  BY <1>7, <2>2
  <2> HIDE DEF S, v
  <2>4. SumFunction([k \in S |-> v]) = Cardinality(S) * v  BY <2>3, SumOfEqual
  <2> QED  BY <1>7, <1>8, <2>1, <2>2, <2>4 DEF S, v
<1>10. OwedIn(rs) = total
  <2> DEFINE S == 1..n
             g == [k \in S |-> each]
             h == Dues(rs)
  <2>1. \A k \in 1..n : h[k] = amount(k)
    <3> TAKE k \in 1..n
    <3>1. PrincipalDue(rs[k]) = IF amount(k) >= 0 THEN amount(k) - 0 ELSE 0
      BY <1>4, BilledOwes
    <3> QED  BY <1>2, <1>5, <3>1 DEF Dues
  <2>2. h \in [S -> Int] /\ g \in [S -> Int] /\ n \in S /\ IsFiniteSet(S)
    BY <1>1, <1>5, <1>7, BilledSums
  <2>3. h[n] = each + rest /\ g[n] = each  BY <1>1, <2>1 DEF amount
  <2>4. \A k \in S : k # n => h[k] = g[k]  BY <1>1, <2>1 DEF amount
  <2>5. SumFunction(g) = Cardinality(S) * each
    <3>1. IsFiniteSet(S) /\ each \in Int  BY <1>1, <1>7
    <3> HIDE DEF S
    <3> QED  BY <3>1, SumOfEqual
  <2>6. Cardinality(S) * each = n * each /\ n * each \in Nat  BY <1>1, <1>7
  <2> HIDE DEF S, g, h
  <2>7. SameBut(S, g, h, n)  BY <2>4 DEF SameBut
  <2>8. SumFunction(h) = SumFunction(g) + h[n] - g[n]  BY <2>2, <2>7, SumMoves, ZenonT(40)
  <2>9. SumFunction(h) = (n * each) + (each + rest) - each  BY <2>3, <2>5, <2>6, <2>8
  <2> DEFINE w == n * each
  <2>10. w \in Nat /\ w + rest = total  BY <1>1, <2>6
  <2> HIDE DEF w
  <2>11. SumFunction(h) = w + (each + rest) - each  BY <2>9 DEF w
  <2>12. SumFunction(h) = total  BY <1>1, <2>10, <2>11
  <2> QED  BY <1>8, <2>12 DEF h
<1> QED  BY <1>4, <1>6, <1>9, <1>10 DEF rs

-----------------------------------------------------------------------------
(* Counter: the rows a restructuring keeps *)

\* The loop that leaves rows out is the last value of its recursion.
LEMMA SparedIsLast ==
  ASSUME NEW rs, NEW ids
  PROVE  Spared(rs, ids) = Rounds(LeavingOut(ids), <<>>, rs)[DOMAIN rs]
<1>1. \A x, y : Go(LeavingOut(ids), x, y) = IF y.id \in ids THEN x ELSE Append(x, y)
  BY GoSays DEF Keep
<1>2. \A f : Round(LeavingOut(ids), <<>>, rs, f) =
        [s \in SUBSET (DOMAIN rs) |->
           IF s = {} THEN <<>>
           ELSE IF rs[Max(s)].id \in ids THEN f[s \ {Max(s)}] ELSE Append(f[s \ {Max(s)}], rs[Max(s)])]
  BY <1>1 DEF Round
<1>3. Rounds(LeavingOut(ids), <<>>, rs) = CHOOSE f : f =
        [s \in SUBSET (DOMAIN rs) |->
           IF s = {} THEN <<>>
           ELSE IF rs[Max(s)].id \in ids THEN f[s \ {Max(s)}] ELSE Append(f[s \ {Max(s)}], rs[Max(s)])]
  BY <1>2 DEF Rounds
<1> QED  BY <1>3 DEF Spared, FoldLeft, MapThenFoldSet

\* The first k rows, less those left out.
SparedInv(rs, ids, kept, k) ==
  /\ kept \in Seq(BilledRow)
  /\ \A j \in 1..Len(kept) : \E i \in 1..k : kept[j] = rs[i] /\ rs[i].id \notin ids
  /\ DistinctIds(kept)
  /\ PrincipalPaid(kept) <= PrincipalPaid([i \in 1..k |-> rs[i]])

\* A row more.
LEMMA AppendSays ==
  ASSUME NEW kept \in Seq(BilledRow), NEW row \in BilledRow
  PROVE  /\ Append(kept, row) \in Seq(BilledRow) /\ Len(Append(kept, row)) = Len(kept) + 1
         /\ Len(kept) \in Nat
         /\ \A j \in 1..Len(kept) : Append(kept, row)[j] = kept[j]
         /\ Append(kept, row)[Len(kept) + 1] = row
         /\ PrincipalPaid(Append(kept, row)) = PrincipalPaid(kept) + row.paid
<1> DEFINE new == Append(kept, row)
           l == Len(kept)
<1>1. new \in Seq(BilledRow) /\ Len(new) = l + 1 /\ l \in Nat
      /\ \A j \in 1..l : new[j] = kept[j]
      /\ new[l + 1] = row
  BY AppendProperties, LenProperties
<1>2. kept \in [1..l -> BilledRow]  BY LenProperties
<1>3. new \in [1..(l + 1) -> BilledRow]  BY <1>1, LenProperties
<1> HIDE DEF new, l
<1>4. [i \in 1..l |-> new[i]] = kept  BY <1>1, <1>2
<1>5. PrincipalPaid(new) = PrincipalPaid([i \in 1..l |-> new[i]]) + new[l + 1].paid
  BY <1>1, <1>3, BilledAppend
<1> QED  BY <1>1, <1>4, <1>5 DEF new, l

\* What a restructuring keeps: rows that were there, each once, with no more paid on them
\* than on all there were.
LEMMA SparedSays ==
  ASSUME NEW rs \in Seq(BilledRow), NEW ids, DistinctIds(rs)
  PROVE  /\ Spared(rs, ids) \in Seq(BilledRow)
         /\ \A j \in 1..Len(Spared(rs, ids)) : \E i \in 1..Len(rs) : Spared(rs, ids)[j] = rs[i]
         /\ DistinctIds(Spared(rs, ids))
         /\ PrincipalPaid(Spared(rs, ids)) <= PrincipalPaid(rs)
<1> DEFINE m == Len(rs)
           at(k) == After(LeavingOut(ids), <<>>, rs, k)
           P == {k \in Nat : k <= m => SparedInv(rs, ids, at(k), k)}
<1>1. m \in Nat /\ rs \in [1..m -> BilledRow] /\ DOMAIN rs = 1..m  BY LenProperties
<1>a. DistinctIds(rs) <=> \A i, j \in 1..m : rs[i].id = rs[j].id => i = j  BY DEF DistinctIds
<1> HIDE DEF m
<1>3. Long(rs, m)  BY <1>1 DEF Long
<1>4. at(0) = <<>>  BY <1>1, <1>3, LoopStarts
<1>5. \A k \in 1..m : at(k) = Keep(ids, at(k - 1), rs[k])
  <2>1. \A k \in 1..m : After(LeavingOut(ids), <<>>, rs, k)
                           = Go(LeavingOut(ids), After(LeavingOut(ids), <<>>, rs, k - 1), rs[k])
    BY <1>1, <1>3, LoopGoes
  <2> QED  BY <2>1, GoSays
<1>6. Spared(rs, ids) = at(m)
  <2>1. Spared(rs, ids) = Rounds(LeavingOut(ids), <<>>, rs)[DOMAIN rs]  BY SparedIsLast
  <2>2. Rounds(LeavingOut(ids), <<>>, rs)[DOMAIN rs] = After(LeavingOut(ids), <<>>, rs, m)
    BY <1>1, <1>3, LoopTurns
  <2> QED  BY <2>1, <2>2
<1> HIDE DEF at
<1>7. 0 \in P
  <2>1. Len(<<>>) = 0 /\ 1..0 = {}  OBVIOUS
  <2>2. [i \in 1..0 |-> rs[i]] = <<>>  OBVIOUS
  <2>3. SparedInv(rs, ids, <<>>, 0)
    <3>1. PrincipalPaid(<<>>) <= PrincipalPaid(<<>>)  BY BilledNothing
    <3> QED  BY <2>1, <2>2, <3>1, BilledNothing DEF SparedInv, DistinctIds
  <2> QED  BY <1>4, <2>3
<1>8. ASSUME NEW k \in Nat, k \in P PROVE k + 1 \in P
  <2> SUFFICES ASSUME k + 1 <= m PROVE SparedInv(rs, ids, at(k + 1), k + 1)  OBVIOUS
  <2> DEFINE kept == at(k)
             new == at(k + 1)
             row == rs[k + 1]
             l == Len(kept)
             before == [i \in 1..k |-> rs[i]]
             with == [i \in 1..(k + 1) |-> rs[i]]
  <2>1. SparedInv(rs, ids, kept, k)  BY <1>1, <1>8
  <2>2. k + 1 \in 1..m /\ k + 1 - 1 = k /\ row \in BilledRow  BY <1>1
  <2>3. new = IF row.id \in ids THEN kept ELSE Append(kept, row)
    <3>1. at(k + 1) = Keep(ids, at(k), rs[k + 1])  BY <1>5, <2>2
    <3> QED  BY <3>1 DEF Keep
  <2>4. PrincipalPaid(with) = PrincipalPaid(before) + row.paid
    <3>1. with \in [1..(k + 1) -> BilledRow] /\ [i \in 1..k |-> with[i]] = before /\ with[k + 1] = row
      BY <1>1, <2>2
    <3> HIDE DEF with, before, row
    <3>2. PrincipalPaid(with) = PrincipalPaid([i \in 1..k |-> with[i]]) + with[k + 1].paid
      BY <3>1, BilledAppend
    <3> QED  BY <3>1, <3>2
  <2>5. kept \in Seq(BilledRow) /\ DistinctIds(kept)
        /\ PrincipalPaid(kept) <= PrincipalPaid(before)
        /\ \A j \in 1..l : \E i \in 1..k : kept[j] = rs[i] /\ rs[i].id \notin ids
    BY <2>1 DEF SparedInv
  <2>6. PrincipalPaid(before) \in Nat /\ PrincipalPaid(kept) \in Nat /\ row.paid \in Nat
    <3>1. before \in [1..k -> BilledRow]  BY <1>1, <2>2
    <3>2. l \in Nat /\ kept \in [1..l -> BilledRow]  BY <2>5, LenProperties
    <3>3. row.paid \in Nat  BY <2>2, BilledOwes
    <3> HIDE DEF before, kept, l
    <3> QED  BY <3>1, <3>2, <3>3, BilledSums
  <2>7. CASE row.id \in ids
    <3>1. new = kept  BY <2>3, <2>7
    <3>2. PrincipalPaid(kept) <= PrincipalPaid(with)  BY <2>4, <2>5, <2>6
    <3>3. \A j \in 1..l : \E i \in 1..(k + 1) : kept[j] = rs[i] /\ rs[i].id \notin ids  BY <2>5
    <3> QED  BY <2>5, <3>1, <3>2, <3>3 DEF SparedInv
  <2>8. CASE row.id \notin ids
    <3>1. new = Append(kept, row)  BY <2>3, <2>8
    <3> HIDE DEF new, kept, row, before, with
    <3>2. /\ new \in Seq(BilledRow) /\ Len(new) = l + 1 /\ l \in Nat
          /\ \A j \in 1..l : new[j] = kept[j]
          /\ new[l + 1] = row
          /\ PrincipalPaid(new) = PrincipalPaid(kept) + row.paid
      BY <2>2, <2>5, <3>1, AppendSays
    <3>3. ASSUME NEW j \in 1..Len(new)
          PROVE  \E i \in 1..(k + 1) : new[j] = rs[i] /\ rs[i].id \notin ids /\ (j = l + 1 => i = k + 1)
                    /\ (j # l + 1 => i \in 1..k)
      <4>1. CASE j \in 1..l
        <5>1. PICK i \in 1..k : kept[j] = rs[i] /\ rs[i].id \notin ids  BY <2>5, <4>1
        <5>2. new[j] = rs[i] /\ i \in 1..(k + 1) /\ j # l + 1  BY <3>2, <4>1, <5>1
        <5> QED  BY <5>1, <5>2
      <4>2. CASE j = l + 1  BY <2>8, <3>2, <4>2 DEF row
      <4> QED  BY <3>2, <4>1, <4>2
    <3>4. ASSUME NEW i \in 1..Len(new), NEW j \in 1..Len(new), new[i].id = new[j].id PROVE i = j
      <4>1. CASE i \in 1..l /\ j \in 1..l  BY <2>5, <3>2, <3>4, <4>1 DEF DistinctIds
      <4>2. CASE i = l + 1 /\ j \in 1..l
        <5>1. PICK x \in 1..k : new[j] = rs[x]  BY <3>2, <3>3, <4>2
        <5>2. new[i] = rs[k + 1] /\ rs[x].id = rs[k + 1].id  BY <3>2, <3>4, <4>2, <5>1 DEF row
        <5>3. x \in 1..m /\ x # k + 1  BY <1>1, <2>2
        <5> QED  BY <1>a, <2>2, <5>2, <5>3
      <4>3. CASE i \in 1..l /\ j = l + 1
        <5>a. i \in 1..Len(new) /\ i # l + 1  BY <2>1, <3>2, <4>3
        <5>1. PICK x \in 1..k : new[i] = rs[x]  BY <3>3, <5>a, Zenon
        <5>2. new[j] = rs[k + 1] /\ rs[x].id = rs[k + 1].id  BY <3>2, <3>4, <4>3, <5>1 DEF row
        <5>3. x \in 1..m /\ x # k + 1  BY <1>1, <2>2
        <5> QED  BY <1>a, <2>2, <5>2, <5>3
      <4> QED  BY <3>2, <4>1, <4>2, <4>3
    <3>5. PrincipalPaid(new) <= PrincipalPaid(with)  BY <2>4, <2>5, <2>6, <3>2
    <3>6. DistinctIds(new)  BY <3>4 DEF DistinctIds
    <3> QED  BY <3>2, <3>3, <3>5, <3>6 DEF SparedInv, new, with
  <2> QED  BY <2>7, <2>8
<1> HIDE DEF P
<1>9. Nat \subseteq P  BY <1>7, <1>8, NatSetInduction
<1>10. SparedInv(rs, ids, at(m), m)  BY <1>1, <1>9 DEF P
<1>11. [i \in 1..m |-> rs[i]] = rs  BY <1>1
<1> QED  BY <1>6, <1>10, <1>11 DEF SparedInv, m

-----------------------------------------------------------------------------
(* Counter: sales and restructurings *)

Sales ==
  [financed: Nat, rows: Seq(BilledRow), status: {"CURRENT", "OVERDUE", "COMPLETED"}, credit: Nat,
   received: Nat, schedules: Nat]

\* A sale's rows are told apart by their ids and belong to schedules there have been; no
\* more is on the rows and in the credit than was received, and what they ask for, with
\* what was received, comes to what was financed.
SaleInOrder(s) ==
  /\ s \in Sales
  /\ DistinctIds(s.rows)
  /\ \A k \in 1..Len(s.rows) : s.rows[k].paid <= s.rows[k].due /\ s.rows[k].id[1] <= s.schedules
  /\ PrincipalPaid(s.rows) + s.credit <= s.received
  /\ s.financed + s.credit <= OwedIn(s.rows) + s.received

\* What a restructuring is about to bill is enough, whatever the plan has become meanwhile.
Covers(r, s) == s.financed + s.credit <= r.left + s.received

CounterInv ==
  /\ sale = [i \in Imeis |-> sale[i]] /\ started = [a \in Admins |-> started[a]]
  /\ \A i \in Imeis : \A s, q \in sale[i] : s = q /\ SaleInOrder(s)
  /\ \A a \in Admins : \A r \in started[a] :
       /\ r.imei \in Imeis /\ r.n \in 1..MaxInstallments /\ r.left \in Nat \ {0}
       /\ sale[r.imei] # {} /\ \A s \in sale[r.imei] : Covers(r, s)

LEMMA SaleParts ==
  ASSUME NEW s \in Sales
  PROVE  /\ s.financed \in Nat /\ s.rows \in Seq(BilledRow) /\ s.credit \in Nat /\ s.received \in Nat
         /\ s.schedules \in Nat /\ s.status \in {"CURRENT", "OVERDUE", "COMPLETED"}
BY DEF Sales

\* A status computed is a plan's.
LEMMA StatusIsOne == \A rs : PlanStatus(rs) \in {"CURRENT", "OVERDUE", "COMPLETED"}
BY DEF PlanStatus

\* A sale as it is registered.
LEMMA RegisteredInOrder ==
  ASSUME NEW total \in Nat, NEW n \in Nat \ {0}
  PROVE  SaleInOrder([financed |-> total, rows |-> Schedule(0, total, n),
                      status |-> "CURRENT", credit |-> 0, received |-> 0, schedules |-> 0])
<1> DEFINE rs == Schedule(0, total, n)
           s == [financed |-> total, rows |-> rs, status |-> "CURRENT", credit |-> 0, received |-> 0,
                 schedules |-> 0]
<1>1. /\ rs \in Seq(BilledRow) /\ Len(rs) = n /\ PrincipalPaid(rs) = 0 /\ OwedIn(rs) = total
      /\ \A k \in 1..n : rs[k].id = <<0, k>> /\ rs[k].paid = 0
  <2>1. 0 \in Nat  OBVIOUS
  <2> QED  BY <2>1, ScheduleSays
<1> HIDE DEF rs
<1>2. s \in Sales  BY <1>1 DEF Sales
<1>3. DistinctIds(rs)  BY <1>1 DEF DistinctIds
<1>4. ASSUME NEW k \in 1..n PROVE rs[k].paid <= rs[k].due /\ rs[k].id[1] <= 0
  <2>1. rs[k] \in BilledRow  BY <1>1, ElementOfSeq
  <2>2. rs[k].due \in Nat /\ rs[k].id = <<0, k>> /\ rs[k].paid = 0  BY <1>1, <2>1, BilledOwes
  <2> QED  BY <2>2
<1>5. s.rows = rs /\ s.credit = 0 /\ s.received = 0 /\ s.financed = total /\ s.schedules = 0
  OBVIOUS
<1> HIDE DEF s
<1>6. PrincipalPaid(s.rows) + s.credit <= s.received
      /\ s.financed + s.credit <= OwedIn(s.rows) + s.received
  BY <1>1, <1>5
<1>7. SaleInOrder(s)  BY <1>1, <1>2, <1>3, <1>4, <1>5, <1>6 DEF SaleInOrder
<1> QED  BY <1>7 DEF s, rs

\* A sale after a payment.
LEMMA PaidInOrder ==
  ASSUME NEW s, SaleInOrder(s), NEW amount \in Nat, NEW target \in Int
  PROVE  LET spread == Allocate(s.rows, target, amount + s.credit) IN
         /\ SaleInOrder(Paid(s, amount, target))
         /\ Paid(s, amount, target).financed = s.financed
         /\ Paid(s, amount, target).credit = spread.left
         /\ Paid(s, amount, target).received = s.received + amount
         /\ spread.left \in Nat /\ spread.left <= amount + s.credit
<1> DEFINE o == s.rows
           m == Len(o)
           money == amount + s.credit
           spread == Allocate(o, target, money)
           rs == spread.rows
           left == spread.left
           t == [s EXCEPT !.rows = rs, !.credit = left, !.received = s.received + amount,
                          !.status = PlanStatus(rs)]
<1>1. s \in Sales  BY DEF SaleInOrder
<1>2. /\ s.financed \in Nat /\ o \in Seq(BilledRow) /\ s.credit \in Nat /\ s.received \in Nat
      /\ s.schedules \in Nat
  BY <1>1, SaleParts
<1>3. m \in Nat /\ o \in [1..m -> BilledRow] /\ money \in Nat  BY <1>2, LenProperties
<1>4. BilledInv(m, o, money, spread)
  <2> HIDE DEF money
  <2> QED  BY <1>2, <1>3, BilledAllocated
<1> HIDE DEF spread, m, money
<1>5. /\ rs \in [1..m -> BilledRow] /\ left \in Nat /\ left <= money
      /\ \A i \in 1..m : BilledInto(o[i], rs[i])
      /\ PrincipalPaid(rs) + left = PrincipalPaid(o) + money
      /\ (\A i \in 1..m : o[i].paid <= o[i].due)
           => OwedIn(rs) + PrincipalPaid(rs) = OwedIn(o) + PrincipalPaid(o)
  BY <1>4 DEF BilledInv, BilledSpreads
<1> HIDE DEF rs, left
<1>6. rs \in Seq(BilledRow) /\ Len(rs) = m
  <2>1. rs \in Seq(BilledRow)  BY <1>3, <1>5, SeqDef
  <2> QED  BY <1>3, <1>5, <2>1, LenProperties
<1>7. PlanStatus(rs) \in {"CURRENT", "OVERDUE", "COMPLETED"}  BY StatusIsOne
<1> DEFINE all == s.received + amount
           status == PlanStatus(rs)
<1>8. all \in Nat  BY <1>2
<1>9. t = [s EXCEPT !.rows = rs, !.credit = left, !.received = all, !.status = status]
  OBVIOUS
<1> HIDE DEF all, status, o, t
<1>10. /\ t \in Sales /\ t.rows = rs /\ t.credit = left /\ t.received = all /\ t.financed = s.financed
       /\ t.schedules = s.schedules
  BY <1>1, <1>5, <1>6, <1>7, <1>8, <1>9 DEF Sales, status
<1>11. /\ \A i, j \in 1..m : o[i].id = o[j].id => i = j
       /\ \A k \in 1..m : o[k].paid <= o[k].due /\ o[k].id[1] <= s.schedules
  BY DEF SaleInOrder, DistinctIds, o, m
<1>12. \A k \in 1..m : rs[k].id = o[k].id /\ rs[k].paid <= rs[k].due
  BY <1>5, <1>11 DEF BilledInto
<1>13. DistinctIds(rs)  BY <1>6, <1>11, <1>12 DEF DistinctIds
<1>14. PrincipalPaid(rs) + left <= all /\ s.financed + left <= OwedIn(rs) + all
  <2>1. /\ PrincipalPaid(o) + s.credit <= s.received
        /\ s.financed + s.credit <= OwedIn(o) + s.received
    BY DEF SaleInOrder, o
  <2>2. OwedIn(rs) + PrincipalPaid(rs) = OwedIn(o) + PrincipalPaid(o)  BY <1>5, <1>11
  <2>3. /\ PrincipalPaid(rs) \in Nat /\ PrincipalPaid(o) \in Nat
        /\ OwedIn(rs) \in Nat /\ OwedIn(o) \in Nat
    BY <1>3, <1>5, BilledSums
  <2>4. PrincipalPaid(rs) + left = PrincipalPaid(o) + amount + s.credit  BY <1>2, <1>5, <2>3 DEF money
  <2>5. all = s.received + amount  BY DEF all
  <2> DEFINE pr == PrincipalPaid(rs)
             po == PrincipalPaid(o)
             wr == OwedIn(rs)
             wo == OwedIn(o)
             c == s.credit
             r == s.received
             f == s.financed
  <2>6. /\ pr \in Nat /\ po \in Nat /\ wr \in Nat /\ wo \in Nat /\ c \in Nat /\ r \in Nat /\ f \in Nat
        /\ left \in Nat
    BY <1>2, <1>5, <2>3, SMTT(20)
  <2>8. po + c <= r /\ f + c <= wo + r /\ wr + pr = wo + po
        /\ pr + left = po + amount + c /\ all = r + amount
    BY <2>1, <2>2, <2>4, <2>5
  <2> HIDE DEF pr, po, wr, wo, c, r, f
  <2>7. pr + left <= all /\ f + left <= wr + all  BY <2>6, <2>8
  <2> QED  BY <2>7 DEF pr, wr, f
<1>15. SaleInOrder(t)  BY <1>6, <1>10, <1>11, <1>12, <1>13, <1>14 DEF SaleInOrder
<1>16. t = Paid(s, amount, target)  BY DEF t, rs, left, spread, money, o, Paid
<1> QED  BY <1>5, <1>10, <1>15, <1>16 DEF left, spread, money, o, all

\* A sale after a restructuring.
LEMMA RebilledInOrder ==
  ASSUME NEW s, SaleInOrder(s), NEW r, r.left \in Nat, r.n \in Nat \ {0}, Covers(r, s)
  PROVE  LET t == Rebilled(s, r) IN
         SaleInOrder(t) /\ t.financed = s.financed /\ t.credit = s.credit /\ t.received = s.received
<1> DEFINE o == s.rows
           kept == Spared(o, r.doomed)
           next == s.schedules + 1
           bill == Schedule(next, r.left, r.n)
           rs == kept \o bill
           again == OwedIn(kept)
           t == [s EXCEPT !.rows = rs, !.status = "CURRENT", !.schedules = next]
<1>1. s \in Sales /\ DistinctIds(o)  BY DEF SaleInOrder
<1>2. /\ s.financed \in Nat /\ o \in Seq(BilledRow) /\ s.credit \in Nat /\ s.received \in Nat
      /\ s.schedules \in Nat /\ next \in Nat
  BY <1>1, SaleParts
<1>3. /\ kept \in Seq(BilledRow)
      /\ \A j \in 1..Len(kept) : \E i \in 1..Len(o) : kept[j] = o[i]
      /\ DistinctIds(kept)
      /\ PrincipalPaid(kept) <= PrincipalPaid(o)
  <2> DEFINE ids == r.doomed
  <2> HIDE DEF ids, o
  <2>1. /\ Spared(o, ids) \in Seq(BilledRow)
        /\ \A j \in 1..Len(Spared(o, ids)) : \E i \in 1..Len(o) : Spared(o, ids)[j] = o[i]
        /\ DistinctIds(Spared(o, ids))
        /\ PrincipalPaid(Spared(o, ids)) <= PrincipalPaid(o)
    BY <1>1, <1>2, SparedSays
  <2> QED  BY <2>1 DEF ids
<1> HIDE DEF next, kept
<1>4. /\ bill \in Seq(BilledRow) /\ Len(bill) = r.n /\ PrincipalPaid(bill) = 0 /\ OwedIn(bill) = r.left
      /\ \A k \in 1..r.n : bill[k].id = <<next, k>> /\ bill[k].paid = 0
  <2> DEFINE total == r.left
             n == r.n
  <2>1. total \in Nat /\ n \in Nat \ {0}  OBVIOUS
  <2> HIDE DEF total, n
  <2>2. LET x == Schedule(next, total, n) IN
        /\ x \in Seq(BilledRow) /\ Len(x) = n
        /\ PrincipalPaid(x) = 0 /\ OwedIn(x) = total
        /\ \A k \in 1..n : x[k].id = <<next, k>> /\ x[k].paid = 0
    <3>1. next \in Nat  BY <1>2
    <3> QED  BY <2>1, <3>1, ScheduleSays
  <2> QED  BY <2>2 DEF total, n
<1> HIDE DEF bill
<1>5. /\ rs \in Seq(BilledRow)
      /\ PrincipalPaid(rs) = PrincipalPaid(kept) + PrincipalPaid(bill)
      /\ OwedIn(rs) = OwedIn(kept) + OwedIn(bill)
  BY <1>3, <1>4, BilledJoin
<1>6. /\ Len(kept) \in Nat /\ Len(rs) = Len(kept) + r.n
      /\ \A i \in 1..Len(rs) : rs[i] = IF i <= Len(kept) THEN kept[i] ELSE bill[i - Len(kept)]
  <2>1. Len(kept) \in Nat  BY <1>3, LenProperties
  <2>2. Len(rs) = Len(kept) + Len(bill)
        /\ \A i \in 1..(Len(kept) + Len(bill)) :
             rs[i] = IF i <= Len(kept) THEN kept[i] ELSE bill[i - Len(kept)]
    BY <1>3, <1>4, ConcatProperties
  <2> QED  BY <1>4, <2>1, <2>2
<1>7. PrincipalPaid(kept) \in Nat /\ again \in Nat /\ PrincipalPaid(o) \in Nat /\ OwedIn(o) \in Nat
  <2>1. \A x \in Seq(BilledRow) : PrincipalPaid(x) \in Nat /\ OwedIn(x) \in Nat
    <3> TAKE x \in Seq(BilledRow)
    <3>1. Len(x) \in Nat /\ x \in [1..Len(x) -> BilledRow]  BY LenProperties
    <3> QED  BY <3>1, BilledSums
  <2> QED  BY <1>2, <1>3, <2>1
<1> HIDE DEF rs, again, o, t
<1>8. /\ t \in Sales /\ t.rows = rs /\ t.credit = s.credit /\ t.received = s.received
      /\ t.financed = s.financed /\ t.schedules = next
  BY <1>1, <1>2, <1>5, <1>7 DEF Sales, t
<1>9. \A k \in 1..Len(o) : o[k] \in BilledRow /\ o[k].paid <= o[k].due /\ o[k].id[1] <= s.schedules
  BY <1>2, ElementOfSeq DEF SaleInOrder, o
<1>10. \A j \in 1..Len(kept) :
         kept[j] \in BilledRow /\ kept[j].paid <= kept[j].due /\ kept[j].id[1] <= s.schedules
  BY <1>3, <1>9
<1>11. \A k \in 1..r.n : bill[k].paid <= bill[k].due /\ bill[k].id = <<next, k>>
  <2> TAKE k \in 1..r.n
  <2>1. bill[k] \in BilledRow  BY <1>4, ElementOfSeq
  <2>2. bill[k].due \in Nat /\ bill[k].paid = 0 /\ bill[k].id = <<next, k>>  BY <1>4, <2>1, BilledOwes
  <2> QED  BY <2>2
<1>12. \A k \in 1..Len(rs) : \/ (k \in 1..Len(kept) /\ rs[k] = kept[k])
                              \/ (k - Len(kept) \in 1..r.n /\ rs[k] = bill[k - Len(kept)])
  <2> DEFINE l == Len(kept)
             size == Len(rs)
             n == r.n
  <2>1. l \in Nat /\ size = l + n /\ n \in Nat
        /\ \A i \in 1..size : rs[i] = IF i <= l THEN kept[i] ELSE bill[i - l]
    BY <1>6
  <2> HIDE DEF l, size, n
  <2>2. ASSUME NEW k \in 1..size
        PROVE  (k \in 1..l /\ rs[k] = kept[k]) \/ (k - l \in 1..n /\ rs[k] = bill[k - l])
    <3>1. CASE k <= l  BY <2>1, <3>1
    <3>2. CASE ~(k <= l)
      <4>1. k - l \in 1..n  BY <2>1, <3>2
      <4>2. rs[k] = bill[k - l]  BY <2>1, <3>2
      <4> QED  BY <4>1, <4>2
    <3> QED  BY <3>1, <3>2
  <2> QED  BY <2>2 DEF l, size, n
<1>13. \A k \in 1..Len(rs) : rs[k].paid <= rs[k].due /\ rs[k].id[1] <= next
  <2> TAKE k \in 1..Len(rs)
  <2>1. CASE k \in 1..Len(kept) /\ rs[k] = kept[k]
    <3>1. kept[k].id[1] \in Nat /\ kept[k].id[1] <= s.schedules /\ kept[k].paid <= kept[k].due
      BY <1>10, <2>1 DEF BilledRow
    <3> QED  BY <1>2, <2>1, <3>1, SMTT(40) DEF next
  <2>2. CASE k - Len(kept) \in 1..r.n /\ rs[k] = bill[k - Len(kept)]
    <3> DEFINE j == k - Len(kept)
    <3>1. bill[j].paid <= bill[j].due /\ bill[j].id = <<next, j>>  BY <1>11, <2>2
    <3> HIDE DEF j
    <3>2. bill[j].id[1] = next  BY <3>1
    <3> QED  BY <1>2, <2>2, <3>1, <3>2 DEF j
  <2> QED  BY <1>12, <2>1, <2>2
<1>14. ASSUME NEW i \in 1..Len(rs), NEW j \in 1..Len(rs), rs[i].id = rs[j].id PROVE i = j
  <2> DEFINE l == Len(kept)
             x == i - l
             y == j - l
  <2>1. \/ (i \in 1..l /\ rs[i] = kept[i])
        \/ (x \in 1..r.n /\ rs[i] = bill[x])
    BY <1>12
  <2>2. \/ (j \in 1..l /\ rs[j] = kept[j])
        \/ (y \in 1..r.n /\ rs[j] = bill[y])
    BY <1>12
  <2>3. l \in Nat  BY <1>6
  <2>4. x + l = i /\ y + l = j  BY <2>3
  <2> HIDE DEF l, x, y
  <2>5. \A k \in 1..l : kept[k].id[1] \in Nat /\ kept[k].id[1] < next
    <3> TAKE k \in 1..l
    <3>1. kept[k].id[1] \in Nat /\ kept[k].id[1] <= s.schedules  BY <1>10 DEF BilledRow, l
    <3> QED  BY <1>2, <3>1, SMTT(40) DEF next
  <2>6. \A k \in 1..r.n : bill[k].id = <<next, k>> /\ bill[k].id[1] = next /\ bill[k].id[2] = k
    BY <1>11
  <2>7. CASE i \in 1..l /\ rs[i] = kept[i] /\ j \in 1..l /\ rs[j] = kept[j]
    BY <1>3, <1>14, <2>7 DEF DistinctIds, l
  <2>8. CASE i \in 1..l /\ rs[i] = kept[i] /\ y \in 1..r.n /\ rs[j] = bill[y]
    <3>1. kept[i].id = bill[y].id /\ bill[y].id[1] = next /\ kept[i].id[1] \in Nat /\ kept[i].id[1] < next
      BY <1>14, <2>5, <2>6, <2>8
    <3> QED  BY <1>2, <3>1
  <2>9. CASE x \in 1..r.n /\ rs[i] = bill[x] /\ j \in 1..l /\ rs[j] = kept[j]
    <3>1. kept[j].id = bill[x].id /\ bill[x].id[1] = next /\ kept[j].id[1] \in Nat /\ kept[j].id[1] < next
      BY <1>14, <2>5, <2>6, <2>9
    <3> QED  BY <1>2, <3>1
  <2>10. CASE x \in 1..r.n /\ rs[i] = bill[x] /\ y \in 1..r.n /\ rs[j] = bill[y]
    <3>1. bill[x].id[2] = bill[y].id[2]  BY <1>14, <2>10
    <3>2. x = y  BY <2>6, <2>10, <3>1
    <3> QED  BY <2>4, <3>2
  <2> QED  BY <2>1, <2>2, <2>7, <2>8, <2>9, <2>10
<1>15. /\ PrincipalPaid(rs) + s.credit <= s.received
       /\ s.financed + s.credit <= OwedIn(rs) + s.received
  <2>1. PrincipalPaid(o) + s.credit <= s.received  BY DEF SaleInOrder, o
  <2>2. s.financed + s.credit <= r.left + s.received  BY DEF Covers
  <2>3. PrincipalPaid(rs) = PrincipalPaid(kept)  BY <1>4, <1>5, <1>7
  <2>4. OwedIn(rs) = again + r.left  BY <1>4, <1>5 DEF again
  <2> DEFINE pk == PrincipalPaid(kept)
             po == PrincipalPaid(o)
             w == OwedIn(rs)
             left == r.left
  <2>5. /\ pk \in Nat /\ po \in Nat /\ again \in Nat /\ left \in Nat /\ s.financed \in Nat
        /\ s.credit \in Nat /\ s.received \in Nat
    BY <1>2, <1>7
  <2>6. pk <= po /\ po + s.credit <= s.received /\ s.financed + s.credit <= left + s.received
        /\ w = again + left
    BY <1>3, <2>1, <2>2, <2>4
  <2> HIDE DEF pk, po, w, left
  <2>7. pk + s.credit <= s.received /\ s.financed + s.credit <= w + s.received  BY <2>5, <2>6
  <2> QED  BY <2>3, <2>7 DEF w, pk
<1>16. SaleInOrder(t)  BY <1>8, <1>13, <1>14, <1>15 DEF SaleInOrder, DistinctIds
<1>17. t = Rebilled(s, r)  BY DEF t, rs, bill, next, kept, o, Rebilled
<1> QED  BY <1>8, <1>16, <1>17

-----------------------------------------------------------------------------
(* Counter: every step *)

LEMMA CounterInitOK == CounterInit => CounterInv
<1> SUFFICES ASSUME CounterInit PROVE CounterInv  OBVIOUS
<1>1. sale = [i \in Imeis |-> {}] /\ started = [a \in Admins |-> {}]  BY DEF CounterInit
<1>2. (\A i \in Imeis : sale[i] = {}) /\ (\A a \in Admins : started[a] = {})  BY <1>1
<1>3. sale = [i \in Imeis |-> sale[i]] /\ started = [a \in Admins |-> started[a]]  BY <1>1
<1> QED  BY <1>2, <1>3 DEF CounterInv

\* One plan is rewritten, and what others are about to bill for it is still enough.
LEMMA OneSaleRewritten ==
  ASSUME CounterInv, NEW i \in Imeis, NEW new, SaleInOrder(new), sale' = [sale EXCEPT ![i] = {new}],
         started' = [a \in Admins |-> started'[a]],
         \A a \in Admins : started'[a] = {} \/ started'[a] = started[a],
         \A a \in Admins : \A r \in started'[a] : r.imei = i => Covers(r, new)
  PROVE  CounterInv'
<1>1. \A j \in Imeis : sale'[j] = IF j = i THEN {new} ELSE sale[j]  BY DEF CounterInv
<1>2. sale' = [j \in Imeis |-> sale'[j]]  BY DEF CounterInv
<1>3. ASSUME NEW j \in Imeis, NEW s \in sale'[j], NEW q \in sale'[j] PROVE s = q /\ SaleInOrder(s)
  <2>1. CASE j = i  BY <1>1, <2>1
  <2>2. CASE j # i  BY <1>1, <2>2 DEF CounterInv
  <2> QED  BY <2>1, <2>2
<1>4. ASSUME NEW a \in Admins, NEW r \in started'[a]
      PROVE  /\ r.imei \in Imeis /\ r.n \in 1..MaxInstallments /\ r.left \in Nat \ {0}
             /\ sale'[r.imei] # {} /\ \A s \in sale'[r.imei] : Covers(r, s)
  <2>1. r \in started[a]  OBVIOUS
  <2>2. /\ r.imei \in Imeis /\ r.n \in 1..MaxInstallments /\ r.left \in Nat \ {0}
        /\ sale[r.imei] # {} /\ \A s \in sale[r.imei] : Covers(r, s)
    BY <2>1 DEF CounterInv
  <2>3. CASE r.imei = i
    <3>1. sale'[r.imei] = {new} /\ Covers(r, new)  BY <1>1, <2>3
    <3> QED  BY <2>2, <3>1
  <2>4. CASE r.imei # i  BY <1>1, <2>2, <2>4
  <2> QED  BY <2>3, <2>4
<1> QED  BY <1>2, <1>3, <1>4 DEF CounterInv

LEMMA CounterSales ==
  ASSUME CounterInv, NEW i \in Imeis, NEW s \in sale[i]
  PROVE  SaleInOrder(s) /\ s \in Sales
BY DEF CounterInv, SaleInOrder

LEMMA RegisterKeeps ==
  ASSUME CounterInv, NEW i \in Imeis, NEW p \in Prices, NEW d \in DownPayments,
         NEW n \in 1..MaxInstallments, Register(i, p, d, n)
  PROVE  CounterInv'
<1> DEFINE total == p - d
           new == [financed |-> total, rows |-> Schedule(0, total, n), status |-> "CURRENT", credit |-> 0,
                   received |-> 0, schedules |-> 0]
<1>1. total \in Nat /\ n \in Nat \ {0}
  <2>1. p \in Nat /\ d \in Nat /\ d < p /\ MaxInstallments \in Nat
    BY CounterAssumption DEF Register
  <2> QED  BY <2>1
<1>2. SaleInOrder(new)
  <2> HIDE DEF total
  <2> QED  BY <1>1, RegisteredInOrder
<1>3. sale[i] = {} /\ sale' = [sale EXCEPT ![i] = {new}] /\ started' = started  BY DEF Register
<1>4. \A a \in Admins : \A r \in started'[a] : r.imei # i  BY <1>3 DEF CounterInv
<1>5. started' = [a \in Admins |-> started'[a]]  BY <1>3 DEF CounterInv
<1> HIDE DEF new
<1> QED  BY <1>2, <1>3, <1>4, <1>5, OneSaleRewritten

LEMMA PayKeeps ==
  ASSUME CounterInv, NEW i \in Imeis, NEW m \in Takings, NEW t \in 0..(2 * MaxInstallments), Pay(i, m, t)
  PROVE  CounterInv'
<1>1. PICK s \in sale[i] : sale' = [sale EXCEPT ![i] = {Paid(s, m, t)}]  BY DEF Pay
<1>2. started' = started  BY DEF Pay
<1>3. SaleInOrder(s) /\ s \in Sales  BY CounterSales
<1> DEFINE spread == Allocate(s.rows, t, m + s.credit)
           new == Paid(s, m, t)
<1>4. sale' = [sale EXCEPT ![i] = {new}]  BY <1>1
<1>6. m \in Nat /\ t \in Int  BY CounterAssumption
<1>7. /\ SaleInOrder(new) /\ spread.left \in Nat /\ spread.left <= m + s.credit
      /\ new.financed = s.financed /\ new.credit = spread.left /\ new.received = s.received + m
  BY <1>3, <1>6, PaidInOrder
<1>9. ASSUME NEW a \in Admins, NEW r \in started'[a], r.imei = i PROVE Covers(r, new)
  <2>1. Covers(r, s) /\ r.left \in Nat  BY <1>2, <1>9 DEF CounterInv
  <2>2. s.financed + s.credit <= r.left + s.received  BY <2>1 DEF Covers
  <2>3. s.financed \in Nat /\ s.credit \in Nat /\ s.received \in Nat  BY <1>3, SaleParts
  <2> DEFINE left == spread.left
  <2>4. left \in Nat /\ left <= m + s.credit  BY <1>7
  <2> HIDE DEF left, new
  <2>5. s.financed + left <= r.left + (s.received + m)  BY <1>6, <2>1, <2>2, <2>3, <2>4
  <2> QED  BY <1>7, <2>5 DEF Covers, left
<1>10. started' = [a \in Admins |-> started'[a]]  BY <1>2 DEF CounterInv
<1> HIDE DEF new
<1> QED  BY <1>2, <1>4, <1>7, <1>9, <1>10, OneSaleRewritten

LEMMA RescheduleReadKeeps ==
  ASSUME CounterInv, NEW a \in Admins, NEW i \in Imeis, NEW n \in 1..MaxInstallments, RescheduleRead(a, i, n)
  PROVE  CounterInv'
<1>1. PICK s \in sale[i] :
        /\ PrincipalLeft(s) > 0
        /\ started' = [started EXCEPT ![a] =
             {[imei |-> i, doomed |-> Doomed(s.rows), left |-> PrincipalLeft(s), n |-> n]}]
  BY DEF RescheduleRead
<1>2. sale' = sale  BY DEF RescheduleRead
<1> DEFINE new == [imei |-> i, doomed |-> Doomed(s.rows), left |-> PrincipalLeft(s), n |-> n]
<1>3. \A b \in Admins : started'[b] = IF b = a THEN {new} ELSE started[b]  BY <1>1 DEF CounterInv
<1>4. started' = [b \in Admins |-> started'[b]]  BY <1>1 DEF CounterInv
<1>5. PrincipalLeft(s) \in Nat \ {0} /\ Covers(new, s)
  <2>1. s \in Sales /\ SaleInOrder(s)  BY CounterSales
  <2>2. s.financed \in Nat /\ s.rows \in Seq(BilledRow) /\ s.credit \in Nat /\ s.received \in Nat
    BY <2>1, SaleParts
  <2>3. PrincipalPaid(s.rows) \in Nat
    <3>1. Len(s.rows) \in Nat /\ s.rows \in [1..Len(s.rows) -> BilledRow]  BY <2>2, LenProperties
    <3> QED  BY <3>1, BilledSums
  <2>4. PrincipalLeft(s) \in Nat  BY <2>2, <2>3 DEF PrincipalLeft
  <2> DEFINE p == PrincipalPaid(s.rows)
             left == PrincipalLeft(s)
  <2>5. p \in Nat /\ left = (IF p < s.financed THEN s.financed - p ELSE 0) /\ p + s.credit <= s.received
    <3>1. p + s.credit <= s.received  BY <2>1 DEF SaleInOrder
    <3>2. left = IF p < s.financed THEN s.financed - p ELSE 0  BY DEF PrincipalLeft
    <3> QED  BY <2>3, <3>1, <3>2
  <2> HIDE DEF p, left
  <2>6. s.financed + s.credit <= left + s.received  BY <2>2, <2>5
  <2>7. Covers(new, s)
    <3>1. new.left = left  BY DEF left
    <3> QED  BY <2>6, <3>1 DEF Covers
  <2> QED  BY <1>1, <2>4, <2>7
<1>6. /\ new.imei = i /\ new.n = n /\ new.left \in Nat \ {0} /\ sale[i] # {}
      /\ \A q \in sale[i] : Covers(new, q)
  <2>1. \A q \in sale[i] : q = s  BY DEF CounterInv
  <2> QED  BY <1>5, <2>1
<1> HIDE DEF new
<1>7. ASSUME NEW b \in Admins, NEW r \in started'[b]
      PROVE  /\ r.imei \in Imeis /\ r.n \in 1..MaxInstallments /\ r.left \in Nat \ {0}
             /\ sale'[r.imei] # {} /\ \A q \in sale'[r.imei] : Covers(r, q)
  <2>1. CASE b = a  BY <1>2, <1>3, <1>6, <2>1
  <2>2. CASE b # a  BY <1>2, <1>3, <2>2 DEF CounterInv
  <2> QED  BY <2>1, <2>2
<1> QED  BY <1>2, <1>4, <1>7 DEF CounterInv

LEMMA RescheduleWriteKeeps ==
  ASSUME CounterInv, NEW a \in Admins, RescheduleWrite(a)
  PROVE  CounterInv'
<1>1. PICK r \in started[a] : \E s \in sale[r.imei] : sale' = [sale EXCEPT ![r.imei] = {Rebilled(s, r)}]
  BY DEF RescheduleWrite
<1>a. PICK s \in sale[r.imei] : sale' = [sale EXCEPT ![r.imei] = {Rebilled(s, r)}]  BY <1>1
<1>2. started' = [started EXCEPT ![a] = {}]  BY DEF RescheduleWrite
<1> DEFINE i == r.imei
           new == Rebilled(s, r)
<1>3. i \in Imeis /\ r.left \in Nat /\ r.n \in 1..MaxInstallments /\ Covers(r, s)
  BY DEF CounterInv
<1>4. r.n \in Nat \ {0}
  <2>1. MaxInstallments \in Nat  BY CounterAssumption
  <2> QED  BY <1>3, <2>1
<1>5. SaleInOrder(s) /\ s \in Sales  BY <1>3, CounterSales
<1>6. sale' = [sale EXCEPT ![i] = {new}]  BY <1>a
<1>8. /\ SaleInOrder(new)
      /\ new.financed = s.financed /\ new.credit = s.credit /\ new.received = s.received
  BY <1>3, <1>4, <1>5, RebilledInOrder
<1>10. \A b \in Admins : started'[b] = IF b = a THEN {} ELSE started[b]  BY <1>2 DEF CounterInv
<1>11. started' = [b \in Admins |-> started'[b]]  BY <1>2 DEF CounterInv
<1>12. ASSUME NEW b \in Admins, NEW q \in started'[b], q.imei = i PROVE Covers(q, new)
  <2>1. q \in started[b]  BY <1>10
  <2>2. Covers(q, s)  BY <1>12, <2>1 DEF CounterInv
  <2> HIDE DEF new
  <2> QED  BY <1>8, <2>2 DEF Covers
<1> HIDE DEF new, i
<1>13. \A b \in Admins : started'[b] = {} \/ started'[b] = started[b]  BY <1>10
<1> QED  BY <1>3, <1>6, <1>8, <1>11, <1>12, <1>13, OneSaleRewritten

LEMMA RescheduleFailsKeeps ==
  ASSUME CounterInv, NEW a \in Admins, RescheduleFails(a)
  PROVE  CounterInv'
<1>1. started' = [started EXCEPT ![a] = {}] /\ sale' = sale  BY DEF RescheduleFails
<1>2. \A b \in Admins : started'[b] = IF b = a THEN {} ELSE started[b]  BY <1>1 DEF CounterInv
<1>3. started' = [b \in Admins |-> started'[b]]  BY <1>1 DEF CounterInv
<1> QED  BY <1>1, <1>2, <1>3 DEF CounterInv

LEMMA CounterStep == CounterInv /\ [CounterNext]_counterVars => CounterInv'
<1> SUFFICES ASSUME CounterInv, [CounterNext]_counterVars PROVE CounterInv'  OBVIOUS
<1>1. CASE UNCHANGED counterVars
  <2>1. sale' = sale /\ started' = started  BY <1>1 DEF counterVars
  <2> QED  BY <2>1 DEF CounterInv
<1>2. CASE CounterNext
  BY <1>2, RegisterKeeps, PayKeeps, RescheduleReadKeeps, RescheduleWriteKeeps, RescheduleFailsKeeps
  DEF CounterNext
<1> QED  BY <1>1, <1>2

LEMMA CounterKeeps == CounterSpec => []CounterInv
BY CounterInitOK, CounterStep, PTL DEF CounterSpec

LEMMA CounterImplies == CounterInv => CounterTypeOK /\ NeverUnderBilled
<1> SUFFICES ASSUME CounterInv PROVE CounterTypeOK /\ NeverUnderBilled  OBVIOUS
<1>1. ASSUME NEW i \in Imeis, NEW s \in sale[i]
      PROVE  /\ {s.financed, s.credit, s.received, s.schedules} \subseteq Nat
             /\ s.status \in {"CURRENT", "OVERDUE", "COMPLETED"}
             /\ \A n \in DOMAIN s.rows : s.rows[n].paid <= s.rows[n].due
             /\ s.financed + s.credit <= Owed(s) + s.received
  <2>1. SaleInOrder(s) /\ s \in Sales  BY CounterSales
  <2>2. s.rows \in Seq(BilledRow)  BY <2>1, SaleParts
  <2>3. DOMAIN s.rows = 1..Len(s.rows)  BY <2>2, LenProperties
  <2>4. \A n \in DOMAIN s.rows : s.rows[n].paid <= s.rows[n].due  BY <2>1, <2>3 DEF SaleInOrder
  <2>5. Owed(s) = OwedIn(s.rows)  BY DEF Owed, OwedIn
  <2>6. s.financed + s.credit <= Owed(s) + s.received
    BY <2>1, <2>5 DEF SaleInOrder
  <2> QED  BY <2>1, <2>4, <2>6, SaleParts
<1>2. \A a \in Admins : \A r \in started[a] : r.imei \in Imeis /\ r.n \in 1..MaxInstallments
  BY DEF CounterInv
<1>3. CounterTypeOK  BY <1>1, <1>2 DEF CounterTypeOK
<1>4. NeverUnderBilled  BY <1>1 DEF NeverUnderBilled
<1> QED  BY <1>3, <1>4

\* Every column of a sale and every restructuring under way has its values, and no
\* installment has received more than it asks for.
THEOREM CounterTypeCorrect == CounterSpec => []CounterTypeOK
BY CounterKeeps, CounterImplies, PTL

\* For any prices, payments, numbers of installments and administrators, and whatever is
\* paid and restructured at once: what a plan asks for, with what was received, is never
\* less than what was financed.
THEOREM ScheduleAddsUp == CounterSpec => []NeverUnderBilled
BY CounterKeeps, CounterImplies, PTL

=============================================================================
