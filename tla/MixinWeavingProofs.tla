-------------------------- MODULE MixinWeavingProofs --------------------------
(* The order of the used mixins and the resolver of hooks, for every program: *)
(* what comes before a mixin is placed before it, what is in the call stack,   *)
(* what is dropped, when it fails, and the order of the effects.               *)
EXTENDS MixinWeaving, TLAPS, FiniteSetTheorems, SequenceTheorems

-----------------------------------------------------------------------------
(* InOrder, Ascending and Sublist.                                           *)

StrictOrder(S, R) ==
  /\ \A x \in S : <<x, x>> \notin R
  /\ \A x, y \in S : x # y => <<x, y>> \in R \/ <<y, x>> \in R
  /\ \A x, y, z \in S : <<x, y>> \in R /\ <<y, z>> \in R => <<x, z>> \in R

\* InOrder lists every element of a finite set once, smaller ones first: the
\* number of smaller elements is a bijection of S to 0 .. Cardinality(S) - 1.
LEMMA InOrderFacts ==
  ASSUME NEW S, IsFiniteSet(S), NEW R, StrictOrder(S, R)
  PROVE  /\ Cardinality(S) \in Nat
         /\ InOrder(S, R) \in [1..Cardinality(S) -> S]
         /\ \A x \in S : \E k \in 1..Cardinality(S) : InOrder(S, R)[k] = x
         /\ \A j, k \in 1..Cardinality(S) : j < k => <<InOrder(S, R)[j], InOrder(S, R)[k]>> \in R
<1> DEFINE N == Cardinality(S)
           Below(x) == {y \in S : <<y, x>> \in R}
           rank == [x \in S |-> Cardinality(Below(x))]
           Ranked(k) == CHOOSE x \in S : Cardinality(Below(x)) = k - 1
           s == InOrder(S, R)
<1>1. N \in Nat
  BY FS_CardinalityType
<1>2. \A x \in S : IsFiniteSet(Below(x)) /\ rank[x] \in 0..(N - 1)
  <2> TAKE x \in S
  <2>1. IsFiniteSet(S \ {x}) /\ Cardinality(S \ {x}) = N - 1
    BY FS_RemoveElement
  <2>2. Below(x) \in SUBSET (S \ {x})
    BY DEF StrictOrder
  <2>3. IsFiniteSet(Below(x)) /\ Cardinality(Below(x)) <= Cardinality(S \ {x})
    BY <2>1, <2>2, FS_Subset
  <2>4. Cardinality(Below(x)) \in Nat
    BY <2>3, FS_CardinalityType
  <2>5. rank[x] = Cardinality(Below(x))
    OBVIOUS
  <2> HIDE DEF Below, rank
  <2> QED
    BY <2>1, <2>3, <2>4, <2>5, <1>1
<1>3. \A x, y \in S : <<x, y>> \in R => rank[x] < rank[y]
  <2> SUFFICES ASSUME NEW x \in S, NEW y \in S, <<x, y>> \in R
               PROVE  rank[x] < rank[y]
    OBVIOUS
  <2>1. x \notin Below(x)
    BY DEF StrictOrder
  <2>2. Below(x) \cup {x} \in SUBSET Below(y)
    BY DEF StrictOrder
  <2>3. IsFiniteSet(Below(x)) /\ IsFiniteSet(Below(y))
    BY <1>2
  <2>4. Cardinality(Below(x) \cup {x}) = Cardinality(Below(x)) + 1
    <3> HIDE DEF Below
    <3> QED
      BY <2>1, <2>3, FS_AddElement
  <2>5. Cardinality(Below(x) \cup {x}) <= Cardinality(Below(y))
    <3> HIDE DEF Below
    <3> QED
      BY <2>2, <2>3, FS_Subset
  <2>6. rank[x] = Cardinality(Below(x)) /\ rank[y] = Cardinality(Below(y))
    OBVIOUS
  <2>7. rank[x] \in Nat /\ rank[y] \in Nat
    <3> HIDE DEF Below, rank
    <3> QED
      BY <1>1, <1>2
  <2> HIDE DEF Below, rank
  <2> QED
    BY <2>4, <2>5, <2>6, <2>7
<1>4. rank \in Injection(S, 0..(N - 1))
  <2>1. \A x, y \in S : rank[x] = rank[y] => x = y
    <3> SUFFICES ASSUME NEW x \in S, NEW y \in S, rank[x] = rank[y], x # y
                 PROVE  FALSE
      OBVIOUS
    <3>1. rank[x] \in Int /\ rank[y] \in Int
      <4> HIDE DEF Below, rank
      <4> QED
        BY <1>1, <1>2
    <3>2. rank[x] < rank[y] \/ rank[y] < rank[x]
      BY <1>3 DEF StrictOrder
    <3> HIDE DEF rank
    <3> QED
      BY <3>1, <3>2
  <2>2. rank \in [S -> 0..(N - 1)]
    BY <1>2
  <2> HIDE DEF rank
  <2> QED
    BY <2>1, <2>2 DEF Injection, IsInjective
<1>5. \A k \in 1..N : \E x \in S : rank[x] = k - 1
  <2>1. IsFiniteSet(0..(N - 1)) /\ Cardinality(0..(N - 1)) = N
    BY <1>1, FS_Interval
  <2>2. rank \in Surjection(S, 0..(N - 1))
    BY <1>4, <2>1, FS_Injection
  <2> HIDE DEF rank
  <2> QED
    BY <2>2, <1>1 DEF Surjection
<1>6. \A k \in 1..N : s[k] \in S /\ rank[s[k]] = k - 1
  <2> TAKE k \in 1..N
  <2>1. PICK x \in S : rank[x] = k - 1
    BY <1>5
  <2>2. s = [n \in 1..N |-> Ranked(n)]
    BY DEF InOrder
  <2>3. \E y \in S : Cardinality(Below(y)) = k - 1
    BY <2>1
  <2>4. Ranked(k) \in S /\ Cardinality(Below(Ranked(k))) = k - 1
    <3> HIDE DEF Below
    <3> QED
      BY <2>3
  <2>5. s[k] \in S /\ Cardinality(Below(s[k])) = k - 1
    <3> HIDE DEF Below, s, Ranked
    <3> QED
      BY <2>2, <2>4
  <2> QED
    BY <2>5
<1>7. s \in [1..N -> S]
  <2>1. s = [n \in 1..N |-> Ranked(n)]
    BY DEF InOrder
  <2> HIDE DEF s, Ranked
  <2> QED
    BY <1>6, <2>1
<1>8. \A x \in S : \E k \in 1..N : s[k] = x
  <2> SUFFICES ASSUME NEW x \in S
               PROVE  \E k \in 1..N : s[k] = x
    OBVIOUS
  <2> HIDE DEF rank, s
  <2>1. rank[x] \in 0..(N - 1)
    BY <1>2
  <2>2. PICK k \in 1..N : rank[x] = k - 1
    BY <1>1, <2>1
  <2>3. s[k] \in S /\ rank[s[k]] = rank[x]
    BY <1>6, <2>2
  <2>4. s[k] = x
    BY <2>3, <1>4 DEF Injection, IsInjective
  <2> QED
    BY <2>4
<1>9. \A j, k \in 1..N : j < k => <<s[j], s[k]>> \in R
  <2> SUFFICES ASSUME NEW j \in 1..N, NEW k \in 1..N, j < k, <<s[j], s[k]>> \notin R
               PROVE  FALSE
    OBVIOUS
  <2>1. /\ s[j] \in S /\ rank[s[j]] = j - 1
        /\ s[k] \in S /\ rank[s[k]] = k - 1
    BY <1>6
  <2>2. s[j] # s[k]
    <3> HIDE DEF rank, s
    <3> QED
      BY <2>1
  <2>3. <<s[k], s[j]>> \in R
    <3> HIDE DEF rank, s
    <3> QED
      BY <2>1, <2>2 DEF StrictOrder
  <2>4. rank[s[k]] < rank[s[j]]
    <3> HIDE DEF rank, s
    <3> QED
      BY <2>1, <2>3, <1>3
  <2> HIDE DEF rank, s
  <2> QED
    BY <2>1, <2>4
<1> QED
  BY <1>1, <1>7, <1>8, <1>9

\* Ascending lists a finite set of naturals in increasing order.
LEMMA AscendingFacts ==
  ASSUME NEW S \in SUBSET Nat, IsFiniteSet(S)
  PROVE  /\ Cardinality(S) \in Nat
         /\ Ascending(S) \in [1..Cardinality(S) -> S]
         /\ \A x \in S : \E k \in 1..Cardinality(S) : Ascending(S)[k] = x
         /\ \A j, k \in 1..Cardinality(S) : j < k => Ascending(S)[j] < Ascending(S)[k]
<1> DEFINE R == {r \in S \X S : r[1] < r[2]}
<1>1. StrictOrder(S, R)
  BY DEF StrictOrder
<1>2. Ascending(S) = InOrder(S, R)
  BY DEF Ascending
<1>3. \A x, y \in S : <<x, y>> \in R => x < y
  OBVIOUS
<1> HIDE DEF R
<1>4. /\ Cardinality(S) \in Nat
      /\ Ascending(S) \in [1..Cardinality(S) -> S]
      /\ \A x \in S : \E k \in 1..Cardinality(S) : Ascending(S)[k] = x
      /\ \A j, k \in 1..Cardinality(S) : j < k => <<Ascending(S)[j], Ascending(S)[k]>> \in R
  BY <1>1, <1>2, InOrderFacts
<1> QED
  BY <1>3, <1>4

\* A function on 1 .. n is a sequence.
LEMMA FunctionIsSeq ==
  ASSUME NEW T, NEW n \in Nat, NEW s \in [1..n -> T]
  PROVE  s \in Seq(T) /\ Len(s) = n
OBVIOUS

\* The head of one sequence moves to the end of another.
LEMMA HeadMoves ==
  ASSUME NEW T, NEW s \in Seq(T), NEW q \in Seq(T), q # << >>, NEW t \in Seq(T)
  PROVE  Append(s, Head(q)) \o (Tail(q) \o t) = (s \o q) \o t
<1>1. Append(s, Head(q)) \o Tail(q) = s \o q
  OBVIOUS
<1>2. Head(q) \in T /\ Append(s, Head(q)) \in Seq(T) /\ Tail(q) \in Seq(T) /\ s \o q \in Seq(T)
  OBVIOUS
<1>3. \A u, v \in Seq(T) : u \o (v \o t) = (u \o v) \o t
  OBVIOUS
<1>4. PICK u \in Seq(T) : u = Append(s, Head(q))
  BY <1>2
<1>5. u \o (Tail(q) \o t) = (u \o Tail(q)) \o t
  BY <1>2, <1>3
<1> QED
  BY <1>1, <1>4, <1>5

\* What a concatenation has at its places.
LEMMA ConcatAt ==
  ASSUME NEW T, NEW s \in Seq(T), NEW t \in Seq(T)
  PROVE  /\ Len(s \o t) = Len(s) + Len(t)
         /\ \A n \in 1..Len(s) : (s \o t)[n] = s[n]
         /\ \A n \in 1..Len(t) : (s \o t)[Len(s) + n] = t[n]
OBVIOUS

\* Sublist takes the members of s at the places ns, in their order.
LEMMA SublistFacts ==
  ASSUME NEW T, NEW s \in Seq(T), NEW ns \in SUBSET DOMAIN s
  PROVE  /\ IsFiniteSet(ns) /\ Cardinality(ns) \in Nat
         /\ Sublist(s, ns) \in Seq(T) /\ Len(Sublist(s, ns)) = Cardinality(ns)
         /\ Ascending(ns) \in [1..Cardinality(ns) -> ns]
         /\ \A k \in 1..Cardinality(ns) : Sublist(s, ns)[k] = s[Ascending(ns)[k]]
         /\ \A n \in ns : \E k \in 1..Cardinality(ns) : Ascending(ns)[k] = n
         /\ \A j, k \in 1..Cardinality(ns) : j < k => Ascending(ns)[j] < Ascending(ns)[k]
<1>1. Len(s) \in Nat /\ DOMAIN s = 1..Len(s)
  OBVIOUS
<1>2. IsFiniteSet(ns) /\ ns \in SUBSET Nat
  <2>1. IsFiniteSet(DOMAIN s)
    BY <1>1, FS_Interval
  <2>2. IsFiniteSet(ns)
    BY <2>1, FS_Subset
  <2> QED
    BY <1>1, <2>2
<1>3. /\ Cardinality(ns) \in Nat
      /\ Ascending(ns) \in [1..Cardinality(ns) -> ns]
      /\ \A n \in ns : \E k \in 1..Cardinality(ns) : Ascending(ns)[k] = n
      /\ \A j, k \in 1..Cardinality(ns) : j < k => Ascending(ns)[j] < Ascending(ns)[k]
  BY <1>2, AscendingFacts
<1>4. DOMAIN Ascending(ns) = 1..Cardinality(ns)
  BY <1>3
<1>5. Sublist(s, ns) = [k \in 1..Cardinality(ns) |-> s[Ascending(ns)[k]]]
  BY <1>4 DEF Sublist
<1>6. \A k \in 1..Cardinality(ns) : s[Ascending(ns)[k]] \in T
  BY <1>3
<1>7. Sublist(s, ns) \in Seq(T) /\ Len(Sublist(s, ns)) = Cardinality(ns)
  BY <1>3, <1>5, <1>6
<1> QED
  BY <1>2, <1>3, <1>5, <1>7

-----------------------------------------------------------------------------
(* The inductive invariant of topo_sort.                                     *)

Placed == order \o queue

\* f gives every placed mixin a use of its own.
UseOfEach(f) ==
  /\ f \in [1..Len(Placed) -> DOMAIN prog.uses]
  /\ \A m, n \in 1..Len(Placed) : f[m] = f[n] => m = n
  /\ \A n \in 1..Len(Placed) : prog.uses[f[n]] = Placed[n]

\* What precedes k in the order so far, and among the uses.
OrderedBefore(k) == {n \in DOMAIN order : <<order[n], k>> \in prog.rules}
UsedBefore(k) == {j \in DOMAIN prog.uses : <<prog.uses[j], k>> \in prog.rules}

OrderTypeOK ==
  /\ prog \in Programs /\ point \in Points
  /\ order \in Seq(Mixins) /\ queue \in Seq(Mixins) /\ indeg \in [Mixins -> Nat]

CountsOK ==
  /\ \A k \in Used : indeg[k] + Cardinality(OrderedBefore(k)) = Cardinality(UsedBefore(k))
  /\ \A k \in Used : indeg[k] = 0 <=> \E n \in 1..Len(Placed) : Placed[n] = k

\* The first part of PreferredFirst.
PrefixOK ==
  \A n \in DOMAIN order, a \in Used :
    <<a, order[n]>> \in prog.rules => \E m \in 1..n - 1 : order[m] = a

\* Only topo_sort's own error is raised while it runs.
OrderWhy == /\ at = "order" => why = None
            /\ at \in {"order", "error"} \/ (queue = << >> /\ Len(order) = Len(prog.uses))
            /\ why = "cyclic rules" =>
                 \/ \E C \in (SUBSET Used) \ {{}} : \A b \in C : \E a \in C : <<a, b>> \in prog.rules
                 \/ ~IsInjective(prog.uses)

OrderInv == OrderTypeOK /\ (\E f : UseOfEach(f)) /\ CountsOK /\ PrefixOK /\ OrderWhy

-----------------------------------------------------------------------------
(* Facts about the program and the placed mixins.                            *)

LEMMA ProgramFacts ==
  ASSUME prog \in Programs
  PROVE  /\ prog.uses \in Seq(Mixins) /\ prog.items \in [Mixins -> Seq(Item)]
         /\ Len(prog.uses) \in Nat /\ DOMAIN prog.uses = 1..Len(prog.uses)
         /\ Used \subseteq Mixins /\ IsFiniteSet(DOMAIN prog.uses)
         /\ \A k \in Used : \E j \in DOMAIN prog.uses : prog.uses[j] = k
         /\ \A j \in DOMAIN prog.uses : prog.uses[j] \in Used
         /\ \A k : <<k, k>> \notin prog.rules
         /\ \A k : IsFiniteSet(UsedBefore(k)) /\ Cardinality(UsedBefore(k)) \in Nat
<1>1. /\ prog.uses \in Seq(Mixins) /\ prog.items \in [Mixins -> Seq(Item)]
      /\ prog.rules \subseteq {r \in Mixins \X Mixins : r[1] # r[2]}
  BY ProgramsAssumption
<1>2. Len(prog.uses) \in Nat /\ DOMAIN prog.uses = 1..Len(prog.uses)
  BY <1>1
<1>3. IsFiniteSet(DOMAIN prog.uses)
  BY <1>2, FS_Interval
<1>4. Used = {prog.uses[j] : j \in DOMAIN prog.uses}
  BY DEF Used, Range
<1>5. \A k : UsedBefore(k) \in SUBSET DOMAIN prog.uses
  BY DEF UsedBefore
<1>6. \A k : IsFiniteSet(UsedBefore(k)) /\ Cardinality(UsedBefore(k)) \in Nat
  BY <1>3, <1>5, FS_Subset, FS_CardinalityType
<1>7. \A k : <<k, k>> \notin prog.rules
  <2> SUFFICES ASSUME NEW k, <<k, k>> \in prog.rules PROVE FALSE
    OBVIOUS
  <2>1. <<k, k>>[1] # <<k, k>>[2]
    BY <1>1
  <2> QED
    BY <2>1
<1> QED
  BY <1>1, <1>2, <1>3, <1>4, <1>6, <1>7

LEMMA PlacedFacts ==
  ASSUME OrderTypeOK
  PROVE  /\ Placed \in Seq(Mixins) /\ Len(Placed) = Len(order) + Len(queue) /\ Len(Placed) \in Nat
         /\ DOMAIN order = 1..Len(order) /\ Len(order) \in Nat /\ Len(queue) \in Nat
         /\ \A n \in 1..Len(order) : n \in 1..Len(Placed) /\ Placed[n] = order[n]
         /\ queue # << >> => /\ Len(order) + 1 \in 1..Len(Placed)
                             /\ Placed[Len(order) + 1] = Head(queue)
BY DEF OrderTypeOK, Placed

\* Placed mixins that precede k are as many as uses that precede k only if they
\* are all of them.
LEMMA PlacedBeforeUses ==
  ASSUME OrderTypeOK, NEW f, UseOfEach(f), NEW k, NEW A,
         A \subseteq 1..Len(Placed), \A n \in A : <<Placed[n], k>> \in prog.rules
  PROVE  /\ IsFiniteSet(A) /\ Cardinality(A) \in Nat
         /\ Cardinality(A) <= Cardinality(UsedBefore(k))
         /\ Cardinality(A) = Cardinality(UsedBefore(k)) =>
              \A j \in UsedBefore(k) : \E n \in A : f[n] = j
<1> DEFINE g == [n \in A |-> f[n]]
<1>1. IsFiniteSet(UsedBefore(k))
  BY ProgramFacts DEF OrderTypeOK
<1>2. \A n \in A : g[n] \in UsedBefore(k)
  BY DEF UseOfEach, UsedBefore
<1>3. \A m, n \in A : g[m] = g[n] => m = n
  BY DEF UseOfEach
<1>4. g \in Injection(A, UsedBefore(k))
  BY <1>2, <1>3 DEF Injection, IsInjective
<1>5. /\ IsFiniteSet(A) /\ Cardinality(A) <= Cardinality(UsedBefore(k))
      /\ Cardinality(A) = Cardinality(UsedBefore(k)) => g \in Surjection(A, UsedBefore(k))
  BY <1>1, <1>4, FS_Injection
<1>6. Cardinality(A) \in Nat
  BY <1>5, FS_CardinalityType
<1>7. ASSUME g \in Surjection(A, UsedBefore(k)), NEW j \in UsedBefore(k)
      PROVE  \E n \in A : f[n] = j
  BY <1>7 DEF Surjection
<1> QED
  BY <1>5, <1>6, <1>7

\* A mixin without a count left follows all that precede it.
LEMMA AllBeforeOrdered ==
  ASSUME OrderTypeOK, NEW f, UseOfEach(f), CountsOK, NEW k \in Used, indeg[k] = 0,
         NEW a \in Used, <<a, k>> \in prog.rules
  PROVE  \E m \in 1..Len(order) : order[m] = a
<1>1. OrderedBefore(k) \subseteq 1..Len(Placed)
  BY PlacedFacts DEF OrderedBefore
<1>2. \A n \in OrderedBefore(k) : <<Placed[n], k>> \in prog.rules
  BY PlacedFacts DEF OrderedBefore
<1>3. /\ Cardinality(OrderedBefore(k)) \in Nat
      /\ Cardinality(OrderedBefore(k)) = Cardinality(UsedBefore(k)) =>
           \A j \in UsedBefore(k) : \E n \in OrderedBefore(k) : f[n] = j
  BY <1>1, <1>2, PlacedBeforeUses
<1>4. PICK j \in DOMAIN prog.uses : prog.uses[j] = a
  BY ProgramFacts DEF OrderTypeOK
<1>5. j \in UsedBefore(k)
  BY <1>4 DEF UsedBefore
<1>6. PICK n \in OrderedBefore(k) : f[n] = j
  BY <1>3, <1>5 DEF CountsOK
<1>7. n \in 1..Len(order) /\ n \in 1..Len(Placed) /\ Placed[n] = order[n]
  BY PlacedFacts DEF OrderedBefore
<1> QED
  BY <1>4, <1>6, <1>7 DEF UseOfEach

-----------------------------------------------------------------------------
(* The steps of the sort.                                                    *)

LEMMA OrderInitially == Init => OrderInv
<1> SUFFICES ASSUME Init PROVE OrderInv
  OBVIOUS
<1> USE DEF Init
<1> DEFINE ns == {n \in DOMAIN prog.uses : indeg[prog.uses[n]] = 0}
<1>1. prog \in Programs /\ order = << >> /\ queue = Sublist(prog.uses, ns) /\ point \in Points
  BY DEF Points
<1>2. \A k \in Used : indeg[k] = Cardinality(UsedBefore(k))
  <2>1. \A k : UsesBefore(prog.uses, prog.rules, k) = Cardinality(UsedBefore(k))
    BY DEF UsesBefore, UsedBefore
  <2> QED
    BY <1>1, <2>1, ProgramFacts
<1>3. indeg \in [Mixins -> Nat]
  <2>1. \A k : UsesBefore(prog.uses, prog.rules, k) \in Nat
    BY <1>1, ProgramFacts DEF UsesBefore, UsedBefore
  <2> QED
    BY <2>1
<1>4. at = "order" /\ why = None
  OBVIOUS
<1> HIDE DEF Init
<1>5. /\ queue \in Seq(Mixins) /\ Len(queue) = Cardinality(ns) /\ Cardinality(ns) \in Nat
      /\ Ascending(ns) \in [1..Cardinality(ns) -> ns]
      /\ \A k \in 1..Cardinality(ns) : queue[k] = prog.uses[Ascending(ns)[k]]
      /\ \A n \in ns : \E k \in 1..Cardinality(ns) : Ascending(ns)[k] = n
      /\ \A j, k \in 1..Cardinality(ns) : j < k => Ascending(ns)[j] < Ascending(ns)[k]
  <2>1. prog.uses \in Seq(Mixins) /\ ns \in SUBSET DOMAIN prog.uses
    BY <1>1, ProgramFacts
  <2> HIDE DEF ns
  <2> QED
    BY <1>1, <2>1, SublistFacts
<1>6. ns \in SUBSET DOMAIN prog.uses /\ DOMAIN prog.uses \subseteq Nat
  BY <1>1, ProgramFacts
<1>7. Placed = queue /\ Len(Placed) = Cardinality(ns)
  BY <1>1, <1>5 DEF Placed
<1>8. UseOfEach(Ascending(ns))
  <2> HIDE DEF ns
  <2>1. \A m, n \in 1..Len(Placed) : Ascending(ns)[m] = Ascending(ns)[n] => m = n
    <3> SUFFICES ASSUME NEW m \in 1..Len(Placed), NEW n \in 1..Len(Placed),
                        Ascending(ns)[m] = Ascending(ns)[n], m # n
                 PROVE  FALSE
      OBVIOUS
    <3>1. m < n \/ n < m
      BY <1>5, <1>7
    <3>2. Ascending(ns)[m] < Ascending(ns)[n] \/ Ascending(ns)[n] < Ascending(ns)[m]
      BY <1>5, <1>7, <3>1
    <3>3. Ascending(ns)[m] \in Nat /\ Ascending(ns)[n] \in Nat
      BY <1>5, <1>6, <1>7
    <3> QED
      BY <3>2, <3>3
  <2>2. Ascending(ns) \in [1..Len(Placed) -> DOMAIN prog.uses]
    BY <1>5, <1>6, <1>7
  <2> QED
    BY <1>5, <1>7, <2>1, <2>2 DEF UseOfEach
<1>9. OrderTypeOK
  BY <1>1, <1>3, <1>5 DEF OrderTypeOK
<1>10. CountsOK
  <2>1. \A k : OrderedBefore(k) = {}
    BY <1>1 DEF OrderedBefore
  <2>2. \A k \in Used : indeg[k] + Cardinality(OrderedBefore(k)) = Cardinality(UsedBefore(k))
    <3>1. Cardinality({}) = 0
      BY FS_EmptySet
    <3>2. \A k : Cardinality(UsedBefore(k)) \in Nat
      BY <1>1, ProgramFacts
    <3> QED
      BY <1>2, <2>1, <3>1, <3>2
  <2>3. ASSUME NEW k \in Used, indeg[k] = 0
        PROVE  \E n \in 1..Len(Placed) : Placed[n] = k
    <3>1. PICK j \in DOMAIN prog.uses : prog.uses[j] = k
      BY <1>1, ProgramFacts
    <3>2. j \in ns
      BY <2>3, <3>1
    <3> HIDE DEF ns
    <3> QED
      BY <3>1, <3>2, <1>5, <1>7
  <2>4. ASSUME NEW k \in Used, NEW n \in 1..Len(Placed), Placed[n] = k
        PROVE  indeg[k] = 0
    <3>1. Ascending(ns)[n] \in ns /\ k = prog.uses[Ascending(ns)[n]]
      <4> HIDE DEF ns
      <4> QED
        BY <2>4, <1>5, <1>7
    <3> QED
      BY <3>1
  <2> QED
    BY <2>2, <2>3, <2>4 DEF CountsOK
<1>11. PrefixOK /\ OrderWhy
  <2>1. why # "cyclic rules"
    BY <1>4, NoneAssumption DEF Errors
  <2>2. PrefixOK
    BY <1>1 DEF PrefixOK
  <2>3. OrderWhy
    BY <1>4, <2>1 DEF OrderWhy
  <2> QED
    BY <2>2, <2>3
<1> QED
  BY <1>8, <1>9, <1>10, <1>11 DEF OrderInv

\* One round of the sort keeps the counts, and what is placed is preceded by
\* all that must precede it.
LEMMA PopKeepsOrder == OrderInv /\ PopMixin => OrderInv'
<1> SUFFICES ASSUME OrderInv, PopMixin PROVE OrderInv'
  OBVIOUS
<1>1. OrderTypeOK /\ CountsOK /\ PrefixOK /\ OrderWhy
  BY DEF OrderInv
<1>2. PICK f : UseOfEach(f)
  BY DEF OrderInv
<1>k. PICK k, n0, fr, new, N :
        /\ k = Head(queue) /\ n0 = Len(order) + 1
        /\ fr = Freed(k) /\ new = Ascending(fr) /\ N = Cardinality(fr)
  OBVIOUS
<1>3. /\ at = "order" /\ queue # << >> /\ order' = Append(order, k)
      /\ indeg' = [m \in Mixins |-> IF m \in Edges(k) THEN indeg[m] - 1 ELSE indeg[m]]
      /\ queue' = Tail(queue) \o new
      /\ prog' = prog /\ at' = at /\ why' = why /\ point' = point
  BY <1>k DEF PopMixin, resolveVars
<1>4. /\ prog \in Programs /\ order \in Seq(Mixins) /\ queue \in Seq(Mixins)
      /\ indeg \in [Mixins -> Nat] /\ Len(order) \in Nat /\ Len(queue) \in Nat
      /\ DOMAIN order = 1..Len(order) /\ n0 \in Nat /\ n0 = Len(order) + 1
  BY <1>1, <1>3, <1>k, PlacedFacts DEF OrderTypeOK
<1>p. /\ n0 \in 1..Len(Placed) /\ Placed[n0] = k /\ Len(Placed) = Len(order) + Len(queue)
      /\ Placed \in Seq(Mixins) /\ Len(Placed) \in Nat
      /\ \A n \in 1..Len(order) : n \in 1..Len(Placed) /\ Placed[n] = order[n]
  BY <1>1, <1>3, <1>k, PlacedFacts
<1>5. k \in Used /\ indeg[k] = 0 /\ k \in Mixins
  <2>1. k = prog.uses[f[n0]] /\ f[n0] \in DOMAIN prog.uses
    BY <1>2, <1>p DEF UseOfEach
  <2>2. k \in Used
    BY <2>1, <1>4, ProgramFacts
  <2> QED
    BY <2>2, <1>1, <1>4, <1>p, ProgramFacts DEF CountsOK
<1>6. Used \subseteq Mixins /\ Used' = Used
  BY <1>3, <1>4, ProgramFacts DEF Used
<1>7. \A m \in Edges(k) : m \in Used /\ m \in Mixins /\ <<k, m>> \in prog.rules /\ m # k
  BY <1>4, <1>6, ProgramFacts DEF Edges
<1>8. \A m \in Used : /\ IsFiniteSet(OrderedBefore(m)) /\ Cardinality(OrderedBefore(m)) \in Nat
                      /\ Cardinality(UsedBefore(m)) \in Nat
                      /\ n0 \notin OrderedBefore(m)
  <2> SUFFICES ASSUME NEW m \in Used
               PROVE  /\ IsFiniteSet(OrderedBefore(m)) /\ Cardinality(OrderedBefore(m)) \in Nat
                      /\ Cardinality(UsedBefore(m)) \in Nat
                      /\ n0 \notin OrderedBefore(m)
    OBVIOUS
  <2>1. OrderedBefore(m) \subseteq 1..Len(order)
    BY <1>4 DEF OrderedBefore
  <2>2. IsFiniteSet(1..Len(order))
    BY <1>4, FS_Interval
  <2>3. IsFiniteSet(OrderedBefore(m))
    BY <2>1, <2>2, FS_Subset
  <2>4. n0 \notin OrderedBefore(m)
    BY <2>1, <1>4
  <2> QED
    BY <2>3, <2>4, <1>4, FS_CardinalityType, ProgramFacts
<1>9. \A m \in Edges(k) : indeg[m] >= 1
  <2> SUFFICES ASSUME NEW m \in Edges(k) PROVE indeg[m] >= 1
    OBVIOUS
  <2> DEFINE A == OrderedBefore(m) \cup {n0}
  <2>1. A \subseteq 1..Len(Placed)
    BY <1>4, <1>p DEF OrderedBefore
  <2>2. \A n \in A : <<Placed[n], m>> \in prog.rules
    BY <1>4, <1>p, <1>7 DEF OrderedBefore
  <2>3. Cardinality(A) = Cardinality(OrderedBefore(m)) + 1
    BY <1>7, <1>8, FS_AddElement
  <2> HIDE DEF A
  <2>4. Cardinality(A) <= Cardinality(UsedBefore(m))
    BY <1>1, <1>2, <2>1, <2>2, PlacedBeforeUses
  <2>5. indeg[m] + Cardinality(OrderedBefore(m)) = Cardinality(UsedBefore(m))
    BY <1>1, <1>7 DEF CountsOK
  <2>6. indeg[m] \in Nat
    BY <1>4, <1>7
  <2>7. Cardinality(OrderedBefore(m)) \in Nat /\ Cardinality(UsedBefore(m)) \in Nat
    BY <1>7, <1>8
  <2> QED
    BY <2>3, <2>4, <2>5, <2>6, <2>7
<1>10. indeg' \in [Mixins -> Nat]
  <2>1. \A m \in Mixins : (IF m \in Edges(k) THEN indeg[m] - 1 ELSE indeg[m]) \in Nat
    BY <1>4, <1>9
  <2> QED
    BY <1>3, <2>1
<1>11. fr \subseteq Mixins /\ IsFiniteSet(fr) /\ fr \in SUBSET Nat
  <2>1. fr \subseteq Mixins
    BY <1>k, <1>7 DEF Freed
  <2> QED
    BY <2>1, MixinsAssumption, FS_Subset
<1>12. /\ N \in Nat /\ new \in [1..N -> fr]
       /\ \A x \in fr : \E n \in 1..N : new[n] = x
       /\ \A m, n \in 1..N : m < n => new[m] < new[n]
  <2> QED
    BY <1>k, <1>11, AscendingFacts
<1>13. new \in Seq(Mixins) /\ Len(new) = N
  <2> QED
    BY <1>11, <1>12, FunctionIsSeq
<1>14. /\ order' \in Seq(Mixins) /\ queue' \in Seq(Mixins) /\ Len(order') = n0
       /\ \A n \in 1..Len(order) : order'[n] = order[n]
       /\ order'[n0] = k
  <2> QED
    BY <1>3, <1>k, <1>4, <1>5, <1>13
<1>15. /\ Placed' = Placed \o new
       /\ Len(Placed') = Len(Placed) + N
       /\ \A n \in 1..Len(Placed) : Placed'[n] = Placed[n]
       /\ \A n \in 1..N : Placed'[Len(Placed) + n] = new[n]
  <2>1. Placed' = Placed \o new
    <3>1. Append(order, Head(queue)) \o (Tail(queue) \o new) = (order \o queue) \o new
      <4>1. order \in Seq(Mixins) /\ queue \in Seq(Mixins) /\ queue # << >> /\ new \in Seq(Mixins)
        BY <1>3, <1>4, <1>13
      <4> QED
        BY <4>1, HeadMoves
    <3> QED
      BY <3>1, <1>3, <1>k DEF Placed
  <2> QED
    <3>1. Placed \in Seq(Mixins) /\ new \in Seq(Mixins)
      BY <1>p, <1>13
    <3>2. /\ Len(Placed') = Len(Placed) + Len(new)
          /\ \A n \in 1..Len(Placed) : Placed'[n] = Placed[n]
          /\ \A n \in 1..Len(new) : Placed'[Len(Placed) + n] = new[n]
      BY <2>1, <3>1, ConcatAt
    <3> QED
      BY <2>1, <3>2, <1>13
<1>16. OrderTypeOK'
  BY <1>1, <1>3, <1>4, <1>10, <1>14 DEF OrderTypeOK
<1>f. \A m \in fr : /\ m \in Used /\ m \in Edges(k) /\ indeg[m] = 1
                     /\ \A n \in 1..Len(Placed) : Placed[n] # m
  <2>1. \A m \in fr : m \in Edges(k) /\ indeg[m] = 1
    BY <1>k DEF Freed
  <2>2. \A m \in fr : m \in Used
    BY <2>1, <1>7
  <2>3. \A m \in fr : \A n \in 1..Len(Placed) : Placed[n] # m
    BY <2>1, <2>2, <1>1 DEF CountsOK
  <2> QED
    BY <2>1, <2>2, <2>3
<1>17. \E g : UseOfEach(g)'
  <2>1. PICK L : L = Len(Placed)
    OBVIOUS
  <2>2. PICK u : u = [m \in Used |-> CHOOSE j \in DOMAIN prog.uses : prog.uses[j] = m]
    OBVIOUS
  <2>3. \A m \in Used : u[m] \in DOMAIN prog.uses /\ prog.uses[u[m]] = m
    <3> SUFFICES ASSUME NEW m \in Used PROVE u[m] \in DOMAIN prog.uses /\ prog.uses[u[m]] = m
      OBVIOUS
    <3>1. \E j \in DOMAIN prog.uses : prog.uses[j] = m
      BY <1>4, ProgramFacts
    <3> QED
      BY <2>2, <3>1
  <2> DEFINE g == [n \in 1..(L + N) |-> IF n \in 1..L THEN f[n] ELSE u[new[n - L]]]
  <2>4. L \in Nat /\ N \in Nat /\ Len(Placed') = L + N
    BY <1>p, <1>12, <1>15, <2>1
  <2>5. \A n \in 1..(L + N) : n \in 1..L \/ n - L \in 1..N
    BY <2>4
  <2>6. \A n \in 1..L : /\ g[n] = f[n] /\ Placed'[n] = Placed[n]
                         /\ f[n] \in DOMAIN prog.uses /\ prog.uses[f[n]] = Placed[n]
    BY <1>2, <1>15, <2>1, <2>4 DEF UseOfEach
  <2>7. \A n \in 1..(L + N) : n \notin 1..L =>
          /\ g[n] = u[new[n - L]] /\ new[n - L] \in fr /\ Placed'[n] = new[n - L]
          /\ g[n] \in DOMAIN prog.uses /\ prog.uses[g[n]] = new[n - L]
    <3> SUFFICES ASSUME NEW n \in 1..(L + N), n \notin 1..L
                 PROVE  /\ g[n] = u[new[n - L]] /\ new[n - L] \in fr /\ Placed'[n] = new[n - L]
                        /\ g[n] \in DOMAIN prog.uses /\ prog.uses[g[n]] = new[n - L]
      OBVIOUS
    <3>1. PICK i \in 1..N : i = n - L /\ n = L + i
      BY <2>4, <2>5
    <3>2. g[n] = u[new[i]]
      BY <3>1
    <3> HIDE DEF g
    <3>3. new[i] \in fr /\ Placed'[n] = new[i]
      BY <3>1, <1>12, <1>15, <2>1
    <3>4. new[i] \in Used
      BY <3>3, <1>f
    <3> QED
      BY <3>1, <3>2, <3>3, <3>4, <2>3
  <2>8. g \in [1..Len(Placed') -> DOMAIN prog.uses]
    <3>1. \A n \in 1..(L + N) : g[n] \in DOMAIN prog.uses
      <4> HIDE DEF g
      <4> QED
        BY <2>6, <2>7
    <3>2. g = [n \in 1..(L + N) |-> g[n]]
      OBVIOUS
    <3> HIDE DEF g
    <3> QED
      BY <2>4, <3>1, <3>2
  <2> HIDE DEF g
  <2>9. \A n \in 1..Len(Placed') : prog.uses[g[n]] = Placed'[n]
    BY <2>4, <2>6, <2>7
  <2>10. \A m, n \in 1..Len(Placed') : g[m] = g[n] => m = n
    <3> SUFFICES ASSUME NEW m \in 1..(L + N), NEW n \in 1..(L + N), g[m] = g[n]
                 PROVE  m = n
      BY <2>4
    <3>1. Placed'[m] = Placed'[n]
      BY <2>4, <2>9
    <3>2. CASE m \in 1..L /\ n \in 1..L
      BY <3>2, <1>2, <2>1, <2>6 DEF UseOfEach
    <3>3. CASE m \notin 1..L /\ n \notin 1..L
      <4>1. PICK i \in 1..N : m = L + i /\ i = m - L
        BY <2>4, <3>3
      <4>2. PICK j \in 1..N : n = L + j /\ j = n - L
        BY <2>4, <3>3
      <4>3. new[i] = new[j]
        BY <3>1, <3>3, <4>1, <4>2, <2>7
      <4>4. ~(i < j) /\ ~(j < i)
        <5>1. new[i] \in Nat /\ new[i] = new[j]
          BY <4>3, <1>11, <1>12
        <5>2. ~(new[i] < new[j]) /\ ~(new[j] < new[i])
          BY <5>1
        <5> QED
          BY <5>2, <1>12
      <4> QED
        BY <4>1, <4>2, <4>4, <2>4
    <3>4. CASE m \in 1..L /\ n \notin 1..L
      BY <3>1, <3>4, <2>1, <2>6, <2>7, <1>f
    <3>5. CASE m \notin 1..L /\ n \in 1..L
      BY <3>1, <3>5, <2>1, <2>6, <2>7, <1>f
    <3> QED
      BY <3>2, <3>3, <3>4, <3>5
  <2>11. UseOfEach(g)'
    BY <1>3, <2>8, <2>9, <2>10 DEF UseOfEach
  <2> QED
    BY <2>11
<1>18. CountsOK'
  <2>1. \A m \in Used : indeg'[m] = IF m \in Edges(k) THEN indeg[m] - 1 ELSE indeg[m]
    BY <1>3, <1>6
  <2>2. \A m : UsedBefore(m)' = UsedBefore(m)
    BY <1>3 DEF UsedBefore
  <2>3. \A m : OrderedBefore(m)' = IF <<k, m>> \in prog.rules THEN OrderedBefore(m) \cup {n0}
                                                             ELSE OrderedBefore(m)
    <3> SUFFICES ASSUME NEW m
                 PROVE  OrderedBefore(m)' = IF <<k, m>> \in prog.rules THEN OrderedBefore(m) \cup {n0}
                                                                      ELSE OrderedBefore(m)
      OBVIOUS
    <3>1. OrderedBefore(m)' = {n \in 1..n0 : <<order'[n], m>> \in prog.rules}
      <4>1. DOMAIN order' = 1..n0
        BY <1>14
      <4> QED
        BY <4>1, <1>3 DEF OrderedBefore
    <3>2. OrderedBefore(m) = {n \in 1..Len(order) : <<order[n], m>> \in prog.rules}
      BY <1>4 DEF OrderedBefore
    <3>3. 1..n0 = (1..Len(order)) \cup {n0}
      BY <1>4
    <3> QED
      BY <3>1, <3>2, <3>3, <1>14
  <2>4. \A m \in Used : indeg'[m] + Cardinality(OrderedBefore(m)') = Cardinality(UsedBefore(m)')
    <3> SUFFICES ASSUME NEW m \in Used
                 PROVE  indeg'[m] + Cardinality(OrderedBefore(m)') = Cardinality(UsedBefore(m)')
      OBVIOUS
    <3>1. indeg[m] + Cardinality(OrderedBefore(m)) = Cardinality(UsedBefore(m))
      BY <1>1 DEF CountsOK
    <3>2. indeg[m] \in Nat
      BY <1>4, <1>6
    <3>3. IsFiniteSet(OrderedBefore(m)) /\ Cardinality(OrderedBefore(m)) \in Nat /\ n0 \notin OrderedBefore(m)
      BY <1>8
    <3>4. m \in Edges(k) <=> <<k, m>> \in prog.rules
      BY DEF Edges
    <3>5. CASE m \in Edges(k)
      <4>1. Cardinality(OrderedBefore(m)') = Cardinality(OrderedBefore(m)) + 1
        BY <2>3, <3>3, <3>4, <3>5, FS_AddElement
      <4>2. indeg'[m] = indeg[m] - 1
        BY <2>1, <3>5
      <4> QED
        BY <2>2, <3>1, <3>2, <3>3, <4>1, <4>2
    <3>6. CASE m \notin Edges(k)
      BY <2>1, <2>2, <2>3, <3>1, <3>4, <3>6
    <3> QED
      BY <3>5, <3>6
  <2>5. ASSUME NEW m \in Used, indeg'[m] = 0
        PROVE  \E n \in 1..Len(Placed') : Placed'[n] = m
    <3>1. CASE m \in Edges(k)
      <4>1. m \in fr
        BY <2>1, <2>5, <3>1, <1>4, <1>6, <1>k DEF Freed
      <4>2. PICK n \in 1..N : new[n] = m
        BY <4>1, <1>12
      <4>3. Len(Placed) + n \in 1..Len(Placed')
        BY <1>p, <1>12, <1>15
      <4> QED
        BY <4>2, <4>3, <1>15
    <3>2. CASE m \notin Edges(k)
      <4>1. PICK n \in 1..Len(Placed) : Placed[n] = m
        BY <2>1, <2>5, <3>2, <1>1 DEF CountsOK
      <4>2. n \in 1..Len(Placed')
        BY <1>p, <1>12, <1>15
      <4> QED
        BY <4>1, <4>2, <1>15
    <3> QED
      BY <3>1, <3>2
  <2>6. ASSUME NEW m \in Used, NEW n \in 1..Len(Placed'), Placed'[n] = m
        PROVE  indeg'[m] = 0
    <3>1. CASE n \in 1..Len(Placed)
      <4>1. indeg[m] = 0
        BY <2>6, <3>1, <1>1, <1>15 DEF CountsOK
      <4>2. m \notin Edges(k)
        BY <4>1, <1>9
      <4> QED
        BY <4>1, <4>2, <2>1
    <3>2. CASE n \notin 1..Len(Placed)
      <4>1. PICK i \in 1..N : n = Len(Placed) + i
        <5>1. /\ Len(Placed) \in Nat /\ N \in Nat /\ Len(Placed') = Len(Placed) + N
              /\ n \in 1..Len(Placed') /\ n \notin 1..Len(Placed)
          BY <2>6, <3>2, <1>p, <1>12, <1>15
        <5>2. n - Len(Placed) \in 1..N /\ n = Len(Placed) + (n - Len(Placed))
          BY <5>1
        <5> QED
          BY <5>2
      <4>2. m \in fr
        BY <2>6, <4>1, <1>12, <1>15
      <4> QED
        BY <4>2, <2>1, <1>f
    <3> QED
      BY <3>1, <3>2
  <2>7. \A m \in Used' : indeg'[m] = 0 <=> \E n \in 1..Len(Placed') : Placed'[n] = m
    BY <2>5, <2>6, <1>6
  <2>8. \A m \in Used' : indeg'[m] + Cardinality(OrderedBefore(m)') = Cardinality(UsedBefore(m)')
    BY <2>4, <1>6
  <2> QED
    BY <2>7, <2>8 DEF CountsOK
<1>19. PrefixOK'
  <2> SUFFICES ASSUME NEW n \in DOMAIN order', NEW a \in Used, <<a, order'[n]>> \in prog.rules
               PROVE  \E m \in 1..n - 1 : order'[m] = a
    BY <1>3, <1>6 DEF PrefixOK
  <2>1. n \in 1..n0
    BY <1>14
  <2>2. CASE n = n0
    <3>1. PICK m \in 1..Len(order) : order[m] = a
      BY <1>1, <1>2, <1>5, <1>14, <2>2, AllBeforeOrdered
    <3> QED
      BY <1>4, <1>14, <2>2, <3>1
  <2>3. CASE n \in 1..Len(order)
    <3>1. PICK m \in 1..n - 1 : order[m] = a
      BY <1>1, <1>4, <1>14, <2>3 DEF PrefixOK
    <3>2. Len(order) \in Nat
      BY <1>4
    <3>3. m \in 1..Len(order)
      BY <2>3, <3>2
    <3>4. order'[m] = order[m]
      BY <1>14, <3>3
    <3> QED
      BY <3>1, <3>4
  <2> QED
    BY <1>4, <2>1, <2>2, <2>3
<1>20. OrderWhy'
  BY <1>1, <1>3, NoneAssumption DEF OrderWhy, Errors
<1> QED
  BY <1>16, <1>17, <1>18, <1>19, <1>20 DEF OrderInv

\* When the queue is empty before all are placed, the uses that are left wait
\* for each other, or a mixin is used twice.
LEMMA CycleFound ==
  ASSUME OrderInv, queue = << >>, Len(order) # Len(prog.uses), IsInjective(prog.uses)
  PROVE  \E C \in (SUBSET Used) \ {{}} : \A b \in C : \E a \in C : <<a, b>> \in prog.rules
<1>1. OrderTypeOK /\ CountsOK
  BY DEF OrderInv
<1>2. PICK f : UseOfEach(f)
  BY DEF OrderInv
<1>3. /\ prog \in Programs /\ Len(order) \in Nat /\ DOMAIN order = 1..Len(order)
      /\ Len(Placed) = Len(order) /\ \A n \in 1..Len(order) : Placed[n] = order[n]
  BY <1>1, PlacedFacts DEF OrderTypeOK, Placed
<1>4. /\ f \in [1..Len(order) -> DOMAIN prog.uses]
      /\ \A m, n \in 1..Len(order) : f[m] = f[n] => m = n
      /\ \A n \in 1..Len(order) : prog.uses[f[n]] = order[n]
  BY <1>2, <1>3 DEF UseOfEach
<1>5. \A i, j \in DOMAIN prog.uses : prog.uses[i] = prog.uses[j] => i = j
  BY DEF IsInjective
<1>6. PICK C : C = {prog.uses[j] : j \in {i \in DOMAIN prog.uses : \A n \in 1..Len(order) : f[n] # i}}
  OBVIOUS
<1>7. C \in SUBSET Used
  BY <1>3, <1>6, ProgramFacts
<1>8. C # {}
  <2> SUFFICES ASSUME \A i \in DOMAIN prog.uses : \E n \in 1..Len(order) : f[n] = i
               PROVE  FALSE
    BY <1>6
  <2>1. f \in Surjection(1..Len(order), DOMAIN prog.uses)
    BY <1>4 DEF Surjection
  <2>2. f \in Injection(1..Len(order), DOMAIN prog.uses)
    BY <1>4 DEF Injection, IsInjective
  <2>3. /\ IsFiniteSet(1..Len(order)) /\ Cardinality(1..Len(order)) = Len(order)
        /\ Cardinality(DOMAIN prog.uses) = Len(prog.uses) /\ IsFiniteSet(DOMAIN prog.uses)
    <3>1. Len(prog.uses) \in Nat /\ DOMAIN prog.uses = 1..Len(prog.uses)
      BY <1>3, ProgramFacts
    <3>2. \A n \in Nat : IsFiniteSet(1..n) /\ Cardinality(1..n) = n
      BY FS_Interval
    <3> QED
      BY <1>3, <3>1, <3>2
  <2>4. Cardinality(1..Len(order)) = Cardinality(DOMAIN prog.uses)
    BY <2>1, <2>2, <2>3, FS_Surjection
  <2> QED
    BY <2>3, <2>4
<1>9. ASSUME NEW b \in C PROVE \E a \in C : <<a, b>> \in prog.rules
  <2>1. PICK i \in DOMAIN prog.uses : b = prog.uses[i] /\ \A n \in 1..Len(order) : f[n] # i
    BY <1>6
  <2>2. b \in Used
    BY <1>7
  <2>3. \A n \in 1..Len(order) : order[n] # b
    BY <1>4, <1>5, <2>1
  <2>4. indeg[b] # 0
    BY <1>1, <1>3, <2>2, <2>3 DEF CountsOK
  <2>5. OrderedBefore(b) \subseteq 1..Len(Placed)
    BY <1>3 DEF OrderedBefore
  <2>6. \A n \in OrderedBefore(b) : <<Placed[n], b>> \in prog.rules
    BY <1>3 DEF OrderedBefore
  <2>7. IsFiniteSet(OrderedBefore(b)) /\ Cardinality(OrderedBefore(b)) \in Nat
    BY <1>1, <1>2, <2>5, <2>6, PlacedBeforeUses
  <2>8. Cardinality(OrderedBefore(b)) # Cardinality(UsedBefore(b))
    <3>1. indeg[b] + Cardinality(OrderedBefore(b)) = Cardinality(UsedBefore(b))
      BY <1>1, <2>2 DEF CountsOK
    <3>2. indeg[b] \in Nat
      BY <1>1, <1>3, <2>2, ProgramFacts DEF OrderTypeOK
    <3> QED
      BY <2>4, <2>7, <3>1, <3>2
  <2>9. PICK j \in UsedBefore(b) : \A n \in OrderedBefore(b) : f[n] # j
    <3> SUFFICES ASSUME \A j \in UsedBefore(b) : \E n \in OrderedBefore(b) : f[n] = j
                 PROVE  FALSE
      OBVIOUS
    <3> DEFINE g == [n \in OrderedBefore(b) |-> f[n]]
    <3>1. \A n \in OrderedBefore(b) : f[n] \in UsedBefore(b)
      BY <1>3, <1>4 DEF OrderedBefore, UsedBefore
    <3>2. g \in Surjection(OrderedBefore(b), UsedBefore(b))
      BY <3>1 DEF Surjection
    <3>3. \A m, n \in OrderedBefore(b) : f[m] = f[n] => m = n
      BY <1>3, <1>4 DEF OrderedBefore
    <3>4. g \in Injection(OrderedBefore(b), UsedBefore(b))
      BY <3>1, <3>3 DEF Injection, IsInjective
    <3> HIDE DEF g
    <3> QED
      BY <2>7, <2>8, <3>2, <3>4, FS_Surjection
  <2>10. j \in DOMAIN prog.uses /\ <<prog.uses[j], b>> \in prog.rules
    BY <2>9 DEF UsedBefore
  <2>11. \A n \in 1..Len(order) : f[n] # j
    BY <1>3, <1>4, <2>9, <2>10 DEF OrderedBefore
  <2>12. prog.uses[j] \in C
    BY <1>6, <2>10, <2>11
  <2> QED
    BY <2>10, <2>12
<1> QED
  BY <1>7, <1>8, <1>9

LEMMA OrderUnchanged ==
  ASSUME OrderTypeOK, \E f : UseOfEach(f), CountsOK, PrefixOK,
         UNCHANGED <<prog, queue, indeg, order>>, point' \in Points
  PROVE  (OrderTypeOK /\ (\E f : UseOfEach(f)) /\ CountsOK /\ PrefixOK)'
<1>1. Placed' = Placed /\ Used' = Used
  BY DEF Placed, Used
<1>2. \A k : OrderedBefore(k)' = OrderedBefore(k) /\ UsedBefore(k)' = UsedBefore(k)
  BY DEF OrderedBefore, UsedBefore
<1>3. OrderTypeOK'
  BY DEF OrderTypeOK
<1>4. \E f : UseOfEach(f)'
  BY <1>1 DEF UseOfEach
<1>5. CountsOK'
  BY <1>1, <1>2 DEF CountsOK
<1>6. PrefixOK'
  BY <1>1 DEF PrefixOK
<1> QED
  BY <1>3, <1>4, <1>5, <1>6

LEMMA DoneKeepsOrder == OrderInv /\ OrderDone => OrderInv'
<1> SUFFICES ASSUME OrderInv, OrderDone PROVE OrderInv'
  OBVIOUS
<1>1. /\ at = "order" /\ queue = << >> /\ UNCHANGED <<prog, queue, indeg, order, point>>
      /\ \/ Len(order) = Len(prog.uses) /\ at' = "add" /\ why' = why
         \/ Len(order) # Len(prog.uses) /\ at' = "error" /\ why' = "cyclic rules"
  BY DEF OrderDone, orderVars, resolveVars, Raise, Goto
<1>2. (OrderTypeOK /\ (\E f : UseOfEach(f)) /\ CountsOK /\ PrefixOK)'
  <2>1. point' \in Points
    BY <1>1 DEF OrderInv, OrderTypeOK
  <2> QED
    BY <1>1, <2>1, OrderUnchanged DEF OrderInv
<1>3. why = None
  BY <1>1 DEF OrderInv, OrderWhy
<1>4. CASE Len(order) = Len(prog.uses) /\ at' = "add" /\ why' = why
  <2>1. why' # "cyclic rules"
    BY <1>3, <1>4, NoneAssumption DEF Errors
  <2> QED
    BY <1>1, <1>2, <1>4, <2>1 DEF OrderInv, OrderWhy
<1>5. CASE Len(order) # Len(prog.uses) /\ at' = "error" /\ why' = "cyclic rules"
  <2>1. ~IsInjective(prog.uses) \/
          \E C \in (SUBSET Used) \ {{}} : \A b \in C : \E a \in C : <<a, b>> \in prog.rules
    BY <1>1, <1>5, CycleFound
  <2>2. prog' = prog /\ Used' = Used
    BY <1>1 DEF Used
  <2>3. (~IsInjective(prog.uses) \/
          \E C \in (SUBSET Used) \ {{}} : \A b \in C : \E a \in C : <<a, b>> \in prog.rules)'
    BY <2>1, <2>2
  <2> QED
    BY <1>2, <1>5, <2>3 DEF OrderInv, OrderWhy
<1> QED
  BY <1>1, <1>4, <1>5

\* The later steps leave the order alone.
LaterStep ==
  /\ at \notin {"order", "error"} /\ at' # "order" /\ UNCHANGED <<prog, queue, indeg, order>>
  /\ point' \in Points
  /\ why' = why \/ why' # "cyclic rules"

LEMMA LaterSteps ==
  point \in Points /\ Next => PopMixin \/ OrderDone \/ LaterStep
<1> SUFFICES ASSUME point \in Points PROVE Next => PopMixin \/ OrderDone \/ LaterStep
  OBVIOUS
<1>1. ChooseAdd => LaterStep
  BY DEF ChooseAdd, LaterStep, Raise, Goto, resolveVars
<1>2. Collect => LaterStep
  BY DEF Collect, LaterStep, Goto, orderVars
<1>3. SelectGroup => LaterStep
  BY DEF SelectGroup, LaterStep, Raise, orderVars
<1>4. DropMissing => LaterStep
  BY DEF DropMissing, LaterStep, Raise, orderVars
<1>5. BuildGraph => LaterStep
  BY DEF BuildGraph, LaterStep, Goto, orderVars
<1>6. PopReady => LaterStep
  BY DEF PopReady, LaterStep, orderVars
<1>7. StackDone => LaterStep
  <2> SUFFICES ASSUME StackDone PROVE LaterStep
    OBVIOUS
  <2>1. at = "stack" /\ UNCHANGED <<prog, queue, indeg, order>>
    BY DEF StackDone, orderVars
  <2>2. \/ at' = "error" /\ why' = "cyclic dependencies"
        \/ at' \in {"select", "weave"} /\ why' = why
    BY DEF StackDone, Raise, Goto, Points
  <2>3. point' \in Points
    BY DEF StackDone, Raise, Goto, Points
  <2> QED
    BY <2>1, <2>2, <2>3 DEF LaterStep
<1>8. Weave => LaterStep
  BY DEF Weave, LaterStep, Raise, orderVars, resolveVars
<1>9. Done => LaterStep
  BY DEF Done, LaterStep, Goto, orderVars, resolveVars
<1> QED
  BY <1>1, <1>2, <1>3, <1>4, <1>5, <1>6, <1>7, <1>8, <1>9 DEF Next

LEMMA LaterKeepsOrder == OrderInv /\ (LaterStep \/ UNCHANGED vars) => OrderInv'
<1> SUFFICES ASSUME OrderInv, LaterStep \/ UNCHANGED vars PROVE OrderInv'
  OBVIOUS
<1>1. /\ UNCHANGED <<prog, queue, indeg, order>> /\ point' \in Points
      /\ \/ at' = at /\ why' = why
         \/ at \notin {"order", "error"} /\ at' # "order" /\ (why' = why \/ why' # "cyclic rules")
  BY DEF LaterStep, vars, OrderInv, OrderTypeOK
<1>2. (OrderTypeOK /\ (\E f : UseOfEach(f)) /\ CountsOK /\ PrefixOK)'
  BY <1>1, OrderUnchanged DEF OrderInv
<1>3. OrderWhy'
  BY <1>1 DEF OrderInv, OrderWhy, Used
<1> QED
  BY <1>2, <1>3 DEF OrderInv

\* The invariant of the sort, whatever the programs are.
THEOREM MixinOrderCorrect == Spec => []OrderInv
<1>1. OrderInv /\ [Next]_vars => OrderInv'
  <2>1. OrderInv => point \in Points
    BY DEF OrderInv, OrderTypeOK
  <2> QED
    BY <2>1, PopKeepsOrder, DoneKeepsOrder, LaterSteps, LaterKeepsOrder
<1> QED
  BY <1>1, OrderInitially, PTL DEF Spec

\* A completed order holds every mixin as often as it is used.
LEMMA OrderIsComplete ==
  ASSUME OrderInv, at \notin {"order", "error"}, NEW k \in Mixins
  PROVE  Cardinality({n \in DOMAIN order : order[n] = k}) =
           Cardinality({n \in DOMAIN prog.uses : prog.uses[n] = k})
<1>1. OrderTypeOK /\ queue = << >> /\ Len(order) = Len(prog.uses)
  BY DEF OrderInv, OrderWhy
<1>2. PICK f : UseOfEach(f)
  BY DEF OrderInv
<1>3. /\ prog \in Programs /\ Len(order) \in Nat /\ DOMAIN order = 1..Len(order)
      /\ DOMAIN prog.uses = 1..Len(order)
      /\ Len(Placed) = Len(order) /\ \A n \in 1..Len(order) : Placed[n] = order[n]
  BY <1>1, PlacedFacts, ProgramFacts DEF OrderTypeOK, Placed
<1>4. /\ f \in [1..Len(order) -> 1..Len(order)]
      /\ \A m, n \in 1..Len(order) : f[m] = f[n] => m = n
      /\ \A n \in 1..Len(order) : prog.uses[f[n]] = order[n]
  BY <1>2, <1>3 DEF UseOfEach
<1>5. \A j \in 1..Len(order) : \E n \in 1..Len(order) : f[n] = j
  <2>1. f \in Injection(1..Len(order), 1..Len(order))
    BY <1>4 DEF Injection, IsInjective
  <2>2. IsFiniteSet(1..Len(order))
    BY <1>3, FS_Interval
  <2>3. f \in Surjection(1..Len(order), 1..Len(order))
    BY <2>1, <2>2, FS_Injection
  <2> QED
    BY <2>3 DEF Surjection
<1>6. PICK A, B : A = {n \in 1..Len(order) : order[n] = k} /\ B = {n \in 1..Len(order) : prog.uses[n] = k}
  OBVIOUS
<1> DEFINE g == [n \in A |-> f[n]]
<1>7. g \in [A -> B]
  BY <1>4, <1>6
<1>8. g \in Injection(A, B)
  BY <1>4, <1>6, <1>7 DEF Injection, IsInjective
<1>9. g \in Surjection(A, B)
  <2>1. ASSUME NEW j \in B PROVE \E n \in A : g[n] = j
    <3>1. j \in 1..Len(order) /\ prog.uses[j] = k
      BY <1>6
    <3>2. PICK n \in 1..Len(order) : f[n] = j
      BY <3>1, <1>5
    <3>3. n \in A
      BY <1>4, <1>6, <3>1, <3>2
    <3> QED
      BY <3>2, <3>3
  <2> HIDE DEF g
  <2> QED
    BY <1>7, <2>1 DEF Surjection
<1>10. IsFiniteSet(A)
  <2>1. IsFiniteSet(1..Len(order)) /\ A \subseteq 1..Len(order)
    BY <1>3, <1>6, FS_Interval
  <2> QED
    BY <2>1, FS_Subset
<1> HIDE DEF g
<1>11. Cardinality(A) = Cardinality(B)
  BY <1>8, <1>9, <1>10, FS_Surjection
<1> QED
  BY <1>3, <1>6, <1>11

\* Also while the sort runs, a mixin comes after every used one that is
\* preferred over it; a completed order holds each use once.
THEOREM PreferredComesFirst == Spec => []PreferredFirst
<1>1. OrderInv => PreferredFirst
  BY OrderIsComplete DEF OrderInv, PrefixOK, PreferredFirst
<1> QED
  BY <1>1, MixinOrderCorrect, PTL

-----------------------------------------------------------------------------
(* The inductive invariant.                                                  *)

HookSpec == [key : Mixins, item : Item, id : Ids \cup DefaultIds]
Reasons == {"duplicate_drop", "unknown_dependency", "locator_mismatch"}

\* Before Collect there are no specs.
NothingYet ==
  /\ specs = << >> /\ point = "head" /\ todo = << >> /\ selected = << >>
  /\ \A p \in Points : stack[p] = << >>
  /\ dropped = {} /\ left = << >> /\ woven = << >>

ResolveTypeOK ==
  /\ at \in {"order", "add", "collect", "select", "stack", "weave", "done", "error"}
  /\ specs \in Seq(HookSpec)
  /\ todo \in Seq(Ids \cup DefaultIds) /\ selected \in Seq(DOMAIN specs)
  /\ stack \in [Points -> Seq(DOMAIN specs)]
  /\ dropped \subseteq (DOMAIN specs) \X Reasons
  /\ left \in Seq(DOMAIN specs) /\ woven \in Seq(DOMAIN specs)
  /\ at \in {"order", "add", "collect"} => NothingYet

\* In the specs ss the id d is written for the point p, before the id e.
IdBefore(ss, p, d, e) ==
  \E k \in At(ss, p) : ss[k].id = d /\ \A l \in At(ss, p) : ss[l].id = e => k < l

\* The specs of q are in the order of their ids, so each is there once.
InIdOrder(p, q) ==
  \A m, n \in DOMAIN q : m < n => IdBefore(specs, p, specs[q[m]].id, specs[q[n]].id)

Processed(i) == \A n \in DOMAIN todo : todo[n] # specs[i].id

\* While the groups of the point p are looked at and specs are dropped.
Selecting(p) ==
  /\ \A n \in DOMAIN todo : \E i \in At(specs, p) : specs[i].id = todo[n]
  /\ \A m, n \in DOMAIN todo : m < n => IdBefore(specs, p, todo[m], todo[n])
  /\ \A m \in DOMAIN selected : selected[m] \in Survivors(p) /\ Processed(selected[m])
  /\ InIdOrder(p, selected)
  /\ \A m \in DOMAIN selected, n \in DOMAIN todo : IdBefore(specs, p, specs[selected[m]].id, todo[n])
  /\ \A i \in At(specs, p) : Processed(i) /\ Rivals(i) # {} => specs[i].item.policy # "error"
  /\ \A i \in Survivors(p) : i \in Range(selected) \/ ~Processed(i)
                             \/ (~specs[i].item.strict /\ i \notin Closed(p))
  /\ stack[p] = << >>

\* While the call stack of p is built.
Stacking(p) ==
  /\ Range(selected) = Closed(p)
  /\ InIdOrder(p, selected)
  /\ ~Clashes(p) /\ ~StrictLoses(p)
  /\ DOMAIN blocked = Range(selected)
  /\ \A i \in Range(selected) :
       /\ IsFiniteSet(specs[i].item.depends)
       /\ blocked[i] = Cardinality(specs[i].item.depends \ IdsOf(Range(stack[p])))

PointNo(p) == CASE p = "head" -> 1 [] p = "invoke" -> 2 [] p = "tail" -> 3

Resolved(p) == Range(stack[p]) = Closed(p) /\ ~Clashes(p) /\ ~StrictLoses(p) /\ ~CircularAt(p)

ResolveInv ==
  /\ at = "select" => Selecting(point)
  /\ at = "stack" => Stacking(point)
  /\ at \in {"select", "stack"} => \A p \in Points :
       /\ PointNo(p) < PointNo(point) => Resolved(p)
       /\ PointNo(p) > PointNo(point) => stack[p] = << >>
  /\ at \in {"weave", "done"} => \A p \in Points : Resolved(p)
  /\ StackOrder
  /\ at # "error" => why = None
  /\ why = "duplicate id" => Clashes(point)
  /\ why = "unknown dependency" => ~Clashes(point) /\ StrictLoses(point)
  /\ why = "cyclic dependencies" => ~StrictLoses(point) /\ CircularAt(point)

\* Where each spec is.
Live == IF at \in {"weave", "done"} THEN Range(left) \cup Range(woven)
                                    ELSE Range(selected) \cup UNION {Range(stack[p]) : p \in Points}
Gone == {r[1] : r \in dropped}
YieldsTo(i, S) == \E j \in Rivals(i) : /\ specs[j].item.policy = "prefer"
                                       /\ specs[i].item.policy = "drop" \/ Precedes(j, i)
                                       /\ j \in S
Decided(i) == \/ at \in {"weave", "done"}
              \/ PointNo(specs[i].item.point) < PointNo(point)
              \/ specs[i].item.point = point /\ (at = "stack" \/ Processed(i))

AccountInv ==
  at \in {"select", "stack", "weave", "done"} =>
    /\ \A i \in DOMAIN specs : Decided(i) => i \in Live \cup Gone \/ YieldsTo(i, Live \cup Gone)
    /\ \A i \in Gone : i \notin Live /\ Decided(i)
    /\ \A r, s \in dropped : r[1] = s[1] => r = s

\* The woven specs are at increasing places of the outer stack behind those
\* that are left.
WovenAt(e) ==
  /\ e \in [1..Len(woven) -> Len(left) + 1..Len(OuterStack(stack))]
  /\ \A m, n \in 1..Len(woven) : m < n => e[m] < e[n]
  /\ \A n \in 1..Len(woven) : OuterStack(stack)[e[n]] = woven[n]
WeaveInv ==
  /\ at \in {"select", "stack"} => left = << >> /\ woven = << >>
  /\ at \in {"weave", "done"} =>
       /\ Len(left) <= Len(OuterStack(stack))
       /\ \A n \in 1..Len(left) : left[n] = OuterStack(stack)[n]
       /\ \E e \in [1..Len(woven) -> 1..Len(OuterStack(stack))] : WovenAt(e)
  /\ at = "done" => left = << >>

-----------------------------------------------------------------------------
(* Least elements.                                                           *)

\* A finite set that is not empty has a least element in a strict order.
LEMMA LeastElement ==
  ASSUME NEW S, IsFiniteSet(S), S # {}, NEW R, StrictOrder(S, R)
  PROVE  \E x \in S : \A y \in S : x = y \/ <<x, y>> \in R
<1>1. PICK s, N : s = InOrder(S, R) /\ N = Cardinality(S)
  OBVIOUS
<1>2. /\ N \in Nat /\ s \in [1..N -> S]
      /\ \A x \in S : \E k \in 1..N : s[k] = x
      /\ \A j, k \in 1..N : j < k => <<s[j], s[k]>> \in R
  BY <1>1, InOrderFacts
<1>3. 1 \in 1..N
  BY <1>2
<1>4. \A y \in S : s[1] = y \/ <<s[1], y>> \in R
  <2> SUFFICES ASSUME NEW y \in S PROVE s[1] = y \/ <<s[1], y>> \in R
    OBVIOUS
  <2>1. PICK k \in 1..N : s[k] = y
    BY <1>2
  <2>2. k = 1 \/ 1 < k
    BY <1>2
  <2> QED
    BY <1>2, <1>3, <2>1, <2>2
<1> QED
  BY <1>2, <1>3, <1>4

\* A finite set of numbers has a least one.
LEMMA LeastNumber ==
  ASSUME NEW S, IsFiniteSet(S), S # {}, S \subseteq Nat
  PROVE  \E x \in S : \A y \in S : x <= y
<1> DEFINE R == {r \in S \X S : r[1] < r[2]}
<1>1. StrictOrder(S, R)
  BY DEF StrictOrder
<1>2. \A x, y \in S : <<x, y>> \in R => x < y
  OBVIOUS
<1> HIDE DEF R
<1>3. PICK x \in S : \A y \in S : x = y \/ <<x, y>> \in R
  BY <1>1, LeastElement
<1>4. \A y \in S : x <= y
  <2> SUFFICES ASSUME NEW y \in S PROVE x <= y
    OBVIOUS
  <2>1. x \in Nat /\ y \in Nat
    OBVIOUS
  <2>2. x = y \/ x < y
    BY <1>2, <1>3
  <2> QED
    BY <2>1, <2>2
<1> QED
  BY <1>4

-----------------------------------------------------------------------------
(* The specs, once they are collected.                                       *)

\* The types of the parts of the specs.
LEMMA SpecFacts ==
  ASSUME specs \in Seq(HookSpec)
  PROVE  /\ DOMAIN specs = 1..Len(specs) /\ Len(specs) \in Nat
         /\ IsFiniteSet(DOMAIN specs)
         /\ \A i \in DOMAIN specs : /\ i \in Nat /\ specs[i].id \in Ids \cup DefaultIds
                                    /\ specs[i].item.point \in Points
                                    /\ specs[i].item.priority \in Int
                                    /\ specs[i].item.policy \in Policies
<1>1. DOMAIN specs = 1..Len(specs) /\ Len(specs) \in Nat
  OBVIOUS
<1>2. IsFiniteSet(DOMAIN specs)
  BY <1>1, FS_Interval
<1>3. \A i \in DOMAIN specs : specs[i] \in HookSpec
  BY <1>1
<1>4. ASSUME NEW x \in HookSpec
      PROVE  /\ x.id \in Ids \cup DefaultIds /\ x.item.point \in Points
             /\ x.item.priority \in Int /\ x.item.policy \in Policies
  BY DEF HookSpec, Item
<1> QED
  BY <1>1, <1>2, <1>3, <1>4

\* Precedence is a strict order: of two specs one precedes.
LEMMA PrecedesOrder ==
  ASSUME specs \in Seq(HookSpec), NEW i \in DOMAIN specs, NEW j \in DOMAIN specs
  PROVE  /\ i # j => Precedes(i, j) \/ Precedes(j, i)
         /\ ~(Precedes(i, j) /\ Precedes(j, i))
         /\ ~Precedes(i, i)
         /\ \A k \in DOMAIN specs : Precedes(i, j) /\ Precedes(j, k) => Precedes(i, k)
<1>1. \A k \in DOMAIN specs : k \in Nat /\ specs[k].item.priority \in Int
  BY SpecFacts
<1> QED
  BY <1>1 DEF Precedes

\* The foremost of some specs is one of them and precedes the others.
LEMMA ForemostFacts ==
  ASSUME specs \in Seq(HookSpec), NEW S, S \subseteq DOMAIN specs, S # {}
  PROVE  Foremost(S) \in S /\ \A j \in S : Foremost(S) = j \/ Precedes(Foremost(S), j)
<1> DEFINE R == {r \in S \X S : Precedes(r[1], r[2])}
<1>1. IsFiniteSet(S)
  BY SpecFacts, FS_Subset
<1>2. \A x, y \in S : <<x, y>> \in R <=> Precedes(x, y)
  OBVIOUS
<1> HIDE DEF R
<1>3. StrictOrder(S, R)
  BY <1>2, PrecedesOrder DEF StrictOrder
<1>4. \E x \in S : \A y \in S : x = y \/ <<x, y>> \in R
  BY <1>1, <1>3, LeastElement
<1>5. \E x \in S : \A y \in S : x = y \/ Precedes(x, y)
  BY <1>2, <1>4
<1> QED
  BY <1>5 DEF Foremost

\* Two survivors of a point have different ids.
LEMMA SurvivorsDiffer ==
  ASSUME specs \in Seq(HookSpec), NEW p, NEW i \in Survivors(p), NEW j \in Survivors(p),
         specs[i].id = specs[j].id
  PROVE  i = j
<1> SUFFICES ASSUME i # j PROVE FALSE
  OBVIOUS
<1>1. i \in DOMAIN specs /\ j \in DOMAIN specs /\ specs[i].item.point = p /\ specs[j].item.point = p
  BY DEF Survivors
<1>2. j \in Rivals(i) /\ i \in Rivals(j)
  BY <1>1 DEF Rivals, SameHook
<1>3. specs[i].item.policy = "prefer" /\ specs[j].item.policy = "prefer"
  BY <1>2 DEF Survivors
<1>4. Precedes(i, j) /\ Precedes(j, i)
  BY <1>2, <1>3 DEF Survivors
<1> QED
  BY <1>1, <1>4, PrecedesOrder

\* Closed(p) is the largest closed set of survivors.
LEMMA ClosedFacts ==
  ASSUME NEW p
  PROVE  /\ Closed(p) \subseteq Survivors(p)
         /\ \A i \in Closed(p) : specs[i].item.depends \subseteq IdsOf(Closed(p))
         /\ \A S \in SUBSET Survivors(p) :
              (\A i \in S : specs[i].item.depends \subseteq IdsOf(S)) => S \subseteq Closed(p)
<1>1. Closed(p) \subseteq Survivors(p)
  BY DEF Closed
<1>2. ASSUME NEW i \in Closed(p) PROVE specs[i].item.depends \subseteq IdsOf(Closed(p))
  <2>1. PICK S \in SUBSET Survivors(p) :
          i \in S /\ \A j \in S : specs[j].item.depends \subseteq IdsOf(S)
    BY DEF Closed
  <2>2. S \subseteq Closed(p)
    BY <2>1 DEF Closed
  <2>3. IdsOf(S) \subseteq IdsOf(Closed(p))
    BY <2>2 DEF IdsOf
  <2> QED
    BY <2>1, <2>3
<1>3. ASSUME NEW S \in SUBSET Survivors(p), \A i \in S : specs[i].item.depends \subseteq IdsOf(S)
      PROVE  S \subseteq Closed(p)
  BY <1>3 DEF Closed
<1> QED
  BY <1>1, <1>2, <1>3

\* The ids of a point, in the order of their first specs, each once.
LEMMA GroupIdsFacts ==
  ASSUME NEW ss \in Seq(HookSpec), NEW p, NEW g, g = GroupIds(ss, p)
  PROVE  /\ g \in Seq(Ids \cup DefaultIds)
         /\ \A n \in DOMAIN g : \E i \in At(ss, p) : ss[i].id = g[n]
         /\ \A i \in At(ss, p) : \E n \in DOMAIN g : g[n] = ss[i].id
         /\ \A m, n \in DOMAIN g : m < n => IdBefore(ss, p, g[m], g[n])
<1>1. PICK A : A = At(ss, p)
  OBVIOUS
<1>2. PICK firsts : firsts = {i \in A : \A j \in A : j < i => ss[j].id # ss[i].id}
  OBVIOUS
<1>3. PICK is, N : is = Ascending(firsts) /\ N = Cardinality(firsts)
  OBVIOUS
<1>4. /\ A \subseteq DOMAIN ss /\ A \subseteq Nat /\ IsFiniteSet(A)
      /\ \A i \in A : ss[i].id \in Ids \cup DefaultIds
  <2>1. A \subseteq DOMAIN ss
    BY <1>1 DEF At
  <2>2. DOMAIN ss = 1..Len(ss) /\ Len(ss) \in Nat /\ IsFiniteSet(1..Len(ss))
    BY FS_Interval
  <2>3. IsFiniteSet(A)
    BY <2>1, <2>2, FS_Subset
  <2>4. \A i \in DOMAIN ss : ss[i].id \in Ids \cup DefaultIds
    <3>1. \A x \in HookSpec : x.id \in Ids \cup DefaultIds
      BY DEF HookSpec
    <3> QED
      BY <3>1
  <2> QED
    BY <2>1, <2>2, <2>3, <2>4
<1>5. firsts \subseteq A /\ IsFiniteSet(firsts) /\ firsts \in SUBSET Nat
  <2>1. firsts \subseteq A
    BY <1>2
  <2> QED
    BY <2>1, <1>4, FS_Subset
<1>6. /\ N \in Nat /\ is \in [1..N -> firsts] /\ DOMAIN is = 1..N
      /\ \A x \in firsts : \E k \in 1..N : is[k] = x
      /\ \A j, k \in 1..N : j < k => is[j] < is[k]
  BY <1>3, <1>5, AscendingFacts
<1>7. g = [n \in 1..N |-> ss[is[n]].id]
  BY <1>1, <1>2, <1>3, <1>6 DEF GroupIds
<1>8. \A n \in 1..N : is[n] \in firsts /\ is[n] \in A /\ g[n] = ss[is[n]].id
  BY <1>5, <1>6, <1>7
<1>9. g \in [1..N -> Ids \cup DefaultIds] /\ DOMAIN g = 1..N
  BY <1>4, <1>7, <1>8
<1>10. g \in Seq(Ids \cup DefaultIds)
  BY <1>6, <1>9, FunctionIsSeq
<1>11. ASSUME NEW i \in A PROVE \E n \in 1..N : g[n] = ss[i].id
  <2>1. PICK S : S = {j \in A : ss[j].id = ss[i].id}
    OBVIOUS
  <2>2. i \in S /\ S \subseteq Nat /\ S \subseteq A
    BY <1>4, <2>1
  <2>3. IsFiniteSet(S)
    BY <1>4, <2>2, FS_Subset
  <2>4. PICK x \in S : \A y \in S : x <= y
    BY <2>2, <2>3, LeastNumber
  <2>5. \A j \in A : j < x => ss[j].id # ss[x].id
    <3> SUFFICES ASSUME NEW j \in A, j < x, ss[j].id = ss[x].id PROVE FALSE
      OBVIOUS
    <3>1. j \in S
      BY <2>1
    <3>2. x <= j /\ x \in Nat /\ j \in Nat
      BY <2>2, <2>4, <3>1
    <3> QED
      BY <3>2
  <2>6. x \in firsts
    BY <1>2, <2>2, <2>5
  <2>7. PICK n \in 1..N : is[n] = x
    BY <1>6, <2>6
  <2> QED
    BY <1>8, <2>1, <2>7
<1>12. ASSUME NEW m \in 1..N, NEW n \in 1..N, m < n PROVE IdBefore(ss, p, g[m], g[n])
  <2>1. is[m] < is[n]
    BY <1>6, <1>12
  <2>2. \A l \in A : ss[l].id = g[n] => is[m] < l
    <3> SUFFICES ASSUME NEW l \in A, ss[l].id = g[n] PROVE is[m] < l
      OBVIOUS
    <3>1. ~(l < is[n])
      BY <1>2, <1>8
    <3>2. l \in Nat /\ is[n] \in Nat /\ is[m] \in Nat
      BY <1>4, <1>5, <1>8
    <3> QED
      BY <2>1, <3>1, <3>2
  <2>3. is[m] \in A /\ ss[is[m]].id = g[m]
    BY <1>8
  <2> QED
    BY <1>1, <2>2, <2>3 DEF IdBefore
<1>13. \A n \in 1..N : \E i \in At(ss, p) : ss[i].id = g[n]
  BY <1>1, <1>8
<1> QED
  BY <1>1, <1>9, <1>10, <1>11, <1>12, <1>13

-----------------------------------------------------------------------------
(* Type correctness.                                                         *)

LEMMA ResolveInitially == Init => ResolveTypeOK
<1> SUFFICES ASSUME Init PROVE ResolveTypeOK
  OBVIOUS
<1>1. /\ at = "order" /\ specs = << >> /\ point = "head" /\ todo = << >> /\ selected = << >>
      /\ stack = [p \in Points |-> << >>] /\ dropped = {} /\ left = << >> /\ woven = << >>
  BY DEF Init
<1>2. NothingYet
  BY <1>1 DEF NothingYet
<1>3. \A T : << >> \in Seq(T)
  OBVIOUS
<1> QED
  BY <1>1, <1>2, <1>3 DEF ResolveTypeOK

\* The items of the mixins are listed with their types.
LEMMA ItemsType ==
  ASSUME OrderInv, NEW kind
  PROVE  /\ Items(kind) \in Seq([m : Nat, i : Nat, key : Mixins, item : Item])
         /\ Len(Items(kind)) \in Nat
<1>1. prog \in Programs /\ order \in Seq(Mixins)
  BY DEF OrderInv, OrderTypeOK
<1>2. prog.items \in [Mixins -> Seq(Item)]
  BY <1>1, ProgramFacts
<1>3. weaveOrder \in Seq(Mixins)
  BY <1>1 DEF weaveOrder, Reverse
<1>4. PICK M : M = Len(weaveOrder)
  OBVIOUS
<1>5. M \in Nat /\ DOMAIN weaveOrder = 1..M /\ \A m \in 1..M : weaveOrder[m] \in Mixins
  BY <1>3, <1>4
<1> DEFINE Of(m) == {[m |-> m, i |-> i, key |-> weaveOrder[m], item |-> prog.items[weaveOrder[m]][i]] :
                       i \in DOMAIN prog.items[weaveOrder[m]]}
           Rec == [m : Nat, i : Nat, key : Mixins, item : Item]
<1>6. ASSUME NEW m \in 1..M PROVE IsFiniteSet(Of(m)) /\ Of(m) \subseteq Rec
  <2>1. PICK t : t = prog.items[weaveOrder[m]]
    OBVIOUS
  <2>2. t \in Seq(Item) /\ Len(t) \in Nat /\ DOMAIN t = 1..Len(t)
    BY <1>2, <1>5, <2>1
  <2>3. IsFiniteSet(DOMAIN t)
    BY <2>2, FS_Interval
  <2> DEFINE R(i) == [m |-> m, i |-> i, key |-> weaveOrder[m], item |-> t[i]]
  <2>4. IsFiniteSet({R(i) : i \in DOMAIN t})
    <3> DEFINE g == [i \in DOMAIN t |-> R(i)]
    <3>1. g \in Surjection(DOMAIN t, {R(i) : i \in DOMAIN t})
      <4> HIDE DEF R
      <4> QED
        BY DEF Surjection
    <3> HIDE DEF g, R
    <3> QED
      BY <2>3, <3>1, FS_Surjection
  <2>5. Of(m) = {R(i) : i \in DOMAIN t}
    BY <2>1
  <2>6. \A i \in DOMAIN t : R(i) \in Rec
    BY <2>2, <1>5
  <2> QED
    BY <2>4, <2>5, <2>6
<1>7. Written = UNION {Of(m) : m \in 1..M}
  BY <1>5 DEF Written
<1> HIDE DEF Of
<1>8. IsFiniteSet({Of(m) : m \in 1..M})
  <2>1. IsFiniteSet(1..M)
    BY <1>5, FS_Interval
  <2> DEFINE g == [m \in 1..M |-> Of(m)]
  <2>2. g \in Surjection(1..M, {Of(m) : m \in 1..M})
    BY DEF Surjection
  <2> HIDE DEF g
  <2> QED
    BY <2>1, <2>2, FS_Surjection
<1>9. IsFiniteSet(Written) /\ Written \subseteq Rec
  <2>1. \A T \in {Of(m) : m \in 1..M} : IsFiniteSet(T)
    BY <1>6
  <2>2. IsFiniteSet(UNION {Of(m) : m \in 1..M})
    BY <1>8, <2>1, FS_UNION
  <2>3. Written \subseteq Rec
    BY <1>6, <1>7
  <2> QED
    BY <1>7, <2>2, <2>3
<1>10. PICK xs : xs = {x \in Written : x.item.kind = kind}
  OBVIOUS
<1>11. PICK R : R = {r \in xs \X xs : r[1].m < r[2].m \/ (r[1].m = r[2].m /\ r[1].i < r[2].i)}
  OBVIOUS
<1>12. Items(kind) = InOrder(xs, R)
  BY <1>10, <1>11 DEF Items
<1>13. xs \subseteq Rec /\ xs \subseteq Written /\ IsFiniteSet(xs)
  <2>1. xs \subseteq Rec /\ xs \subseteq Written
    BY <1>9, <1>10
  <2> QED
    BY <1>9, <2>1, FS_Subset
<1>14. \A x, y \in xs : x.m = y.m /\ x.i = y.i => x = y
  <2>1. \A x \in xs : \E m \in 1..M : \E i \in DOMAIN prog.items[weaveOrder[m]] :
          x = [m |-> m, i |-> i, key |-> weaveOrder[m], item |-> prog.items[weaveOrder[m]][i]]
    BY <1>7, <1>13 DEF Of
  <2>2. \A x \in xs : x = [m |-> x.m, i |-> x.i, key |-> weaveOrder[x.m],
                           item |-> prog.items[weaveOrder[x.m]][x.i]]
    BY <2>1
  <2> QED
    BY <2>2
<1>15. \A x \in xs : x.m \in Nat /\ x.i \in Nat
  BY <1>13
<1>16. \A x, y \in xs : <<x, y>> \in R <=> x.m < y.m \/ (x.m = y.m /\ x.i < y.i)
  BY <1>11
<1>17. StrictOrder(xs, R)
  BY <1>14, <1>15, <1>16 DEF StrictOrder
<1>18. Cardinality(xs) \in Nat /\ Items(kind) \in [1..Cardinality(xs) -> xs]
  BY <1>12, <1>13, <1>17, InOrderFacts
<1>19. Items(kind) \in [1..Cardinality(xs) -> Rec]
  <2> HIDE DEF Rec
  <2> QED
    BY <1>13, <1>18
<1>20. Items(kind) \in Seq(Rec) /\ Len(Items(kind)) = Cardinality(xs)
  <2> HIDE DEF Rec
  <2> QED
    BY <1>18, <1>19, FunctionIsSeq
<1> QED
  BY <1>18, <1>20

\* _apply_mixins collects specs.
LEMMA CollectedType == OrderInv => Collected \in Seq(HookSpec)
<1> SUFFICES ASSUME OrderInv PROVE Collected \in Seq(HookSpec)
  OBVIOUS
<1> DEFINE Rec == [m : Nat, i : Nat, key : Mixins, item : Item]
<1>1. PICK a, h : a = Items("around") /\ h = Items("hook")
  OBVIOUS
<1>2. a \in Seq(Rec) /\ h \in Seq(Rec) /\ Len(a) \in Nat /\ Len(h) \in Nat
  BY <1>1, ItemsType
<1>3. ASSUME NEW x \in Rec, NEW n \in Nat PROVE SpecOf(x, n) \in HookSpec
  <2>1. x.key \in Mixins /\ x.item \in Item /\ x.item.point \in Points /\ x.item.id \in Ids \cup {None}
    BY DEF Item
  <2>2. DefaultId(x, n) \in DefaultIds
    BY <2>1 DEF DefaultId, DefaultIds
  <2> QED
    BY <2>1, <2>2 DEF SpecOf, HookSpec
<1> HIDE DEF Rec
<1> DEFINE s == [n \in 1..Len(a) |-> SpecOf(a[n], n)]
           t == [n \in 1..Len(h) |-> SpecOf(h[n], Len(a) + n - 1)]
<1>4. s \in Seq(HookSpec)
  <2>1. \A n \in 1..Len(a) : SpecOf(a[n], n) \in HookSpec
    BY <1>2, <1>3
  <2> QED
    BY <1>2, <2>1
<1>5. t \in Seq(HookSpec)
  <2>1. \A n \in 1..Len(h) : h[n] \in Rec /\ Len(a) + n - 1 \in Nat
    BY <1>2
  <2>2. \A n \in 1..Len(h) : SpecOf(h[n], Len(a) + n - 1) \in HookSpec
    BY <2>1, <1>3
  <2> QED
    BY <1>2, <2>2
<1>6. Collected = s \o t
  <2>1. AroundSpecs = s
    BY <1>1 DEF AroundSpecs
  <2>2. Len(s) = Len(a)
    BY <1>2
  <2>3. HookSpecs(Len(a)) = t
    BY <1>1 DEF HookSpecs
  <2> QED
    BY <2>1, <2>2, <2>3 DEF Collected
<1> HIDE DEF s, t
<1> QED
  BY <1>4, <1>5, <1>6

-----------------------------------------------------------------------------
(* Sequences of specs.                                                       *)

\* What StackOrder says of one point and its call stack.
StackOrderOf(p, s) ==
  \A n \in DOMAIN s :
    LET before == {s[m] : m \in 1..n - 1}
        eligible == {i \in Closed(p) \ before : specs[i].item.depends \subseteq IdsOf(before)}
    IN s[n] \in eligible /\ \A i \in eligible \ {s[n]} : Ahead(s[n], i)

LEMMA StackOrderByPoint == StackOrder <=> \A p \in Points : StackOrderOf(p, stack[p])
BY DEF StackOrder, StackOrderOf

\* A call stack holds specs of the closed set, each once.
LEMMA StackOrderFacts ==
  ASSUME NEW p, NEW T, NEW s \in Seq(T), StackOrderOf(p, s)
  PROVE  /\ Range(s) \subseteq Closed(p)
         /\ \A m, n \in DOMAIN s : s[m] = s[n] => m = n
<1>1. \A n \in DOMAIN s : s[n] \in Closed(p) /\ s[n] \notin {s[m] : m \in 1..n - 1}
  BY DEF StackOrderOf
<1>2. ASSUME NEW m \in DOMAIN s, NEW n \in DOMAIN s, m < n PROVE s[m] # s[n]
  <2>1. m \in 1..n - 1
    BY <1>2
  <2> QED
    BY <1>1, <2>1
<1>3. \A m, n \in DOMAIN s : m = n \/ m < n \/ n < m
  OBVIOUS
<1> QED
  BY <1>1, <1>2, <1>3 DEF Range

LEMMA IdBeforeIrreflexive ==
  ASSUME NEW ss \in Seq(HookSpec), NEW p, NEW d
  PROVE  ~IdBefore(ss, p, d, d)
<1>1. \A k \in At(ss, p) : k \in Nat
  BY DEF At
<1> QED
  BY <1>1 DEF IdBefore

\* In the order of their ids the specs are there once.
LEMMA InIdOrderFacts ==
  ASSUME specs \in Seq(HookSpec), NEW p, NEW T, NEW q \in Seq(T), InIdOrder(p, q)
  PROVE  \A m, n \in DOMAIN q : specs[q[m]].id = specs[q[n]].id => m = n
<1>1. \A m, n \in DOMAIN q : m = n \/ m < n \/ n < m
  OBVIOUS
<1>2. \A d : ~IdBefore(specs, p, d, d)
  BY IdBeforeIrreflexive
<1> QED
  BY <1>1, <1>2 DEF InIdOrder

\* The soonest of some specs that are in is one of them and sooner than the
\* others.
LEMMA SoonestFacts ==
  ASSUME specs \in Seq(HookSpec), selected \in Seq(DOMAIN specs), NEW p, InIdOrder(p, selected),
         NEW S, S \subseteq Range(selected), S # {}
  PROVE  Soonest(S) \in S /\ \A j \in S : Soonest(S) = j \/ Sooner(Soonest(S), j)
<1> DEFINE R == {r \in S \X S : Sooner(r[1], r[2])}
<1>1. \A m, n \in DOMAIN selected : selected[m] = selected[n] => m = n
  BY InIdOrderFacts
<1>2. S \subseteq DOMAIN specs /\ \A i \in S : specs[i].item.priority \in Int
  BY SpecFacts DEF Range
<1>3. IsFiniteSet(S)
  BY <1>2, SpecFacts, FS_Subset
<1>4. \A x, y \in S : <<x, y>> \in R <=> Sooner(x, y)
  OBVIOUS
<1> HIDE DEF R
<1>5. \A i \in S : \E m \in DOMAIN selected : selected[m] = i
  BY DEF Range
<1>6. DOMAIN selected \subseteq Nat
  OBVIOUS
<1>7. \A i \in S : ~Sooner(i, i)
  BY <1>1, <1>2, <1>6 DEF Sooner
<1>8. \A i, j \in S : i # j => Sooner(i, j) \/ Sooner(j, i)
  <2> SUFFICES ASSUME NEW i \in S, NEW j \in S, i # j PROVE Sooner(i, j) \/ Sooner(j, i)
    OBVIOUS
  <2>1. PICK m \in DOMAIN selected, n \in DOMAIN selected : selected[m] = i /\ selected[n] = j
    BY <1>5
  <2>2. m < n \/ n < m
    BY <2>1, <1>6
  <2> QED
    BY <1>2, <2>1, <2>2 DEF Sooner
<1>9. \A i, j, k \in S : Sooner(i, j) /\ Sooner(j, k) => Sooner(i, k)
  <2> SUFFICES ASSUME NEW i \in S, NEW j \in S, NEW k \in S, Sooner(i, j), Sooner(j, k)
               PROVE  Sooner(i, k)
    OBVIOUS
  <2>1. CASE specs[i].item.priority = specs[j].item.priority /\ specs[j].item.priority = specs[k].item.priority
    <3>1. PICK a \in DOMAIN selected, b \in DOMAIN selected : a < b /\ selected[a] = i /\ selected[b] = j
      BY <1>2, <2>1 DEF Sooner
    <3>2. PICK c \in DOMAIN selected, d \in DOMAIN selected : c < d /\ selected[c] = j /\ selected[d] = k
      BY <1>2, <2>1 DEF Sooner
    <3>3. b = c
      BY <1>1, <3>1, <3>2
    <3>4. a < d
      BY <1>6, <3>1, <3>2, <3>3
    <3> QED
      BY <2>1, <3>1, <3>2, <3>4 DEF Sooner
  <2>2. CASE specs[i].item.priority > specs[j].item.priority \/ specs[j].item.priority > specs[k].item.priority
    <3>1. /\ specs[i].item.priority >= specs[j].item.priority
          /\ specs[j].item.priority >= specs[k].item.priority
      BY <1>2 DEF Sooner
    <3>2. specs[i].item.priority > specs[k].item.priority
      BY <1>2, <2>2, <3>1
    <3> QED
      BY <3>2 DEF Sooner
  <2> QED
    BY <1>2, <2>1, <2>2 DEF Sooner
<1>10. StrictOrder(S, R)
  BY <1>4, <1>7, <1>8, <1>9 DEF StrictOrder
<1>11. \E x \in S : \A y \in S : x = y \/ <<x, y>> \in R
  BY <1>3, <1>10, LeastElement
<1>12. \E x \in S : \A y \in S : x = y \/ Sooner(x, y)
  BY <1>4, <1>11
<1> QED
  BY <1>12 DEF Soonest

\* Which of two is sooner is what the order of the specs says.
LEMMA SoonerIsAhead ==
  ASSUME specs \in Seq(HookSpec), NEW p, InIdOrder(p, selected), NEW i, NEW j,
         Range(selected) \subseteq Survivors(p), i \in Range(selected), j \in Range(selected), Sooner(i, j)
  PROVE  Ahead(i, j)
<1>1. \A k \in Range(selected) : k \in DOMAIN specs /\ specs[k].item.point = p
  BY DEF Survivors
<1>2. CASE specs[i].item.priority > specs[j].item.priority
  BY <1>2 DEF Ahead
<1>3. CASE /\ specs[i].item.priority = specs[j].item.priority
           /\ \E m, n \in DOMAIN selected : m < n /\ selected[m] = i /\ selected[n] = j
  <2>1. IdBefore(specs, p, specs[i].id, specs[j].id)
    BY <1>3 DEF InIdOrder
  <2>2. PICK k \in At(specs, p) : /\ specs[k].id = specs[i].id
                                  /\ \A l \in At(specs, p) : specs[l].id = specs[j].id => k < l
    BY <2>1 DEF IdBefore
  <2>3. k \in DOMAIN specs /\ SameHook(k, i)
    BY <1>1, <2>2 DEF At, SameHook
  <2>4. \A l \in DOMAIN specs : SameHook(l, j) => k < l
    BY <1>1, <2>2 DEF At, SameHook
  <2> QED
    BY <1>3, <2>3, <2>4 DEF Ahead
<1> QED
  BY <1>2, <1>3 DEF Sooner

\* As long as the specs are the same, so is what is said of them alone.
LEMMA SameSpecs ==
  ASSUME specs' = specs
  PROVE  /\ \A p : Survivors(p)' = Survivors(p) /\ Closed(p)' = Closed(p)
         /\ \A p : (Clashes(p)' <=> Clashes(p)) /\ (StrictLoses(p)' <=> StrictLoses(p))
         /\ \A p : CircularAt(p)' <=> CircularAt(p)
         /\ \A i : Rivals(i)' = Rivals(i)
         /\ \A S : IdsOf(S)' = IdsOf(S)
         /\ \A i, j : (Precedes(i, j)' <=> Precedes(i, j)) /\ (Ahead(i, j)' <=> Ahead(i, j))
         /\ \A p, s : StackOrderOf(p, s)' <=> StackOrderOf(p, s)
         /\ \A p, q : InIdOrder(p, q)' <=> InIdOrder(p, q)
<1>1. \A i : Rivals(i)' = Rivals(i)
  BY DEF Rivals, SameHook
<1>2. \A S : IdsOf(S)' = IdsOf(S)
  BY DEF IdsOf
<1>3. \A i, j : (Precedes(i, j)' <=> Precedes(i, j)) /\ (Ahead(i, j)' <=> Ahead(i, j))
  BY DEF Precedes, Ahead, SameHook
<1>4. \A p : Survivors(p)' = Survivors(p)
  BY <1>1, <1>3 DEF Survivors
<1>5. \A p : Closed(p)' = Closed(p)
  BY <1>2, <1>4 DEF Closed
<1>6. \A p : (Clashes(p)' <=> Clashes(p)) /\ (StrictLoses(p)' <=> StrictLoses(p))
  BY <1>1, <1>4, <1>5 DEF Clashes, StrictLoses
<1>7. \A p : CircularAt(p)' <=> CircularAt(p)
  BY <1>2, <1>5 DEF CircularAt, Circular
<1>8. \A p, s : StackOrderOf(p, s)' <=> StackOrderOf(p, s)
  BY <1>2, <1>3, <1>5 DEF StackOrderOf
<1>9. \A p, q : InIdOrder(p, q)' <=> InIdOrder(p, q)
  BY DEF InIdOrder
<1> QED
  BY <1>1, <1>2, <1>3, <1>4, <1>5, <1>6, <1>7, <1>8, <1>9

-----------------------------------------------------------------------------
(* Steps that leave the resolver's variables alone.                          *)

\* What is said of the call stacks only changes with them or the specs.
LEMMA SameStack ==
  ASSUME specs' = specs, stack' = stack
  PROVE  (\A p \in Points : Resolved(p)' <=> Resolved(p)) /\ (StackOrder' <=> StackOrder)
<1>1. \A p \in Points : Resolved(p)' <=> Resolved(p)
  BY SameSpecs DEF Resolved
<1>2. \A p : StackOrderOf(p, stack[p])' <=> StackOrderOf(p, stack[p])
  BY SameSpecs DEF StackOrderOf, IdsOf, Ahead, SameHook
<1>3. StackOrder' <=> StackOrder
  BY <1>2 DEF StackOrder, StackOrderOf
<1> QED
  BY <1>1, <1>3

\* A step that leaves the specs and the resolver alone changes nothing it says.
LEMMA SameResolve ==
  ASSUME specs' = specs, UNCHANGED resolveVars
  PROVE  /\ \A p : Selecting(p)' <=> Selecting(p)
         /\ \A p : Stacking(p)' <=> Stacking(p)
         /\ \A p \in Points : Resolved(p)' <=> Resolved(p)
         /\ StackOrder' <=> StackOrder
<1>1. /\ point' = point /\ todo' = todo /\ selected' = selected /\ blocked' = blocked
      /\ stack' = stack
  BY DEF resolveVars
<1>2. /\ \A i : Processed(i)' <=> Processed(i)
      /\ \A p : At(specs, p)' = At(specs, p)
      /\ \A p, d, e : IdBefore(specs, p, d, e)' <=> IdBefore(specs, p, d, e)
  BY <1>1 DEF Processed, At, IdBefore
<1>3. \A p : InIdOrder(p, selected)' <=> InIdOrder(p, selected)
  BY <1>1 DEF InIdOrder, IdBefore, At
<1>4. \A p : Selecting(p)' <=> Selecting(p)
  BY <1>1, <1>2, <1>3, SameSpecs DEF Selecting
<1>5. \A p : Stacking(p)' <=> Stacking(p)
  <2>1. \A p : IdsOf(Range(stack[p]))' = IdsOf(Range(stack[p]))
    BY <1>1 DEF IdsOf
  <2> QED
    BY <1>1, <1>3, <2>1, SameSpecs DEF Stacking
<1>6. (\A p \in Points : Resolved(p)' <=> Resolved(p)) /\ (StackOrder' <=> StackOrder)
  BY <1>1, SameStack
<1> QED
  BY <1>4, <1>5, <1>6

\* Nothing is resolved before the specs are collected.
LEMMA EarlyKeepsResolve ==
  ResolveTypeOK /\ ResolveInv /\ (PopMixin \/ OrderDone \/ ChooseAdd) => ResolveTypeOK' /\ ResolveInv'
<1> SUFFICES ASSUME ResolveTypeOK, ResolveInv, PopMixin \/ OrderDone \/ ChooseAdd
             PROVE  ResolveTypeOK' /\ ResolveInv'
  OBVIOUS
<1>1. /\ at \in {"order", "add"} /\ at' \in {"order", "add", "collect", "error"}
      /\ why' \in {why, "cyclic rules", "ambiguous"} /\ (at' # "error" => why' = why)
      /\ UNCHANGED resolveVars /\ UNCHANGED weaveVars /\ UNCHANGED <<specs, dropped>>
  <2>1. CASE PopMixin
    BY <2>1 DEF PopMixin
  <2>2. CASE OrderDone
    BY <2>2 DEF OrderDone, Goto, Raise
  <2>3. CASE ChooseAdd
    BY <2>3 DEF ChooseAdd, Goto, Raise
  <2> QED
    BY <2>1, <2>2, <2>3
<1>2. /\ specs' = specs /\ dropped' = dropped /\ point' = point /\ todo' = todo
      /\ selected' = selected /\ blocked' = blocked /\ stack' = stack /\ left' = left /\ woven' = woven
  BY <1>1 DEF resolveVars, weaveVars
<1>3. NothingYet'
  <2>1. NothingYet
    BY <1>1 DEF ResolveTypeOK
  <2> QED
    BY <1>2, <2>1 DEF NothingYet
<1>4. ResolveTypeOK'
  BY <1>1, <1>2, <1>3 DEF ResolveTypeOK
<1>5. StackOrder'
  BY <1>1, SameResolve DEF ResolveInv
<1>6. why = None
  BY <1>1 DEF ResolveInv
<1>7. None \notin Errors
  BY NoneAssumption
<1>8. ResolveInv'
  BY <1>1, <1>5, <1>6, <1>7 DEF ResolveInv, Errors
<1> QED
  BY <1>4, <1>8

-----------------------------------------------------------------------------
(* Collecting the specs.                                                     *)

\* Before any group of the point q has been looked at.
LEMMA FreshSelecting ==
  ASSUME NEW ss, ss \in Seq(HookSpec), NEW q, specs' = ss, todo' = GroupIds(ss, q),
         selected' = << >>, stack'[q] = << >>
  PROVE  Selecting(q)' /\ todo' \in Seq(Ids \cup DefaultIds)
<1>1. PICK g : g = GroupIds(ss, q)
  OBVIOUS
<1>2. /\ g \in Seq(Ids \cup DefaultIds)
      /\ \A n \in DOMAIN g : \E i \in At(ss, q) : ss[i].id = g[n]
      /\ \A i \in At(ss, q) : \E n \in DOMAIN g : g[n] = ss[i].id
      /\ \A m, n \in DOMAIN g : m < n => IdBefore(ss, q, g[m], g[n])
  <2>1. g \in Seq(Ids \cup DefaultIds)
    BY <1>1, GroupIdsFacts
  <2>2. \A n \in DOMAIN g : \E i \in At(ss, q) : ss[i].id = g[n]
    BY <1>1, GroupIdsFacts
  <2>3. \A i \in At(ss, q) : \E n \in DOMAIN g : g[n] = ss[i].id
    BY <1>1, GroupIdsFacts
  <2>4. \A m, n \in DOMAIN g : m < n => IdBefore(ss, q, g[m], g[n])
    BY <1>1, GroupIdsFacts
  <2> QED
    BY <2>1, <2>2, <2>3, <2>4
<1>3. At(specs, q)' = At(ss, q)
  BY DEF At
<1>4. \A i \in At(ss, q) : ~Processed(i)'
  BY <1>1, <1>2 DEF Processed
<1>5. \A i \in Survivors(q)' : i \in At(ss, q)
  BY DEF Survivors, At
<1>6. DOMAIN selected' = {}
  OBVIOUS
<1>7. InIdOrder(q, selected)'
  BY <1>6 DEF InIdOrder
<1>8. \A n \in DOMAIN todo' : \E i \in At(specs, q)' : specs'[i].id = todo'[n]
  BY <1>1, <1>2, <1>3
<1>9. \A m, n \in DOMAIN todo' : m < n => IdBefore(specs, q, todo[m], todo[n])'
  <2>1. \A m, n \in DOMAIN g : IdBefore(specs, q, todo[m], todo[n])' <=> IdBefore(ss, q, g[m], g[n])
    BY <1>1 DEF IdBefore, At
  <2> QED
    BY <1>1, <1>2, <2>1
<1>10. Selecting(q)'
  BY <1>3, <1>4, <1>5, <1>6, <1>7, <1>8, <1>9 DEF Selecting
<1> QED
  BY <1>1, <1>2, <1>10

\* The first point starts with all its groups to look at.
LEMMA CollectKeepsResolve ==
  OrderInv /\ ResolveTypeOK /\ ResolveInv /\ Collect => ResolveTypeOK' /\ ResolveInv'
<1> SUFFICES ASSUME OrderInv, ResolveTypeOK, ResolveInv, Collect
             PROVE  ResolveTypeOK' /\ ResolveInv'
  OBVIOUS
<1>1. PICK ss : ss = Collected
  OBVIOUS
<1>2. PICK g : g = GroupIds(ss, "head")
  OBVIOUS
<1>3. NothingYet /\ why = None
  BY DEF Collect, ResolveTypeOK, ResolveInv
<1>4. /\ at' = "select" /\ why' = None /\ specs' = ss /\ todo' = g /\ point' = "head"
      /\ selected' = << >> /\ stack' = stack /\ dropped' = {} /\ left' = << >> /\ woven' = << >>
  BY <1>1, <1>2, <1>3 DEF Collect, Goto, NothingYet, weaveVars
<1>5. ss \in Seq(HookSpec)
  BY <1>1, CollectedType
<1>7. stack' = [p \in Points |-> << >>] /\ \A p \in Points : stack'[p] = << >>
  <2>1. \A p \in Points : stack[p] = << >>
    BY <1>3 DEF NothingYet
  <2>2. stack = [p \in Points |-> stack[p]]
    BY DEF ResolveTypeOK
  <2> QED
    BY <1>4, <2>1, <2>2
<1>8. Selecting("head")' /\ todo' \in Seq(Ids \cup DefaultIds)
  <2>1. "head" \in Points
    BY DEF Points
  <2> QED
    BY <1>2, <1>4, <1>5, <1>7, <2>1, FreshSelecting
<1>13. ResolveTypeOK'
  BY <1>4, <1>5, <1>7, <1>8 DEF ResolveTypeOK
<1>14. StackOrder'
  BY <1>7 DEF StackOrder
<1>15. None \notin Errors
  BY NoneAssumption
<1>16. \A p \in Points : ~(PointNo(p) < PointNo("head"))
  BY DEF Points, PointNo
<1>17. ResolveInv'
  BY <1>4, <1>7, <1>8, <1>14, <1>15, <1>16 DEF ResolveInv, Errors, PointNo
<1> QED
  BY <1>13, <1>17

-----------------------------------------------------------------------------
(* Looking at the groups.                                                    *)

\* The group of the next id, and what is left to look at after it.
LEMMA GroupFacts ==
  ASSUME ResolveTypeOK, Selecting(point), todo # << >>
  PROVE  /\ Group # {} /\ Group \subseteq At(specs, point) /\ At(specs, point) \subseteq DOMAIN specs
         /\ \A i \in Group : Group = Rivals(i) \cup {i} /\ specs[i].id = Head(todo)
         /\ \A i \in Group : i \notin Rivals(i)
         /\ \A m \in DOMAIN selected : IdBefore(specs, point, specs[selected[m]].id, Head(todo))
         /\ DOMAIN Tail(todo) = 1..Len(todo) - 1
         /\ \A n \in DOMAIN Tail(todo) :
              /\ Tail(todo)[n] = todo[n + 1] /\ n + 1 \in DOMAIN todo
              /\ IdBefore(specs, point, Head(todo), Tail(todo)[n])
         /\ \A i : (\A n \in DOMAIN Tail(todo) : Tail(todo)[n] # specs[i].id) <=>
                     Processed(i) \/ specs[i].id = Head(todo)
<1>1. specs \in Seq(HookSpec) /\ todo \in Seq(Ids \cup DefaultIds) /\ Len(todo) \in Nat
  BY DEF ResolveTypeOK
<1>2. 1 \in DOMAIN todo /\ todo[1] = Head(todo) /\ DOMAIN todo = 1..Len(todo)
  BY <1>1
<1>3. Group = {i \in At(specs, point) : specs[i].id = Head(todo)}
  BY DEF Group, At
<1>4. Group # {} /\ Group \subseteq At(specs, point) /\ At(specs, point) \subseteq DOMAIN specs
  <2>1. \E i \in At(specs, point) : specs[i].id = todo[1]
    BY <1>2 DEF Selecting
  <2>2. At(specs, point) \subseteq DOMAIN specs
    BY DEF At
  <2> QED
    BY <1>2, <1>3, <2>1, <2>2
<1>5. \A i \in Group : Group = Rivals(i) \cup {i} /\ specs[i].id = Head(todo) /\ i \notin Rivals(i)
  BY DEF Group, Rivals, SameHook
<1>6. \A m \in DOMAIN selected : IdBefore(specs, point, specs[selected[m]].id, Head(todo))
  BY <1>2 DEF Selecting
<1>7. DOMAIN Tail(todo) = 1..Len(todo) - 1
  BY <1>1
<1>8. ASSUME NEW n \in DOMAIN Tail(todo)
      PROVE  /\ Tail(todo)[n] = todo[n + 1] /\ n + 1 \in DOMAIN todo
             /\ IdBefore(specs, point, Head(todo), Tail(todo)[n])
  <2>1. Tail(todo)[n] = todo[n + 1] /\ n + 1 \in DOMAIN todo /\ 1 < n + 1
    BY <1>1
  <2>2. IdBefore(specs, point, todo[1], todo[n + 1])
    BY <1>2, <2>1 DEF Selecting
  <2> QED
    BY <1>2, <2>1, <2>2
<1>9. ASSUME NEW i
      PROVE  (\A n \in DOMAIN Tail(todo) : Tail(todo)[n] # specs[i].id) <=>
               Processed(i) \/ specs[i].id = Head(todo)
  <2>1. ASSUME Processed(i), NEW n \in DOMAIN Tail(todo) PROVE Tail(todo)[n] # specs[i].id
    BY <1>8, <2>1 DEF Processed
  <2>2. ASSUME specs[i].id = Head(todo), NEW n \in DOMAIN Tail(todo) PROVE Tail(todo)[n] # specs[i].id
    BY <1>1, <1>8, <2>2, IdBeforeIrreflexive
  <2>3. ASSUME \A n \in DOMAIN Tail(todo) : Tail(todo)[n] # specs[i].id, specs[i].id # Head(todo)
        PROVE  Processed(i)
    <3> SUFFICES ASSUME NEW n \in DOMAIN todo, todo[n] = specs[i].id PROVE FALSE
      BY DEF Processed
    <3>1. n # 1
      BY <1>2, <2>3
    <3>2. n - 1 \in DOMAIN Tail(todo) /\ Tail(todo)[n - 1] = todo[n]
      BY <1>1, <1>2, <1>7, <3>1
    <3> QED
      BY <2>3, <3>2
  <2> QED
    BY <2>1, <2>2, <2>3
<1> QED
  BY <1>4, <1>5, <1>6, <1>7, <1>8, <1>9

\* What an appended sequence has in it.
LEMMA AppendRange ==
  ASSUME NEW T, NEW s \in Seq(T), NEW e \in T
  PROVE  Range(Append(s, e)) = Range(s) \cup {e}
<1>1. /\ DOMAIN Append(s, e) = 1..Len(s) + 1 /\ DOMAIN s = 1..Len(s) /\ Len(s) \in Nat
      /\ \A n \in 1..Len(s) : Append(s, e)[n] = s[n]
      /\ Append(s, e)[Len(s) + 1] = e
  OBVIOUS
<1>2. \A n \in 1..Len(s) + 1 : n \in 1..Len(s) \/ n = Len(s) + 1
  BY <1>1
<1>3. 1..Len(s) \subseteq 1..Len(s) + 1 /\ Len(s) + 1 \in 1..Len(s) + 1
  BY <1>1
<1>4. /\ Range(Append(s, e)) = {Append(s, e)[n] : n \in 1..Len(s) + 1}
      /\ Range(s) = {s[n] : n \in 1..Len(s)}
  BY <1>1 DEF Range
<1> QED
  BY <1>1, <1>2, <1>3, <1>4

\* Selecting goes on when the group leaves its one survivor, or none.
LEMMA GroupKeepsSelecting ==
  ASSUME ResolveTypeOK, Selecting(point), todo # << >>, specs' = specs, point' = point, stack' = stack,
         todo' = Tail(todo),
         \A i \in Group : Rivals(i) # {} => specs[i].item.policy # "error",
         \/ selected' = selected /\ Group \cap Survivors(point) = {}
         \/ \E w \in Group : selected' = Append(selected, w) /\ Group \cap Survivors(point) = {w}
  PROVE  Selecting(point)'
<1>1. /\ specs \in Seq(HookSpec) /\ selected \in Seq(DOMAIN specs) /\ Len(selected) \in Nat
      /\ DOMAIN selected = 1..Len(selected)
  BY DEF ResolveTypeOK
<1>p. PICK p, sq, td : p = point /\ sq = selected' /\ td = todo'
  OBVIOUS
<1>td. td = Tail(todo)
  BY <1>p
<1>sq. \/ sq = selected /\ Group \cap Survivors(p) = {}
       \/ \E w \in Group : sq = Append(selected, w) /\ Group \cap Survivors(p) = {w}
  BY <1>p
<1>2. /\ \A d, e : IdBefore(specs, p, d, e)' <=> IdBefore(specs, p, d, e)
      /\ At(specs, p)' = At(specs, p)
  BY DEF IdBefore, At
<1>3. \A i : Processed(i)' <=> Processed(i) \/ specs[i].id = Head(todo)
  BY GroupFacts DEF Processed
<1>4. \A i : i \in Group <=> i \in At(specs, p) /\ specs[i].id = Head(todo)
  BY <1>p DEF Group, At
<1>5. /\ \A m \in DOMAIN sq : \/ m \in DOMAIN selected /\ sq[m] = selected[m]
                             \/ /\ m = Len(selected) + 1 /\ sq[m] \in Group \cap Survivors(p)
                                /\ Group \cap Survivors(p) = {sq[m]}
      /\ Range(sq) = Range(selected) \cup (Group \cap Survivors(p))
  <2>1. CASE sq = selected /\ Group \cap Survivors(p) = {}
    BY <2>1
  <2>2. CASE \E w \in Group : sq = Append(selected, w) /\ Group \cap Survivors(p) = {w}
    <3>1. PICK w \in Group : sq = Append(selected, w) /\ Group \cap Survivors(p) = {w}
      BY <2>2
    <3>2. w \in DOMAIN specs
      BY <3>1, GroupFacts
    <3>3. /\ DOMAIN sq = 1..Len(selected) + 1 /\ sq[Len(selected) + 1] = w
          /\ \A m \in 1..Len(selected) : sq[m] = selected[m]
          /\ Range(sq) = Range(selected) \cup {w}
      <4>1. Range(sq) = Range(selected) \cup {w}
        BY <1>1, <3>1, <3>2, AppendRange
      <4> QED
        BY <1>1, <3>1, <3>2, <4>1
    <3>4. \A m \in 1..Len(selected) + 1 : m \in 1..Len(selected) \/ m = Len(selected) + 1
      BY <1>1
    <3> QED
      BY <1>1, <3>1, <3>3, <3>4
  <2> QED
    BY <1>sq, <2>1, <2>2
<1>7. \A n \in DOMAIN td : \E i \in At(specs, p) : specs[i].id = td[n]
  BY <1>p, GroupFacts DEF Selecting
<1>8. \A m, n \in DOMAIN td : m < n => IdBefore(specs, p, td[m], td[n])
  <2> SUFFICES ASSUME NEW m \in DOMAIN td, NEW n \in DOMAIN td, m < n
               PROVE  IdBefore(specs, p, td[m], td[n])
    OBVIOUS
  <2>1. /\ td[m] = todo[m + 1] /\ m + 1 \in DOMAIN todo /\ td[n] = todo[n + 1] /\ n + 1 \in DOMAIN todo
        /\ m \in Nat /\ n \in Nat
    BY <1>td, GroupFacts
  <2>2. m + 1 < n + 1
    BY <2>1
  <2>3. \A j, k \in DOMAIN todo : j < k => IdBefore(specs, p, todo[j], todo[k])
    BY <1>p DEF Selecting
  <2> QED
    BY <2>1, <2>2, <2>3
<1>9. \A m \in DOMAIN sq : sq[m] \in Survivors(p) /\ Processed(sq[m])'
  BY <1>3, <1>4, <1>5, <1>p DEF Selecting
<1>10. \A m, n \in DOMAIN sq : m < n => IdBefore(specs, p, specs[sq[m]].id, specs[sq[n]].id)
  <2> SUFFICES ASSUME NEW m \in DOMAIN sq, NEW n \in DOMAIN sq, m < n
               PROVE  IdBefore(specs, p, specs[sq[m]].id, specs[sq[n]].id)
    OBVIOUS
  <2>1. m \in DOMAIN selected /\ sq[m] = selected[m]
    <3>1. \A k \in DOMAIN sq : k \in 1..Len(selected) + 1
      BY <1>1, <1>5
    <3> QED
      BY <1>1, <1>5, <3>1
  <2>2. CASE n \in DOMAIN selected /\ sq[n] = selected[n]
    BY <1>p, <2>1, <2>2 DEF Selecting, InIdOrder
  <2>3. CASE sq[n] \in Group
    BY <1>4, <1>p, <2>1, <2>3, GroupFacts
  <2> QED
    BY <1>5, <2>2, <2>3
<1>11. \A m \in DOMAIN sq, n \in DOMAIN td : IdBefore(specs, p, specs[sq[m]].id, td[n])
  <2> SUFFICES ASSUME NEW m \in DOMAIN sq, NEW n \in DOMAIN td
               PROVE  IdBefore(specs, p, specs[sq[m]].id, td[n])
    OBVIOUS
  <2>1. CASE m \in DOMAIN selected /\ sq[m] = selected[m]
    BY <1>p, <2>1, GroupFacts DEF Selecting
  <2>2. CASE sq[m] \in Group
    BY <1>4, <1>p, <2>2, GroupFacts
  <2> QED
    BY <1>5, <2>1, <2>2
<1>12. \A i \in At(specs, p) : Processed(i)' /\ Rivals(i) # {} => specs[i].item.policy # "error"
  BY <1>3, <1>4, <1>p DEF Selecting
<1>13. \A i \in Survivors(p) : i \in Range(sq) \/ ~Processed(i)'
                              \/ (~specs[i].item.strict /\ i \notin Closed(p))
  <2>1. \A i \in Survivors(p) : i \in At(specs, p)
    BY DEF Survivors, At
  <2> QED
    BY <1>3, <1>4, <1>5, <1>p, <2>1 DEF Selecting
<1>14. stack'[p] = << >>
  BY <1>p DEF Selecting
<1>15. InIdOrder(p, selected)'
  BY <1>2, <1>10, <1>p DEF InIdOrder, IdBefore, At
<1>16. \A m, n \in DOMAIN todo' : m < n => IdBefore(specs, p, todo[m], todo[n])'
  BY <1>8, <1>p DEF IdBefore, At
<1>17. \A m \in DOMAIN selected', n \in DOMAIN todo' : IdBefore(specs, p, specs[selected[m]].id, todo[n])'
  BY <1>11, <1>p DEF IdBefore, At
<1>18. \A m \in DOMAIN selected' : (selected[m] \in Survivors(p) /\ Processed(selected[m]))'
  <2>1. \A m \in DOMAIN sq : \A n \in DOMAIN td : td[n] # specs[sq[m]].id
    BY <1>9, <1>p DEF Processed
  <2> QED
    BY <1>9, <1>p, <2>1, SameSpecs DEF Processed
<1>19. \A n \in DOMAIN todo' : \E i \in At(specs, p)' : specs'[i].id = todo'[n]
  BY <1>2, <1>7, <1>p
<1>20. \A i \in At(specs, p)' : Processed(i)' /\ Rivals(i)' # {} => specs'[i].item.policy # "error"
  BY <1>2, <1>12, SameSpecs
<1>21. \A i \in Survivors(p)' : i \in Range(selected') \/ ~Processed(i)'
                              \/ (~specs'[i].item.strict /\ i \notin Closed(p)')
  BY <1>13, <1>p, SameSpecs
<1>22. (stack[p] = << >>)'
  BY <1>14
<1>23. Selecting(p)'
  BY <1>15, <1>16, <1>17, <1>18, <1>19, <1>20, <1>21, <1>22 DEF Selecting
<1> QED
  BY <1>p, <1>23 DEF Selecting

\* Of several specs with one id none has the error policy and the foremost
\* preferring one survives, or none.
LEMMA GroupSurvivor ==
  ASSUME ResolveTypeOK, Selecting(point), todo # << >>, \A i \in Group : Rivals(i) # {}
  PROVE  /\ Preferring = {} => Group \cap Survivors(point) = {}
         /\ Preferring # {} => /\ Foremost(Preferring) \in Group
                               /\ Group \cap Survivors(point) = {Foremost(Preferring)}
<1>1. /\ Group \subseteq DOMAIN specs /\ specs \in Seq(HookSpec)
      /\ \A i \in Group : specs[i].item.point = point
      /\ \A i \in Group : Group = Rivals(i) \cup {i} /\ i \notin Rivals(i)
  <2>1. \A i \in Group : Group = Rivals(i) \cup {i} /\ i \notin Rivals(i)
    BY GroupFacts
  <2> QED
    BY <2>1 DEF Group, ResolveTypeOK
<1>2. \A i : i \in Preferring <=> i \in Group /\ specs[i].item.policy = "prefer"
  BY DEF Preferring
<1>3. \A i \in Group : i \in Survivors(point) <=>
        i \in Preferring /\ \A j \in Preferring : j = i \/ Precedes(i, j)
  <2> SUFFICES ASSUME NEW i \in Group
               PROVE  i \in Survivors(point) <=>
                        i \in Preferring /\ \A j \in Preferring : j = i \/ Precedes(i, j)
    OBVIOUS
  <2>1. i \in Survivors(point) <=>
          /\ specs[i].item.policy = "prefer"
          /\ \A j \in Rivals(i) : specs[j].item.policy = "prefer" => Precedes(i, j)
    BY <1>1 DEF Survivors
  <2>2. \A j : j \in Rivals(i) <=> j \in Group /\ j # i
    BY <1>1
  <2> QED
    BY <1>2, <2>1, <2>2
<1>4. CASE Preferring = {}
  BY <1>3, <1>4
<1>5. CASE Preferring # {}
  <2>1. PICK w : w = Foremost(Preferring)
    OBVIOUS
  <2>2. Preferring \subseteq DOMAIN specs
    BY <1>1, <1>2
  <2>3. w \in Preferring /\ \A j \in Preferring : w = j \/ Precedes(w, j)
    BY <1>1, <1>5, <2>1, <2>2, ForemostFacts
  <2>4. w \in Group /\ w \in Survivors(point)
    BY <1>2, <1>3, <2>3
  <2>5. ASSUME NEW i \in Group \cap Survivors(point) PROVE i = w
    <3> SUFFICES ASSUME i # w PROVE FALSE
      OBVIOUS
    <3>1. i \in Preferring /\ Precedes(i, w)
      BY <1>3, <2>3
    <3>2. Precedes(w, i)
      BY <2>3, <3>1
    <3> QED
      BY <1>1, <2>2, <2>3, <3>1, <3>2, PrecedesOrder
  <2> QED
    BY <1>5, <2>1, <2>4, <2>5
<1> QED
  BY <1>4, <1>5

\* Looking at a group keeps the resolver's invariant.
LEMMA SelectKeepsResolve ==
  OrderInv /\ ResolveTypeOK /\ ResolveInv /\ SelectGroup => ResolveTypeOK' /\ ResolveInv'
<1> SUFFICES ASSUME OrderInv, ResolveTypeOK, ResolveInv, SelectGroup
             PROVE  ResolveTypeOK' /\ ResolveInv'
  OBVIOUS
<1>1. /\ at = "select" /\ todo # << >> /\ todo' = Tail(todo)
      /\ specs' = specs /\ point' = point /\ stack' = stack /\ left' = left /\ woven' = woven
  BY DEF SelectGroup, weaveVars
<1>2. Selecting(point) /\ why = None /\ None \notin Errors /\ point \in Points
  BY <1>1, NoneAssumption DEF ResolveInv, OrderInv, OrderTypeOK
<1>3. /\ specs \in Seq(HookSpec) /\ todo \in Seq(Ids \cup DefaultIds)
      /\ selected \in Seq(DOMAIN specs) /\ dropped \subseteq (DOMAIN specs) \X Reasons
  BY DEF ResolveTypeOK
<1>4. /\ Group \subseteq DOMAIN specs /\ IsFiniteSet(Group)
      /\ \A i \in Group : Group = Rivals(i) \cup {i} /\ i \notin Rivals(i) /\ specs[i].item.point = point
  <2>1. Group \subseteq DOMAIN specs
    BY DEF Group
  <2>2. IsFiniteSet(Group)
    BY <1>3, <2>1, SpecFacts, FS_Subset
  <2>3. \A i \in Group : Group = Rivals(i) \cup {i} /\ i \notin Rivals(i)
    BY <1>1, <1>2, GroupFacts
  <2>4. \A i \in Group : specs[i].item.point = point
    BY DEF Group
  <2> QED
    BY <2>1, <2>2, <2>3, <2>4
<1>5. \A i \in Group : Cardinality(Group) > 1 => Rivals(i) # {}
  <2> SUFFICES ASSUME NEW i \in Group, Cardinality(Group) > 1, Rivals(i) = {} PROVE FALSE
    OBVIOUS
  <2>1. Group = {i}
    BY <1>4
  <2>2. Cardinality({i}) = 1
    BY FS_Singleton
  <2> QED
    BY <2>1, <2>2
<1>6. /\ (\A p \in Points : Resolved(p)' <=> Resolved(p)) /\ (StackOrder' <=> StackOrder)
      /\ \A p \in Points : (PointNo(p) < PointNo(point))' <=> PointNo(p) < PointNo(point)
      /\ \A p \in Points : (PointNo(p) > PointNo(point))' <=> PointNo(p) > PointNo(point)
  BY <1>1, SameStack DEF PointNo
<1>7. todo' \in Seq(Ids \cup DefaultIds)
  BY <1>1, <1>3
<1>8. ASSUME at' = at, why' = why, Selecting(point)', selected' \in Seq(DOMAIN specs),
             dropped' \subseteq (DOMAIN specs) \X Reasons
      PROVE  ResolveTypeOK' /\ ResolveInv'
  <2>1. ResolveTypeOK'
    BY <1>1, <1>7, <1>8 DEF ResolveTypeOK
  <2>2. ResolveInv'
    BY <1>1, <1>2, <1>6, <1>8 DEF ResolveInv, Errors
  <2> QED
    BY <2>1, <2>2
<1>9. CASE /\ \E i \in Group : Group = {i} /\ selected' = Append(selected, i)
           /\ UNCHANGED <<at, why, dropped>>
  <2>1. PICK w \in Group : Group = {w} /\ selected' = Append(selected, w)
    BY <1>9
  <2>2. Rivals(w) = {} /\ w \in DOMAIN specs
    BY <1>4, <2>1
  <2>3. w \in Survivors(point)
    BY <1>4, <2>2 DEF Survivors
  <2>4. \A i \in Group : Rivals(i) # {} => specs[i].item.policy # "error"
    BY <2>1, <2>2
  <2>5. Selecting(point)'
    BY <1>1, <1>2, <2>1, <2>3, <2>4, GroupKeepsSelecting
  <2>6. selected' \in Seq(DOMAIN specs)
    BY <1>3, <2>1, <2>2
  <2> QED
    BY <1>3, <1>8, <1>9, <2>5, <2>6
<1>10. CASE /\ Cardinality(Group) > 1 /\ \E i \in Group : specs[i].item.policy = "error"
            /\ Raise("duplicate id") /\ UNCHANGED <<selected, dropped>>
  <2>1. Clashes(point)
    BY <1>4, <1>5, <1>10 DEF Clashes
  <2>2. Clashes(point)'
    BY <1>1, <2>1, SameSpecs DEF Clashes, Rivals, SameHook
  <2>3. at' = "error" /\ why' = "duplicate id" /\ selected' = selected /\ dropped' = dropped
    BY <1>10 DEF Raise
  <2>4. ResolveTypeOK'
    BY <1>1, <1>3, <1>7, <2>3 DEF ResolveTypeOK
  <2>5. ResolveInv'
    BY <1>6, <2>2, <2>3 DEF ResolveInv
  <2> QED
    BY <2>4, <2>5
<1>11. CASE /\ Cardinality(Group) > 1 /\ \A i \in Group : specs[i].item.policy # "error"
            /\ selected' = IF Preferring = {} THEN selected
                                              ELSE Append(selected, Foremost(Preferring))
            /\ dropped' = IF Preferring = {} THEN dropped \cup (Group \X {"duplicate_drop"})
                                             ELSE dropped
            /\ UNCHANGED <<at, why>>
  <2>1. /\ Preferring = {} => Group \cap Survivors(point) = {}
        /\ Preferring # {} => /\ Foremost(Preferring) \in Group
                              /\ Group \cap Survivors(point) = {Foremost(Preferring)}
    BY <1>1, <1>2, <1>5, <1>11, GroupSurvivor
  <2>2. \/ selected' = selected /\ Group \cap Survivors(point) = {}
        \/ \E w \in Group : selected' = Append(selected, w) /\ Group \cap Survivors(point) = {w}
    BY <1>11, <2>1
  <2>3. Selecting(point)'
    BY <1>1, <1>2, <1>11, <2>2, GroupKeepsSelecting
  <2>4. selected' \in Seq(DOMAIN specs)
    <3>1. CASE selected' = selected
      BY <1>3, <3>1
    <3>2. CASE \E w \in Group : selected' = Append(selected, w)
      <4>1. PICK w \in DOMAIN specs : selected' = Append(selected, w)
        BY <1>4, <3>2
      <4> QED
        BY <1>3, <4>1
    <3> QED
      BY <2>2, <3>1, <3>2
  <2>5. dropped' \subseteq (DOMAIN specs) \X Reasons
    BY <1>3, <1>4, <1>11 DEF Reasons
  <2> QED
    BY <1>8, <1>11, <2>3, <2>4, <2>5
<1> QED
  BY <1>9, <1>10, <1>11 DEF SelectGroup

-----------------------------------------------------------------------------
(* Dropping the specs with a missing dependency.                             *)

\* When all groups have been looked at: what is in, and what must leave.
LEMMA AllProcessed ==
  ASSUME Selecting(point), todo = << >>
  PROVE  /\ ~Clashes(point) /\ \A i : Processed(i)
         /\ Closed(point) \subseteq Range(selected) /\ Range(selected) \subseteq Survivors(point)
         /\ \A i \in Survivors(point) \ Range(selected) : ~specs[i].item.strict
         /\ \A i \in Range(selected) : Missing(i) # {} => i \notin Closed(point)
<1>1. \A i : Processed(i)
  BY DEF Processed
<1>2. ~Clashes(point)
  BY <1>1 DEF Selecting, Clashes, At
<1>3. Closed(point) \subseteq Range(selected)
  BY <1>1, ClosedFacts DEF Selecting
<1>4. Range(selected) \subseteq Survivors(point)
  BY DEF Selecting, Range
<1>5. \A i \in Survivors(point) \ Range(selected) : ~specs[i].item.strict
  BY <1>1 DEF Selecting
<1>6. ASSUME NEW i \in Range(selected), i \in Closed(point) PROVE Missing(i) = {}
  <2>1. specs[i].item.depends \subseteq IdsOf(Closed(point))
    BY <1>6, ClosedFacts
  <2>2. IdsOf(Closed(point)) \subseteq IdsOf(Range(selected))
    BY <1>3 DEF IdsOf
  <2> QED
    BY <2>1, <2>2 DEF Missing
<1> QED
  BY <1>1, <1>2, <1>3, <1>4, <1>5, <1>6

\* What is kept is there in the same order.
LEMMA KeptFacts ==
  ASSUME NEW T, selected \in Seq(T), NEW out
  PROVE  /\ Kept(out) \in Seq(T) /\ Range(Kept(out)) = Range(selected) \ out
         /\ \A m \in DOMAIN Kept(out) : \E n \in DOMAIN selected : Kept(out)[m] = selected[n]
         /\ \A j, k \in DOMAIN Kept(out) : j < k =>
              \E m, n \in DOMAIN selected : m < n /\ Kept(out)[j] = selected[m] /\ Kept(out)[k] = selected[n]
<1>1. PICK ns : ns = {n \in DOMAIN selected : selected[n] \notin out}
  OBVIOUS
<1>2. PICK q, a, N : q = Kept(out) /\ a = Ascending(ns) /\ N = Cardinality(ns)
  OBVIOUS
<1>3. q = Sublist(selected, ns) /\ ns \in SUBSET DOMAIN selected
  BY <1>1, <1>2 DEF Kept
<1>4. /\ N \in Nat /\ q \in Seq(T) /\ Len(q) = N /\ a \in [1..N -> ns]
      /\ \A k \in 1..N : q[k] = selected[a[k]]
      /\ \A n \in ns : \E k \in 1..N : a[k] = n
      /\ \A j, k \in 1..N : j < k => a[j] < a[k]
  <2>1. PICK s : s = selected
    OBVIOUS
  <2>2. s \in Seq(T) /\ ns \in SUBSET DOMAIN s /\ q = Sublist(s, ns)
    BY <1>3, <2>1
  <2>3. /\ Cardinality(ns) \in Nat
        /\ Sublist(s, ns) \in Seq(T) /\ Len(Sublist(s, ns)) = Cardinality(ns)
        /\ Ascending(ns) \in [1..Cardinality(ns) -> ns]
    BY <2>2, SublistFacts
  <2>4. \A k \in 1..Cardinality(ns) : Sublist(s, ns)[k] = s[Ascending(ns)[k]]
    BY <2>2, SublistFacts
  <2>5. \A n \in ns : \E k \in 1..Cardinality(ns) : Ascending(ns)[k] = n
    BY <2>2, SublistFacts
  <2>6. \A j, k \in 1..Cardinality(ns) : j < k => Ascending(ns)[j] < Ascending(ns)[k]
    BY <2>2, SublistFacts
  <2> QED
    BY <1>2, <2>1, <2>2, <2>3, <2>4, <2>5, <2>6
<1>5. DOMAIN q = 1..N
  BY <1>4
<1>6. \A k \in 1..N : a[k] \in ns /\ a[k] \in DOMAIN selected
  BY <1>3, <1>4
<1>7. Range(q) = Range(selected) \ out
  <2>1. ASSUME NEW k \in 1..N PROVE q[k] \in Range(selected) \ out
    BY <1>1, <1>4, <1>6 DEF Range
  <2>2. ASSUME NEW n \in DOMAIN selected, selected[n] \notin out PROVE \E k \in 1..N : q[k] = selected[n]
    BY <1>1, <1>4, <2>2
  <2>3. \A x \in Range(selected) : \E n \in DOMAIN selected : selected[n] = x
    BY DEF Range
  <2> QED
    BY <1>5, <2>1, <2>2, <2>3 DEF Range
<1>8. \A j, k \in 1..N : j < k =>
        \E m, n \in DOMAIN selected : m < n /\ q[j] = selected[m] /\ q[k] = selected[n]
  <2> TAKE j, k \in 1..N
  <2> HAVE j < k
  <2>1. a[j] < a[k] /\ q[j] = selected[a[j]] /\ q[k] = selected[a[k]]
    BY <1>4
  <2>2. a[j] \in DOMAIN selected /\ a[k] \in DOMAIN selected
    BY <1>6
  <2> QED
    BY <2>1, <2>2
<1> QED
  BY <1>2, <1>4, <1>5, <1>6, <1>7, <1>8

\* A round of the while loop keeps it: what leaves is not in the closed set.
LEMMA DropKeepsResolve ==
  OrderInv /\ ResolveTypeOK /\ ResolveInv /\ DropMissing => ResolveTypeOK' /\ ResolveInv'
<1> SUFFICES ASSUME OrderInv, ResolveTypeOK, ResolveInv, DropMissing
             PROVE  ResolveTypeOK' /\ ResolveInv'
  OBVIOUS
<1>1. /\ at = "select" /\ todo = << >> /\ todo' = << >>
      /\ specs' = specs /\ point' = point /\ stack' = stack /\ left' = left /\ woven' = woven
  BY DEF DropMissing, weaveVars
<1>2. Selecting(point) /\ why = None /\ None \notin Errors /\ point \in Points
  BY <1>1, NoneAssumption DEF ResolveInv, OrderInv, OrderTypeOK
<1>3. /\ specs \in Seq(HookSpec) /\ selected \in Seq(DOMAIN specs)
      /\ dropped \subseteq (DOMAIN specs) \X Reasons
  BY DEF ResolveTypeOK
<1>p. PICK p, out, sq : /\ p = point /\ out = {i \in Range(selected) : Missing(i) # {}}
                        /\ sq = selected'
  OBVIOUS
<1>4. /\ ~Clashes(p) /\ \A i : Processed(i)
      /\ Closed(p) \subseteq Range(selected) /\ Range(selected) \subseteq Survivors(p)
      /\ \A i \in Survivors(p) \ Range(selected) : ~specs[i].item.strict
      /\ out \cap Closed(p) = {} /\ out \subseteq Survivors(p) /\ out \subseteq DOMAIN specs
  <2>1. out \cap Closed(p) = {} /\ out \subseteq Survivors(p)
    BY <1>1, <1>2, <1>p, AllProcessed
  <2>2. Survivors(p) \subseteq DOMAIN specs
    BY DEF Survivors
  <2> QED
    BY <1>1, <1>2, <1>p, <2>1, <2>2, AllProcessed
<1>6. /\ (\A q \in Points : Resolved(q)' <=> Resolved(q)) /\ (StackOrder' <=> StackOrder)
      /\ \A q \in Points : (PointNo(q) < PointNo(point))' <=> PointNo(q) < PointNo(point)
      /\ \A q \in Points : (PointNo(q) > PointNo(point))' <=> PointNo(q) > PointNo(point)
  BY <1>1, SameStack DEF PointNo
<1>7. CASE \A i \in out : MayDrop(i)
  <2>1. /\ selected' = Kept(out) /\ at' = at /\ why' = why
        /\ dropped' = dropped \cup (out \X {"unknown_dependency"})
    BY <1>7, <1>p DEF DropMissing
  <2>2. /\ sq \in Seq(DOMAIN specs) /\ Range(sq) = Range(selected) \ out
        /\ \A m \in DOMAIN sq : \E n \in DOMAIN selected : sq[m] = selected[n]
        /\ \A j, k \in DOMAIN sq : j < k =>
             \E m, n \in DOMAIN selected : m < n /\ sq[j] = selected[m] /\ sq[k] = selected[n]
    <3>1. sq = Kept(out)
      BY <1>p, <2>1
    <3> QED
      BY <1>3, <3>1, KeptFacts
  <2>3. ResolveTypeOK'
    <3>1. dropped' \subseteq (DOMAIN specs) \X Reasons
      BY <1>3, <1>4, <2>1 DEF Reasons
    <3> QED
      BY <1>1, <1>p, <2>1, <2>2, <3>1 DEF ResolveTypeOK
  <2>4. \A m, n \in DOMAIN sq : m < n => IdBefore(specs, p, specs[sq[m]].id, specs[sq[n]].id)
    BY <1>2, <1>p, <2>2 DEF Selecting, InIdOrder
  <2>5. InIdOrder(p, selected)'
    BY <1>1, <1>p, <2>4 DEF InIdOrder, IdBefore, At
  <2>6. \A m \in DOMAIN sq : sq[m] \in Survivors(p)
    BY <1>4, <2>2 DEF Range
  <2>7. \A i \in Survivors(p) : i \in Range(sq) \/ (~specs[i].item.strict /\ i \notin Closed(p))
    BY <1>4, <1>7, <2>2 DEF MayDrop
  <2>8. \A i \in At(specs, p) : Rivals(i) # {} => specs[i].item.policy # "error"
    BY <1>2, <1>4, <1>p DEF Selecting
  <2>9. stack'[p] = << >>
    BY <1>1, <1>2, <1>p DEF Selecting
  <2>10. At(specs, p)' = At(specs, p) /\ \A i : Processed(i)'
    BY <1>1 DEF At, Processed
  <2>11. DOMAIN todo' = {}
    BY <1>1
  <2>12. Selecting(p)'
    <3>1. \A m \in DOMAIN selected' : selected'[m] \in Survivors(p)' /\ Processed(selected[m])'
      BY <1>1, <1>p, <2>6, <2>11, SameSpecs DEF Processed
    <3>2. \A i \in At(specs, p)' : Processed(i)' /\ Rivals(i)' # {} => specs'[i].item.policy # "error"
      BY <1>1, <2>8, <2>10, SameSpecs
    <3>3. \A i \in Survivors(p)' : i \in Range(selected') \/ ~Processed(i)'
                                  \/ (~specs'[i].item.strict /\ i \notin Closed(p)')
      BY <1>1, <1>p, <2>7, SameSpecs
    <3> QED
      BY <2>5, <2>9, <2>11, <3>1, <3>2, <3>3 DEF Selecting
  <2>13. Selecting(point)'
    BY <1>1, <1>p, <2>12 DEF Selecting
  <2>14. ResolveInv'
    BY <1>1, <1>2, <1>6, <2>1, <2>13 DEF ResolveInv, Errors
  <2> QED
    BY <2>3, <2>14
<1>8. CASE ~\A i \in out : MayDrop(i)
  <2>1. /\ at' = "error" /\ why' = "unknown dependency" /\ selected' = selected /\ dropped' = dropped
    BY <1>8, <1>p DEF DropMissing, Raise
  <2>2. ~Clashes(p)' /\ StrictLoses(p)'
    <3>1. StrictLoses(p)
      BY <1>4, <1>8 DEF MayDrop, StrictLoses
    <3> QED
      BY <1>1, <1>4, <3>1, SameSpecs
  <2>3. ~Clashes(point)' /\ StrictLoses(point)'
    BY <1>1, <1>p, <2>2 DEF Clashes, StrictLoses, Survivors, Closed
  <2>4. ResolveTypeOK'
    BY <1>1, <1>3, <2>1 DEF ResolveTypeOK
  <2>5. ResolveInv'
    BY <1>6, <2>1, <2>3 DEF ResolveInv
  <2> QED
    BY <2>4, <2>5
<1> QED
  BY <1>7, <1>8

-----------------------------------------------------------------------------
(* The dependency graph of a point.                                          *)

\* Finitely many specs have finitely many ids.
LEMMA IdsFinite ==
  ASSUME NEW S, IsFiniteSet(S)
  PROVE  IsFiniteSet(IdsOf(S))
<1> DEFINE g == [i \in S |-> specs[i].id]
<1>1. g \in Surjection(S, IdsOf(S))
  BY DEF Surjection, IdsOf
<1> HIDE DEF g
<1> QED
  BY <1>1, FS_Surjection

\* When nothing is missing, the closed set is what is selected.
LEMMA BuildKeepsResolve ==
  OrderInv /\ ResolveTypeOK /\ ResolveInv /\ BuildGraph => ResolveTypeOK' /\ ResolveInv'
<1> SUFFICES ASSUME OrderInv, ResolveTypeOK, ResolveInv, BuildGraph
             PROVE  ResolveTypeOK' /\ ResolveInv'
  OBVIOUS
<1>1. /\ at = "select" /\ todo = << >> /\ at' = "stack" /\ why' = why /\ todo' = todo
      /\ selected' = selected /\ specs' = specs /\ point' = point /\ stack' = stack
      /\ dropped' = dropped /\ left' = left /\ woven' = woven
  BY DEF BuildGraph, Goto, weaveVars
<1>2. Selecting(point) /\ why = None /\ None \notin Errors /\ point \in Points
  BY <1>1, NoneAssumption DEF ResolveInv, OrderInv, OrderTypeOK
<1>3. specs \in Seq(HookSpec)
  BY DEF ResolveTypeOK
<1>p. PICK p, S : p = point /\ S = Range(selected)
  OBVIOUS
<1>4. /\ ~Clashes(p) /\ Closed(p) \subseteq S /\ S \subseteq Survivors(p)
      /\ \A i \in Survivors(p) \ S : ~specs[i].item.strict
  BY <1>1, <1>2, <1>p, AllProcessed
<1>5. \A i \in S : specs[i].item.depends \subseteq IdsOf(S)
  BY <1>p DEF BuildGraph, Missing
<1>6. S = Closed(p)
  BY <1>4, <1>5, ClosedFacts
<1>7. ~StrictLoses(p)
  BY <1>4, <1>6 DEF StrictLoses
<1>8. \A i \in S : IsFiniteSet(specs[i].item.depends)
  <2>1. IsFiniteSet(S)
    <3>1. S \subseteq DOMAIN specs
      BY <1>4 DEF Survivors
    <3> QED
      BY <1>3, <3>1, SpecFacts, FS_Subset
  <2> QED
    BY <1>5, <2>1, IdsFinite, FS_Subset
<1>9. blocked' = [i \in S |-> Cardinality(specs[i].item.depends)]
  BY <1>p DEF BuildGraph
<1>10. IdsOf(Range(stack[p])) = {}
  <2>1. stack[p] = << >>
    BY <1>2, <1>p DEF Selecting
  <2> QED
    BY <2>1 DEF IdsOf, Range
<1>11. ResolveTypeOK'
  BY <1>1 DEF ResolveTypeOK
<1>12. Stacking(p)'
  <2>1. InIdOrder(p, selected)'
    BY <1>1, <1>2, <1>p DEF Selecting, InIdOrder, IdBefore, At
  <2>2. ~Clashes(p)' /\ ~StrictLoses(p)' /\ Range(selected)' = Closed(p)'
    BY <1>1, <1>4, <1>6, <1>7, <1>p, SameSpecs
  <2>3. IdsOf(Range(stack[p]))' = {}
    BY <1>1, <1>10 DEF IdsOf
  <2>4. \A i \in S : blocked'[i] = Cardinality(specs[i].item.depends \ {})
    BY <1>9
  <2> QED
    BY <1>1, <1>8, <1>9, <1>p, <2>1, <2>2, <2>3, <2>4 DEF Stacking
<1>13. Stacking(point)'
  BY <1>1, <1>p, <1>12 DEF Stacking
<1>14. /\ (\A q \in Points : Resolved(q)' <=> Resolved(q)) /\ (StackOrder' <=> StackOrder)
       /\ \A q \in Points : (PointNo(q) < PointNo(point))' <=> PointNo(q) < PointNo(point)
       /\ \A q \in Points : (PointNo(q) > PointNo(point))' <=> PointNo(q) > PointNo(point)
  BY <1>1, SameStack DEF PointNo
<1>15. ResolveInv'
  BY <1>1, <1>2, <1>13, <1>14 DEF ResolveInv, Errors
<1> QED
  BY <1>11, <1>15

-----------------------------------------------------------------------------
(* The call stack of a point grows.                                          *)

\* The call stack stays in order when the spec that is ahead is put on it.
LEMMA StackOrderAppend ==
  ASSUME NEW p, NEW T, NEW s, s \in Seq(T), NEW i, i \in T, StackOrderOf(p, s),
         i \in Closed(p) \ Range(s), specs[i].item.depends \subseteq IdsOf(Range(s)),
         \A j \in Closed(p) \ Range(s) :
           j # i /\ specs[j].item.depends \subseteq IdsOf(Range(s)) => Ahead(i, j)
  PROVE  StackOrderOf(p, Append(s, i))
<1>1. PICK t, N : t = Append(s, i) /\ N = Len(s)
  OBVIOUS
<1>2. /\ N \in Nat /\ DOMAIN s = 1..N /\ DOMAIN t = 1..(N + 1)
      /\ \A n \in 1..N : t[n] = s[n]
      /\ t[N + 1] = i
  BY <1>1
<1>3. ASSUME NEW n \in 1..N
      PROVE  /\ t[n] = s[n] /\ {t[m] : m \in 1..n - 1} = {s[m] : m \in 1..n - 1}
  BY <1>2
<1>4. {t[m] : m \in 1..(N + 1) - 1} = Range(s)
  <2>1. (N + 1) - 1 = N
    BY <1>2
  <2>2. {t[m] : m \in 1..N} = {s[m] : m \in 1..N}
    BY <1>2
  <2> QED
    BY <1>2, <2>1, <2>2 DEF Range
<1> DEFINE Elig(before) == {j \in Closed(p) \ before : specs[j].item.depends \subseteq IdsOf(before)}
           Good(u, n) == u[n] \in Elig({u[m] : m \in 1..n - 1}) /\
                           \A j \in Elig({u[m] : m \in 1..n - 1}) \ {u[n]} : Ahead(u[n], j)
<1>5. \A n \in 1..N : Good(s, n)
  BY <1>2 DEF StackOrderOf
<1>6. ASSUME NEW n \in 1..N PROVE Good(t, n)
  <2>1. Good(s, n)
    BY <1>5
  <2> HIDE DEF Elig
  <2> QED
    BY <2>1, <1>3
<1>7. Good(t, N + 1)
  <2>1. i \in Elig(Range(s)) /\ \A j \in Elig(Range(s)) \ {i} : Ahead(i, j)
    OBVIOUS
  <2> HIDE DEF Elig
  <2> QED
    BY <2>1, <1>2, <1>4
<1>8. \A n \in 1..(N + 1) : n \in 1..N \/ n = N + 1
  BY <1>2
<1>9. \A n \in DOMAIN t : Good(t, n)
  <2> HIDE DEF Good
  <2> QED
    BY <1>2, <1>6, <1>7, <1>8
<1>10. StackOrderOf(p, t)
  BY <1>9 DEF StackOrderOf
<1> QED
  BY <1>1, <1>10

\* What is ready: the specs of the closed set whose dependencies are placed.
LEMMA ReadyFacts ==
  ASSUME ResolveTypeOK, Stacking(point), point \in Points, StackOrder
  PROVE  /\ \A i : i \in Ready <=> /\ i \in Closed(point) \ Range(stack[point])
                                   /\ specs[i].item.depends \subseteq IdsOf(Range(stack[point]))
         /\ Ready # {} => /\ Soonest(Ready) \in Ready
                          /\ \A j \in Ready : j # Soonest(Ready) => Ahead(Soonest(Ready), j)
         /\ Range(stack[point]) \subseteq Closed(point)
         /\ Range(selected) = Closed(point) /\ Closed(point) \subseteq Survivors(point)
         /\ Closed(point) \subseteq DOMAIN specs
<1>p. PICK p, X : p = point /\ X = IdsOf(Range(stack[point]))
  OBVIOUS
<1>1. /\ specs \in Seq(HookSpec) /\ selected \in Seq(DOMAIN specs) /\ stack[p] \in Seq(DOMAIN specs)
  BY <1>p DEF ResolveTypeOK
<1>2. /\ Range(selected) = Closed(p) /\ InIdOrder(p, selected) /\ DOMAIN blocked = Closed(p)
      /\ \A i \in Closed(p) : /\ IsFiniteSet(specs[i].item.depends)
                              /\ blocked[i] = Cardinality(specs[i].item.depends \ X)
  BY <1>p DEF Stacking
<1>3. Closed(p) \subseteq Survivors(p) /\ Survivors(p) \subseteq DOMAIN specs
  BY ClosedFacts DEF Survivors
<1>4. \A i \in Closed(p) : blocked[i] = 0 <=> specs[i].item.depends \subseteq X
  <2> SUFFICES ASSUME NEW i \in Closed(p) PROVE blocked[i] = 0 <=> specs[i].item.depends \subseteq X
    OBVIOUS
  <2>1. PICK D : D = specs[i].item.depends \ X
    OBVIOUS
  <2>2. IsFiniteSet(D)
    BY <1>2, <2>1, FS_Subset
  <2>3. Cardinality(D) = 0 <=> D = {}
    BY <2>2, FS_EmptySet
  <2> QED
    BY <1>2, <2>1, <2>3
<1>5. \A i : i \in Ready <=> i \in Closed(p) \ Range(stack[p]) /\ specs[i].item.depends \subseteq X
  BY <1>2, <1>4, <1>p DEF Ready
<1>6. Ready # {} => /\ Soonest(Ready) \in Ready
                    /\ \A j \in Ready : j # Soonest(Ready) => Ahead(Soonest(Ready), j)
  <2> SUFFICES ASSUME Ready # {}
               PROVE  /\ Soonest(Ready) \in Ready
                      /\ \A j \in Ready : j # Soonest(Ready) => Ahead(Soonest(Ready), j)
    OBVIOUS
  <2>1. Ready \subseteq Range(selected)
    BY <1>2, <1>5
  <2>2. Soonest(Ready) \in Ready /\ \A j \in Ready : Soonest(Ready) = j \/ Sooner(Soonest(Ready), j)
    BY <1>1, <1>2, <2>1, SoonestFacts
  <2>3. \A i, j \in Ready : Sooner(i, j) => Ahead(i, j)
    BY <1>1, <1>2, <1>3, <2>1, SoonerIsAhead
  <2> QED
    BY <2>2, <2>3
<1>7. Range(stack[p]) \subseteq Closed(p)
  <2>1. StackOrderOf(p, stack[p])
    BY <1>p, StackOrderByPoint
  <2> QED
    BY <1>1, <2>1, StackOrderFacts
<1> QED
  BY <1>2, <1>3, <1>5, <1>6, <1>7, <1>p

\* Popping what is ready keeps the counts of what is blocked.
LEMMA PopKeepsResolve ==
  OrderInv /\ ResolveTypeOK /\ ResolveInv /\ PopReady => ResolveTypeOK' /\ ResolveInv'
<1> SUFFICES ASSUME OrderInv, ResolveTypeOK, ResolveInv, PopReady
             PROVE  ResolveTypeOK' /\ ResolveInv'
  OBVIOUS
<1>p. PICK p, w, s, X : /\ p = point /\ w = Soonest(Ready) /\ s = stack[p]
                        /\ X = IdsOf(Range(s))
  OBVIOUS
<1>1. /\ at = "stack" /\ Ready # {} /\ at' = at /\ why' = why /\ todo' = todo
      /\ selected' = selected /\ specs' = specs /\ point' = point
      /\ stack' = [stack EXCEPT ![p] = Append(@, w)]
      /\ blocked' = [j \in DOMAIN blocked |->
            IF specs[w].id \in specs[j].item.depends THEN blocked[j] - 1 ELSE blocked[j]]
      /\ dropped' = dropped /\ left' = left /\ woven' = woven
  BY <1>p DEF PopReady, weaveVars
<1>2. Stacking(point) /\ StackOrder /\ why = None /\ None \notin Errors /\ point \in Points
  BY <1>1, NoneAssumption DEF ResolveInv, OrderInv, OrderTypeOK
<1>3. /\ specs \in Seq(HookSpec) /\ s \in Seq(DOMAIN specs)
      /\ stack \in [Points -> Seq(DOMAIN specs)] /\ p \in Points
  BY <1>2, <1>p DEF ResolveTypeOK
<1>4. /\ w \in Closed(p) \ Range(s) /\ specs[w].item.depends \subseteq X
      /\ \A j \in Closed(p) \ Range(s) : j # w /\ specs[j].item.depends \subseteq X => Ahead(w, j)
      /\ Range(s) \subseteq Closed(p) /\ Closed(p) \subseteq Survivors(p) /\ Closed(p) \subseteq DOMAIN specs
  BY <1>1, <1>2, <1>p, ReadyFacts
<1>5. PICK t : t = Append(s, w)
  OBVIOUS
<1>6. stack' = [stack EXCEPT ![p] = t] /\ t \in Seq(DOMAIN specs) /\ stack'[p] = t
      /\ \A q \in Points \ {p} : stack'[q] = stack[q]
  BY <1>1, <1>3, <1>4, <1>5, <1>p
<1>7. ResolveTypeOK'
  <2>1. stack' \in [Points -> Seq(DOMAIN specs)]
    BY <1>3, <1>6
  <2> QED
    BY <1>1, <2>1 DEF ResolveTypeOK
<1>8. StackOrder'
  <2>1. StackOrderOf(p, t)
    <3>1. StackOrderOf(p, s)
      BY <1>2, <1>3, <1>p, StackOrderByPoint
    <3>2. PICK T : T = DOMAIN specs
      OBVIOUS
    <3>3. s \in Seq(T) /\ w \in T
      BY <1>3, <1>4, <3>2
    <3> QED
      BY <1>4, <1>5, <1>p, <3>1, <3>3, StackOrderAppend
  <2>2. \A q \in Points \ {p} : StackOrderOf(q, stack[q])
    BY <1>2, StackOrderByPoint
  <2>3. PICK v : v = stack'
    OBVIOUS
  <2>4. \A q \in Points : StackOrderOf(q, v[q])
    BY <1>6, <2>1, <2>2, <2>3
  <2>5. \A q \in Points : StackOrderOf(q, v[q])'
    BY <1>1, <2>4, SameSpecs
  <2>6. StackOrder' <=> \A q \in Points : StackOrderOf(q, v[q])'
    BY <2>3 DEF StackOrder, StackOrderOf, IdsOf, Ahead, SameHook
  <2> QED
    BY <2>5, <2>6
<1>9. Range(t) = Range(s) \cup {w} /\ IdsOf(Range(t)) = X \cup {specs[w].id}
  <2>1. Range(t) = Range(s) \cup {w}
    BY <1>3, <1>4, <1>5, AppendRange
  <2> QED
    BY <1>p, <2>1 DEF IdsOf
<1>10. specs[w].id \notin X
  <2> SUFFICES ASSUME NEW i \in Range(s), specs[i].id = specs[w].id PROVE FALSE
    BY <1>p DEF IdsOf
  <2>1. i = w
    BY <1>3, <1>4, SurvivorsDiffer
  <2> QED
    BY <1>4, <2>1
<1>11. /\ Range(selected) = Closed(p) /\ DOMAIN blocked = Closed(p)
       /\ \A i \in Closed(p) : /\ IsFiniteSet(specs[i].item.depends)
                               /\ blocked[i] = Cardinality(specs[i].item.depends \ X)
  BY <1>2, <1>p DEF Stacking
<1>12. ASSUME NEW j \in Closed(p)
       PROVE  blocked'[j] = Cardinality(specs[j].item.depends \ (X \cup {specs[w].id}))
  <2>1. PICK D, d : D = specs[j].item.depends \ X /\ d = specs[w].id
    OBVIOUS
  <2>2. IsFiniteSet(D) /\ blocked[j] = Cardinality(D)
    BY <1>11, <2>1, FS_Subset
  <2>3. specs[j].item.depends \ (X \cup {d}) = D \ {d}
    BY <2>1
  <2>4. d \in specs[j].item.depends <=> d \in D
    BY <1>10, <2>1
  <2>5. CASE d \in D
    <3>1. Cardinality(D \ {d}) = Cardinality(D) - 1
      BY <2>2, <2>5, FS_RemoveElement
    <3> QED
      BY <1>1, <1>11, <2>1, <2>2, <2>3, <2>4, <2>5, <3>1
  <2>6. CASE d \notin D
    <3>1. D \ {d} = D
      BY <2>6
    <3> QED
      BY <1>1, <1>11, <2>1, <2>2, <2>3, <2>4, <2>6, <3>1
  <2> QED
    BY <2>5, <2>6
<1>13. Stacking(p)'
  <2>1. InIdOrder(p, selected)'
    BY <1>1, <1>2, <1>p DEF Stacking, InIdOrder, IdBefore, At
  <2>2. ~Clashes(p)' /\ ~StrictLoses(p)' /\ Range(selected)' = Closed(p)'
    BY <1>1, <1>2, <1>p, SameSpecs DEF Stacking
  <2>3. IdsOf(Range(stack[p]))' = X \cup {specs[w].id}
    <3>1. IdsOf(Range(stack[p]))' = IdsOf(Range(t))
      BY <1>1, <1>6 DEF IdsOf
    <3> QED
      BY <1>9, <3>1
  <2>4. DOMAIN blocked' = Closed(p) /\ Range(selected') = Closed(p)
    BY <1>1, <1>11
  <2> QED
    BY <1>1, <1>11, <1>12, <2>1, <2>2, <2>3, <2>4 DEF Stacking
<1>14. Stacking(point)'
  BY <1>1, <1>p, <1>13 DEF Stacking
<1>15. /\ \A q \in Points : PointNo(q) < PointNo(point)' => Resolved(q)'
       /\ \A q \in Points : PointNo(q) > PointNo(point)' => (stack[q] = << >>)'
  <2>1. \A q \in Points : PointNo(q) < PointNo(p) \/ PointNo(q) > PointNo(p) => q # p
    BY <1>3 DEF PointNo, Points
  <2>2. PointNo(point)' = PointNo(p)
    BY <1>1, <1>p DEF PointNo
  <2>3. \A q \in Points \ {p} : Resolved(q)' <=> Resolved(q)
    BY <1>1, <1>6, SameSpecs DEF Resolved
  <2>4. /\ \A q \in Points : PointNo(q) < PointNo(p) => Resolved(q)
        /\ \A q \in Points : PointNo(q) > PointNo(p) => stack[q] = << >>
    BY <1>1, <1>p DEF ResolveInv
  <2> QED
    BY <1>6, <2>1, <2>2, <2>3, <2>4
<1>16. ResolveInv'
  BY <1>1, <1>2, <1>8, <1>14, <1>15 DEF ResolveInv, Errors
<1> QED
  BY <1>7, <1>16

-----------------------------------------------------------------------------
(* The call stack of a point is finished.                                    *)

\* A sequence without repetitions has as many places as members.
LEMMA LengthIsCardinality ==
  ASSUME NEW T, NEW s, s \in Seq(T), \A m, n \in DOMAIN s : s[m] = s[n] => m = n
  PROVE  IsFiniteSet(Range(s)) /\ Cardinality(Range(s)) = Len(s)
<1>1. PICK N : N = Len(s)
  OBVIOUS
<1>2. N \in Nat /\ DOMAIN s = 1..N
  BY <1>1
<1> DEFINE g == [n \in 1..N |-> s[n]]
<1>3. g \in Injection(1..N, Range(s)) /\ g \in Surjection(1..N, Range(s))
  <2>1. g \in [1..N -> Range(s)]
    BY <1>2 DEF Range
  <2>2. \A m, n \in 1..N : g[m] = g[n] => m = n
    BY <1>2
  <2>3. \A x \in Range(s) : \E n \in 1..N : g[n] = x
    BY <1>2 DEF Range
  <2> HIDE DEF g
  <2> QED
    BY <2>1, <2>2, <2>3 DEF Injection, Surjection, IsInjective
<1> HIDE DEF g
<1>4. IsFiniteSet(1..N) /\ Cardinality(1..N) = N
  BY <1>2, FS_Interval
<1> QED
  BY <1>1, <1>3, <1>4, FS_Surjection

\* The stack is as long as what is in exactly when nothing is left out.
LEMMA StackFull ==
  ASSUME ResolveTypeOK, Stacking(point), point \in Points, StackOrder
  PROVE  Len(stack[point]) = Len(selected) <=> Range(stack[point]) = Closed(point)
<1>p. PICK p, s, q, C : p = point /\ s = stack[point] /\ q = selected /\ C = Closed(point)
  OBVIOUS
<1>1. specs \in Seq(HookSpec) /\ q \in Seq(DOMAIN specs) /\ s \in Seq(DOMAIN specs)
  BY <1>p DEF ResolveTypeOK
<1>2. Range(q) = C /\ InIdOrder(p, q) /\ Range(s) \subseteq C
  <2>1. Range(q) = C /\ InIdOrder(p, q)
    BY <1>p DEF Stacking
  <2> QED
    BY <1>p, <2>1, ReadyFacts
<1>3. \A m, n \in DOMAIN q : q[m] = q[n] => m = n
  BY <1>1, <1>2, InIdOrderFacts
<1>4. \A m, n \in DOMAIN s : s[m] = s[n] => m = n
  <2>1. StackOrderOf(p, s)
    BY <1>p, StackOrderByPoint
  <2> QED
    BY <1>1, <2>1, StackOrderFacts
<1>5. IsFiniteSet(C) /\ Cardinality(C) = Len(q)
  BY <1>1, <1>2, <1>3, LengthIsCardinality
<1>6. IsFiniteSet(Range(s)) /\ Cardinality(Range(s)) = Len(s)
  BY <1>1, <1>4, LengthIsCardinality
<1>7. Range(s) = C <=> Cardinality(Range(s)) = Cardinality(C)
  BY <1>2, <1>5, FS_Subset
<1> QED
  BY <1>5, <1>6, <1>7, <1>p

\* What never gets ready depends on itself.
LEMMA StuckIsCircular ==
  ASSUME ResolveTypeOK, Stacking(point), point \in Points, StackOrder, Ready = {},
         Range(stack[point]) # Closed(point)
  PROVE  CircularAt(point)
<1>p. PICK p, R, T : p = point /\ R = Range(stack[point]) /\ T = Closed(point) \ R
  OBVIOUS
<1>1. /\ R \subseteq Closed(p)
      /\ \A i : i \in Ready <=> i \in Closed(p) \ R /\ specs[i].item.depends \subseteq IdsOf(R)
  BY <1>p, ReadyFacts
<1>2. T # {} /\ T \subseteq Closed(p)
  BY <1>1, <1>p
<1>3. ASSUME NEW i \in T PROVE specs[i].item.depends \cap IdsOf(T) # {}
  <2>1. ~(specs[i].item.depends \subseteq IdsOf(R))
    BY <1>1, <1>p
  <2>2. PICK d \in specs[i].item.depends : d \notin IdsOf(R)
    BY <2>1
  <2>3. d \in IdsOf(Closed(p))
    BY <1>2, <2>2, ClosedFacts
  <2>4. PICK j \in Closed(p) : specs[j].id = d
    BY <2>3 DEF IdsOf
  <2>5. j \notin R
    BY <2>2, <2>4 DEF IdsOf
  <2>6. d \in IdsOf(T)
    BY <1>p, <2>4, <2>5 DEF IdsOf
  <2> QED
    BY <2>2, <2>6
<1>4. Circular(T)
  BY <1>2, <1>3 DEF Circular
<1> QED
  BY <1>2, <1>4, <1>p DEF CircularAt

\* What is all on the stack does not depend on itself.
LEMMA StackedIsNotCircular ==
  ASSUME specs \in Seq(HookSpec), NEW p, NEW T, NEW s, s \in Seq(T), StackOrderOf(p, s),
         Range(s) = Closed(p)
  PROVE  ~CircularAt(p)
<1> SUFFICES ASSUME NEW S \in SUBSET Closed(p), Circular(S) PROVE FALSE
  BY DEF CircularAt
<1>1. PICK places : places = {n \in DOMAIN s : s[n] \in S}
  OBVIOUS
<1>2. places \subseteq Nat /\ IsFiniteSet(places) /\ places # {}
  <2>1. IsFiniteSet(DOMAIN s) /\ DOMAIN s \subseteq Nat
    BY FS_Interval
  <2>2. places # {}
    BY <1>1 DEF Circular, Range
  <2> QED
    BY <1>1, <2>1, <2>2, FS_Subset
<1>3. PICK n \in places : \A m \in places : n <= m
  BY <1>2, LeastNumber
<1>4. PICK before : before = {s[m] : m \in 1..n - 1}
  OBVIOUS
<1>5. s[n] \in S /\ n \in DOMAIN s /\ specs[s[n]].item.depends \subseteq IdsOf(before)
  BY <1>1, <1>4 DEF StackOrderOf
<1>6. PICK d : d \in specs[s[n]].item.depends /\ d \in IdsOf(S)
  BY <1>5 DEF Circular
<1>7. PICK j \in S : specs[j].id = d
  BY <1>6 DEF IdsOf
<1>8. PICK m \in 1..n - 1 : specs[s[m]].id = d
  BY <1>4, <1>5, <1>6 DEF IdsOf
<1>9. m \in DOMAIN s /\ m < n /\ m \in Nat /\ n \in Nat
  BY <1>2, <1>5, <1>8
<1>10. s[m] \in Closed(p) /\ j \in Closed(p)
  BY <1>9 DEF Range
<1>11. s[m] = j
  BY <1>7, <1>8, <1>10, ClosedFacts, SurvivorsDiffer
<1>12. m \in places
  BY <1>1, <1>9, <1>11
<1> QED
  BY <1>3, <1>9, <1>12

LEMMA OuterStackType ==
  ASSUME NEW T, NEW st, st \in [Points -> Seq(T)]
  PROVE  OuterStack(st) \in Seq(T)
<1>1. st["head"] \in Seq(T) /\ st["invoke"] \in Seq(T) /\ st["tail"] \in Seq(T)
  BY DEF Points
<1>2. Reverse(st["tail"]) \in Seq(T)
  BY <1>1 DEF Reverse
<1> QED
  BY <1>1, <1>2 DEF OuterStack

\* The end of a point: its stack is the closed set, or that set is circular.
LEMMA StackDoneKeepsResolve ==
  OrderInv /\ ResolveTypeOK /\ ResolveInv /\ StackDone => ResolveTypeOK' /\ ResolveInv'
<1> SUFFICES ASSUME OrderInv, ResolveTypeOK, ResolveInv, StackDone
             PROVE  ResolveTypeOK' /\ ResolveInv'
  OBVIOUS
<1>p. PICK p, ss : p = point /\ ss = specs
  OBVIOUS
<1>1. /\ at = "stack" /\ Ready = {} /\ specs' = specs /\ stack' = stack /\ dropped' = dropped
      /\ woven' = woven
  BY DEF StackDone
<1>2. Stacking(point) /\ StackOrder /\ why = None /\ None \notin Errors /\ point \in Points
  BY <1>1, NoneAssumption DEF ResolveInv, OrderInv, OrderTypeOK
<1>3. ss \in Seq(HookSpec) /\ stack \in [Points -> Seq(DOMAIN specs)] /\ specs' = ss
  BY <1>1, <1>p DEF ResolveTypeOK
<1>4. ~Clashes(p) /\ ~StrictLoses(p)
  BY <1>2, <1>p DEF Stacking
<1>5. /\ (\A q \in Points : Resolved(q)' <=> Resolved(q)) /\ StackOrder'
  BY <1>1, <1>2, SameStack
<1>6. /\ \A q \in Points : PointNo(q) < PointNo(p) => Resolved(q)
      /\ \A q \in Points : PointNo(q) > PointNo(p) => stack[q] = << >>
  BY <1>1, <1>p DEF ResolveInv
<1>7. /\ PointNo("head") = 1 /\ PointNo("invoke") = 2 /\ PointNo("tail") = 3
      /\ Points = {"head", "invoke", "tail"}
  BY DEF PointNo, Points
<1>8. CASE Len(stack[point]) # Len(selected)
  <2>1. /\ at' = "error" /\ why' = "cyclic dependencies"
        /\ point' = point /\ todo' = todo /\ selected' = selected /\ left' = left
    BY <1>8 DEF StackDone, Raise
  <2>2. CircularAt(p)
    BY <1>1, <1>2, <1>8, <1>p, StackFull, StuckIsCircular DEF ResolveInv
  <2>3. ~StrictLoses(p)' /\ CircularAt(p)'
    BY <1>1, <1>4, <2>2, SameSpecs
  <2>4. ~StrictLoses(point)' /\ CircularAt(point)'
    BY <1>p, <2>1, <2>3 DEF StrictLoses, CircularAt, Survivors, Closed
  <2>5. ResolveTypeOK'
    BY <1>1, <2>1 DEF ResolveTypeOK
  <2>6. ResolveInv'
    BY <1>5, <2>1, <2>4 DEF ResolveInv
  <2> QED
    BY <2>5, <2>6
<1>9. CASE Len(stack[point]) = Len(selected)
  <2>1. Resolved(p)
    <3>1. Range(stack[p]) = Closed(p)
      BY <1>2, <1>9, <1>p, StackFull
    <3>2. ~CircularAt(p)
      <4>1. StackOrderOf(p, stack[p]) /\ stack[p] \in Seq(DOMAIN specs) /\ specs \in Seq(HookSpec)
        BY <1>2, <1>3, <1>p, StackOrderByPoint
      <4> QED
        BY <3>1, <4>1, StackedIsNotCircular
    <3> QED
      BY <1>4, <3>1, <3>2 DEF Resolved
  <2>2. ASSUME NEW q \in Points, at' = "select", why' = why, point' = q, todo' = GroupIds(specs, q),
               selected' = << >>, left' = left, stack[q] = << >>,
               \A r \in Points : PointNo(r) < PointNo(q) => r = p \/ PointNo(r) < PointNo(p),
               \A r \in Points : PointNo(r) > PointNo(q) => PointNo(r) > PointNo(p)
        PROVE  ResolveTypeOK' /\ ResolveInv'
    <3>1. Selecting(q)' /\ todo' \in Seq(Ids \cup DefaultIds)
      <4>1. todo' = GroupIds(ss, q) /\ stack'[q] = << >>
        BY <1>1, <1>p, <2>2
      <4> QED
        BY <1>3, <2>2, <4>1, FreshSelecting
    <3>2. Selecting(point)'
      BY <2>2, <3>1 DEF Selecting
    <3>3. ResolveTypeOK'
      BY <1>1, <2>2, <3>1 DEF ResolveTypeOK
    <3>4. PointNo(point)' = PointNo(q)
      BY <2>2 DEF PointNo
    <3>5. \A r \in Points : /\ PointNo(r) < PointNo(point)' => Resolved(r)'
                            /\ PointNo(r) > PointNo(point)' => (stack[r] = << >>)'
      BY <1>1, <1>5, <1>6, <2>1, <2>2, <3>4
    <3>6. ResolveInv'
      BY <1>2, <1>5, <2>2, <3>2, <3>5 DEF ResolveInv, Errors
    <3> QED
      BY <3>3, <3>6
  <2>3. CASE p = "head"
    <3>1. /\ at' = "select" /\ why' = why /\ point' = "invoke" /\ todo' = GroupIds(specs, "invoke")
          /\ selected' = << >> /\ left' = left
      BY <1>9, <1>p, <2>3 DEF StackDone, Goto
    <3>2. "invoke" \in Points /\ stack["invoke"] = << >>
      BY <1>6, <1>7, <2>3
    <3>3. /\ \A r \in Points : PointNo(r) < PointNo("invoke") => r = p \/ PointNo(r) < PointNo(p)
          /\ \A r \in Points : PointNo(r) > PointNo("invoke") => PointNo(r) > PointNo(p)
      BY <1>7, <2>3
    <3> QED
      BY <2>2, <3>1, <3>2, <3>3
  <2>4. CASE p = "invoke"
    <3>1. /\ at' = "select" /\ why' = why /\ point' = "tail" /\ todo' = GroupIds(specs, "tail")
          /\ selected' = << >> /\ left' = left
      BY <1>9, <1>p, <2>4 DEF StackDone, Goto
    <3>2. "tail" \in Points /\ stack["tail"] = << >>
      BY <1>6, <1>7, <2>4
    <3>3. /\ \A r \in Points : PointNo(r) < PointNo("tail") => r = p \/ PointNo(r) < PointNo(p)
          /\ \A r \in Points : PointNo(r) > PointNo("tail") => PointNo(r) > PointNo(p)
      BY <1>7, <2>4
    <3> QED
      BY <2>2, <3>1, <3>2, <3>3
  <2>5. CASE p = "tail"
    <3>1. /\ at' = "weave" /\ why' = why /\ left' = OuterStack(stack) /\ point' = point /\ todo' = todo
          /\ selected' = << >>
      BY <1>9, <1>p, <2>5 DEF StackDone, Goto
    <3>2. left' \in Seq(DOMAIN specs)
      BY <1>3, <3>1, OuterStackType
    <3>3. ResolveTypeOK'
      BY <1>1, <3>1, <3>2 DEF ResolveTypeOK
    <3>4. \A q \in Points : Resolved(q)'
      BY <1>5, <1>6, <1>7, <2>1, <2>5
    <3>5. ResolveInv'
      BY <1>2, <1>5, <3>1, <3>4 DEF ResolveInv, Errors
    <3> QED
      BY <3>3, <3>5
  <2> QED
    BY <1>2, <1>7, <1>p, <2>3, <2>4, <2>5
<1> QED
  BY <1>8, <1>9

-----------------------------------------------------------------------------
(* Weaving, the end, and the whole run.                                      *)

\* The last member of a sequence and the others.
LEMMA FrontFacts ==
  ASSUME NEW T, NEW s, s \in Seq(T), s # << >>
  PROVE  /\ Len(s) \in Nat /\ Len(s) > 0
         /\ Last(s) = s[Len(s)] /\ Last(s) \in T
         /\ Front(s) \in Seq(T) /\ Len(Front(s)) = Len(s) - 1
         /\ \A n \in 1..Len(s) - 1 : Front(s)[n] = s[n]
<1>1. PICK N, f : N = Len(s) /\ f = Front(s)
  OBVIOUS
<1>2. N \in Nat /\ N > 0 /\ \A n \in 1..N : s[n] \in T
  BY <1>1
<1>3. f = SubSeq(s, 1, N - 1)
  BY <1>1 DEF Front
<1>4. \A n \in 1..N - 1 : s[n] \in T
  BY <1>2
<1>5. /\ f \in Seq(T)
      /\ Len(f) = IF 1 <= N - 1 THEN (N - 1) - 1 + 1 ELSE 0
      /\ \A n \in 1..(N - 1) - 1 + 1 : f[n] = s[1 + n - 1]
  BY <1>2, <1>3, <1>4, SubSeqProperties
<1>6. Len(f) = N - 1 /\ \A n \in 1..N - 1 : f[n] = s[n]
  BY <1>2, <1>5
<1>7. Last(s) = s[N] /\ s[N] \in T
  BY <1>1, <1>2 DEF Last
<1> QED
  BY <1>1, <1>2, <1>5, <1>6, <1>7

\* The spec to weave and those that are left after it.
LEMMA WeaveFacts ==
  ASSUME ResolveTypeOK, Weave
  PROVE  /\ at = "weave" /\ specs' = specs /\ UNCHANGED resolveVars
         /\ Len(left) \in Nat /\ Len(left) > 0
         /\ Last(left) = left[Len(left)] /\ Last(left) \in DOMAIN specs
         /\ Front(left) \in Seq(DOMAIN specs) /\ Len(Front(left)) = Len(left) - 1
         /\ \A n \in 1..Len(left) - 1 : Front(left)[n] = left[n]
<1>1. PICK T : T = DOMAIN specs
  OBVIOUS
<1>2. left \in Seq(T) /\ left # << >>
  BY <1>1 DEF ResolveTypeOK, Weave
<1> QED
  BY <1>1, <1>2, FrontFacts DEF Weave

LEMMA WeaveKeepsResolve ==
  ResolveTypeOK /\ ResolveInv /\ Weave => ResolveTypeOK' /\ ResolveInv'
<1> SUFFICES ASSUME ResolveTypeOK, ResolveInv, Weave PROVE ResolveTypeOK' /\ ResolveInv'
  OBVIOUS
<1>p. PICK i : i = Last(left)
  OBVIOUS
<1>1. /\ at = "weave" /\ specs' = specs /\ UNCHANGED resolveVars
      /\ i \in DOMAIN specs /\ Front(left) \in Seq(DOMAIN specs)
  BY <1>p, WeaveFacts
<1>2. /\ point' = point /\ todo' = todo /\ selected' = selected /\ stack' = stack
  BY <1>1 DEF resolveVars
<1>3. why = None /\ None \notin Errors
  BY <1>1, NoneAssumption DEF ResolveInv
<1>4. /\ (at' = at /\ why' = why) \/ (at' = "error" /\ why' = "locator")
      /\ left' = Front(left) \/ left' = left
      /\ woven' = << i >> \o woven \/ woven' = woven
      /\ dropped' = dropped \/ dropped' = dropped \cup {<<i, "locator_mismatch">>}
  <2>1. CASE /\ specs[i].item.at = "match"
             /\ woven' = << i >> \o woven /\ left' = Front(left) /\ UNCHANGED <<at, why, dropped>>
    BY <2>1
  <2>2. CASE /\ specs[i].item.at = "mismatch" /\ MayDrop(i)
             /\ dropped' = dropped \cup {<<i, "locator_mismatch">>} /\ left' = Front(left)
             /\ UNCHANGED <<at, why, woven>>
    BY <2>2
  <2>3. CASE Raise("locator") /\ UNCHANGED <<dropped, left, woven>>
    BY <2>3 DEF Raise
  <2> QED
    BY <1>p, <2>1, <2>2, <2>3 DEF Weave
<1>5. /\ left \in Seq(DOMAIN specs) /\ woven \in Seq(DOMAIN specs)
      /\ dropped \subseteq (DOMAIN specs) \X Reasons
  BY DEF ResolveTypeOK
<1>6. << i >> \o woven \in Seq(DOMAIN specs)
  BY <1>1, <1>5
<1>7. dropped' \subseteq (DOMAIN specs) \X Reasons
  BY <1>1, <1>4, <1>5 DEF Reasons
<1>8. ResolveTypeOK'
  BY <1>1, <1>2, <1>4, <1>5, <1>6, <1>7 DEF ResolveTypeOK
<1>9. (\A p \in Points : Resolved(p)' <=> Resolved(p)) /\ (StackOrder' <=> StackOrder)
  BY <1>1, <1>2, SameStack
<1>10. ResolveInv'
  BY <1>1, <1>3, <1>4, <1>9 DEF ResolveInv, Errors
<1> QED
  BY <1>8, <1>10

LEMMA DoneKeepsResolve ==
  ResolveTypeOK /\ ResolveInv /\ Done => ResolveTypeOK' /\ ResolveInv'
<1> SUFFICES ASSUME ResolveTypeOK, ResolveInv, Done PROVE ResolveTypeOK' /\ ResolveInv'
  OBVIOUS
<1>1. /\ at = "weave" /\ at' = "done" /\ why' = why /\ specs' = specs /\ UNCHANGED resolveVars
      /\ left' = left /\ woven' = woven /\ dropped' = dropped
  BY DEF Done, Goto, weaveVars
<1>2. /\ point' = point /\ todo' = todo /\ selected' = selected /\ stack' = stack
  BY <1>1 DEF resolveVars
<1>3. why = None /\ None \notin Errors
  BY <1>1, NoneAssumption DEF ResolveInv
<1>4. ResolveTypeOK'
  BY <1>1, <1>2 DEF ResolveTypeOK
<1>5. (\A p \in Points : Resolved(p)' <=> Resolved(p)) /\ (StackOrder' <=> StackOrder)
  BY <1>1, <1>2, SameStack
<1>6. ResolveInv'
  BY <1>1, <1>3, <1>5 DEF ResolveInv, Errors
<1> QED
  BY <1>4, <1>6

LEMMA StutterKeepsResolve ==
  ResolveTypeOK /\ ResolveInv /\ UNCHANGED vars => ResolveTypeOK' /\ ResolveInv'
<1> SUFFICES ASSUME ResolveTypeOK, ResolveInv, UNCHANGED vars PROVE ResolveTypeOK' /\ ResolveInv'
  OBVIOUS
<1>1. /\ at' = at /\ why' = why /\ specs' = specs /\ UNCHANGED resolveVars /\ point' = point
      /\ todo' = todo /\ selected' = selected /\ stack' = stack /\ left' = left /\ woven' = woven
      /\ dropped' = dropped
  BY DEF vars, resolveVars
<1>2. NothingYet' <=> NothingYet
  BY <1>1 DEF NothingYet
<1>3. ResolveTypeOK'
  BY <1>1, <1>2 DEF ResolveTypeOK
<1>4. /\ (Selecting(point)' <=> Selecting(point)) /\ (Stacking(point)' <=> Stacking(point))
      /\ (\A p \in Points : Resolved(p)' <=> Resolved(p)) /\ (StackOrder' <=> StackOrder)
      /\ \A p \in Points : PointNo(p) < PointNo(point)' <=> PointNo(p) < PointNo(point)
      /\ \A p \in Points : PointNo(p) > PointNo(point)' <=> PointNo(p) > PointNo(point)
  <2>1. PICK p : p = point
    OBVIOUS
  <2>2. /\ Selecting(p)' <=> Selecting(p)
        /\ Stacking(p)' <=> Stacking(p)
    BY <1>1, SameResolve
  <2>3. /\ Selecting(point)' <=> Selecting(p)'
        /\ Stacking(point)' <=> Stacking(p)'
    BY <1>1, <2>1 DEF Selecting, Stacking, Clashes, StrictLoses
  <2>4. (\A q \in Points : Resolved(q)' <=> Resolved(q)) /\ (StackOrder' <=> StackOrder)
    BY <1>1, SameStack
  <2> QED
    BY <1>1, <2>1, <2>2, <2>3, <2>4 DEF PointNo
<1>5. /\ Clashes(point)' <=> Clashes(point)
      /\ StrictLoses(point)' <=> StrictLoses(point)
      /\ CircularAt(point)' <=> CircularAt(point)
  <2>1. PICK p : p = point
    OBVIOUS
  <2>2. /\ Clashes(p)' <=> Clashes(p)
        /\ StrictLoses(p)' <=> StrictLoses(p)
        /\ CircularAt(p)' <=> CircularAt(p)
    BY <1>1, SameSpecs
  <2>3. /\ Clashes(point)' <=> Clashes(p)'
        /\ StrictLoses(point)' <=> StrictLoses(p)'
        /\ CircularAt(point)' <=> CircularAt(p)'
    BY <1>1, <2>1 DEF Clashes, StrictLoses, CircularAt, Survivors, Closed
  <2> QED
    BY <2>1, <2>2, <2>3
<1>6. ResolveInv'
  BY <1>1, <1>4, <1>5 DEF ResolveInv
<1> QED
  BY <1>3, <1>6

LEMMA ResolveInvInitially == Init => ResolveInv
<1> SUFFICES ASSUME Init PROVE ResolveInv
  OBVIOUS
<1>1. at = "order" /\ why = None /\ None \notin Errors /\ stack = [p \in Points |-> << >>]
  BY NoneAssumption DEF Init
<1>2. StackOrder
  BY <1>1 DEF StackOrder
<1> QED
  BY <1>1, <1>2 DEF ResolveInv, Errors

\* The call stacks, what is selected, and the errors are right in every
\* state of the resolver.
THEOREM MixinResolveCorrect == Spec => [](OrderInv /\ ResolveTypeOK /\ ResolveInv)
<1>1. Init => OrderInv /\ ResolveTypeOK /\ ResolveInv
  BY OrderInitially, ResolveInitially, ResolveInvInitially
<1>2. OrderInv /\ ResolveTypeOK /\ ResolveInv /\ OrderInv' /\ [Next]_vars => (ResolveTypeOK /\ ResolveInv)'
  <2> SUFFICES ASSUME OrderInv, ResolveTypeOK, ResolveInv, [Next]_vars
               PROVE  (ResolveTypeOK /\ ResolveInv)'
    OBVIOUS
  <2>1. CASE PopMixin \/ OrderDone \/ ChooseAdd
    BY <2>1, EarlyKeepsResolve
  <2>2. CASE Collect
    BY <2>2, CollectKeepsResolve
  <2>3. CASE SelectGroup
    BY <2>3, SelectKeepsResolve
  <2>4. CASE DropMissing
    BY <2>4, DropKeepsResolve
  <2>5. CASE BuildGraph
    BY <2>5, BuildKeepsResolve
  <2>6. CASE PopReady
    BY <2>6, PopKeepsResolve
  <2>7. CASE StackDone
    BY <2>7, StackDoneKeepsResolve
  <2>8. CASE Weave
    BY <2>8, WeaveKeepsResolve
  <2>9. CASE Done
    BY <2>9, DoneKeepsResolve
  <2>10. CASE UNCHANGED vars
    BY <2>10, StutterKeepsResolve
  <2> QED
    BY <2>1, <2>2, <2>3, <2>4, <2>5, <2>6, <2>7, <2>8, <2>9, <2>10 DEF Next
<1> QED
  BY <1>1, <1>2, MixinOrderCorrect, PTL DEF Spec

\* Dropping hooks round by round ends with the largest set of hooks that has
\* its dependencies inside: the while loop of _resolve_specs.
THEOREM DropsToLargestClosedSet == Spec => []LargestClosedSet
<1>1. ResolveInv => LargestClosedSet
  BY DEF ResolveInv, LargestClosedSet, Stacking, Resolved
<1> QED
  BY <1>1, MixinResolveCorrect, PTL

\* The call stack takes at each place the hook that is ahead of all others
\* whose dependencies are placed, with heads, invokes and tails alike.
THEOREM StackIsOrdered == Spec => []StackOrder
<1>1. ResolveInv => StackOrder
  BY DEF ResolveInv
<1> QED
  BY <1>1, MixinResolveCorrect, PTL

-----------------------------------------------------------------------------
(* Every hook is accounted for.                                              *)

LEMMA YieldsToFacts ==
  ASSUME NEW i, NEW S, NEW T, S \subseteq T, YieldsTo(i, S)
  PROVE  YieldsTo(i, T)
BY DEF YieldsTo

\* A step that loses no spec, and drops each once, keeps the account.
LEMMA AccountStep ==
  ASSUME specs' = specs, AccountInv, at \in {"select", "stack", "weave", "done"},
         NEW L, L = Live', NEW G, G = Gone',
         Live \cup Gone \subseteq L \cup G,
         \A i \in DOMAIN specs : Decided(i)' => Decided(i) \/ i \in L \cup G \/ YieldsTo(i, L \cup G),
         \A i \in G : i \notin L /\ Decided(i)',
         \A r, s \in dropped' : r[1] = s[1] => r = s
  PROVE  AccountInv'
<1>1. PICK A : A = Live \cup Gone
  OBVIOUS
<1>2. \A i \in DOMAIN specs : Decided(i) => i \in A \/ YieldsTo(i, A)
  BY <1>1 DEF AccountInv
<1>3. \A i \in DOMAIN specs : Decided(i)' => i \in L \cup G \/ YieldsTo(i, L \cup G)
  <2>1. A \subseteq L \cup G
    BY <1>1
  <2> QED
    BY <1>2, <2>1, YieldsToFacts
<1>4. \A i : YieldsTo(i, Live \cup Gone)' <=> YieldsTo(i, L \cup G)
  BY SameSpecs DEF YieldsTo
<1> QED
  BY <1>3, <1>4 DEF AccountInv

\* Specs that were not dropped yet are dropped for one reason.
LEMMA DropOnce ==
  ASSUME \A r, s \in dropped : r[1] = s[1] => r = s, NEW S, S \cap Gone = {}, NEW x,
         dropped' = dropped \cup (S \X {x})
  PROVE  Gone' = Gone \cup S /\ \A r, s \in dropped' : r[1] = s[1] => r = s
<1>1. \A r \in S \X {x} : r[1] \in S /\ r = <<r[1], x>>
  OBVIOUS
<1>2. \A r \in dropped : r[1] \in Gone /\ r[1] \notin S
  BY DEF Gone
<1>3. Gone' = Gone \cup S
  <2>1. Gone' = {r[1] : r \in dropped \cup (S \X {x})}
    BY DEF Gone
  <2>2. {r[1] : r \in dropped \cup (S \X {x})} = {r[1] : r \in dropped} \cup {r[1] : r \in S \X {x}}
    OBVIOUS
  <2>3. {r[1] : r \in S \X {x}} = S
    <3>1. PICK X : X = S \X {x}
      OBVIOUS
    <3>2. \A r \in X : r[1] \in S
      BY <1>1, <3>1
    <3>3. \A i \in S : \E r \in X : r[1] = i
      <4>1. \A i \in S : <<i, x>> \in X /\ <<i, x>>[1] = i
        BY <3>1
      <4> QED
        BY <4>1
    <3>4. {r[1] : r \in X} = S
      BY <3>2, <3>3
    <3> QED
      BY <3>1, <3>4
  <2> QED
    BY <2>1, <2>2, <2>3 DEF Gone
<1>4. \A r, s \in dropped' : r[1] = s[1] => r = s
  BY <1>1, <1>2
<1> QED
  BY <1>3, <1>4


\* The specs on the call stack of a point are its survivors, each once.
LEMMA StackedAtPoint ==
  ASSUME ResolveTypeOK, StackOrder, NEW q \in Points
  PROVE  /\ Range(stack[q]) \subseteq Closed(q) /\ Closed(q) \subseteq Survivors(q)
         /\ Survivors(q) \subseteq DOMAIN specs /\ \A i \in Survivors(q) : specs[i].item.point = q
         /\ \A m, n \in DOMAIN stack[q] : stack[q][m] = stack[q][n] => m = n
<1>1. StackOrderOf(q, stack[q]) /\ stack[q] \in Seq(DOMAIN specs)
  BY StackOrderByPoint DEF ResolveTypeOK
<1>2. /\ Range(stack[q]) \subseteq Closed(q)
      /\ \A m, n \in DOMAIN stack[q] : stack[q][m] = stack[q][n] => m = n
  BY <1>1, StackOrderFacts
<1>3. Survivors(q) \subseteq DOMAIN specs /\ \A i \in Survivors(q) : specs[i].item.point = q
  BY DEF Survivors
<1> QED
  BY <1>2, <1>3, ClosedFacts

\* What is said of a group's members before they are looked at.
LEMMA GroupIsNew ==
  ASSUME OrderInv, ResolveTypeOK, ResolveInv, AccountInv, at = "select", todo # << >>,
         NEW i \in Group
  PROVE  i \notin Live /\ i \notin Gone /\ ~Decided(i)
<1>1. Selecting(point) /\ StackOrder /\ point \in Points
  BY DEF ResolveInv, OrderInv, OrderTypeOK
<1>2. specs[i].item.point = point /\ specs[i].id = Head(todo) /\ i \in DOMAIN specs
  BY DEF Group
<1>3. ~Processed(i)
  <2>1. todo \in Seq(Ids \cup DefaultIds)
    BY DEF ResolveTypeOK
  <2>2. 1 \in DOMAIN todo /\ todo[1] = Head(todo)
    BY <2>1
  <2> QED
    BY <1>2, <2>2 DEF Processed
<1>4. ~(PointNo(point) < PointNo(point))
  BY <1>1 DEF PointNo, Points
<1>5. ~Decided(i)
  BY <1>2, <1>3, <1>4 DEF Decided
<1>6. i \notin Gone
  BY <1>5 DEF AccountInv
<1>7. i \notin Range(selected)
  BY <1>1, <1>3 DEF Selecting, Range
<1>8. ASSUME NEW q \in Points PROVE i \notin Range(stack[q])
  <2>1. CASE q = point
    BY <1>1, <2>1 DEF Selecting, Range
  <2>2. CASE q # point
    <3>1. \A j \in Range(stack[q]) : specs[j].item.point = q
      BY <1>1, StackedAtPoint
    <3> QED
      BY <1>2, <2>2, <3>1
  <2> QED
    BY <2>1, <2>2
<1>9. i \notin Live
  BY <1>7, <1>8 DEF Live
<1> QED
  BY <1>5, <1>6, <1>9

\* A group that is looked at is selected, dropped, or yields.
LEMMA SelectKeepsAccount ==
  OrderInv /\ ResolveTypeOK /\ ResolveInv /\ AccountInv /\ SelectGroup => AccountInv'
<1> SUFFICES ASSUME OrderInv, ResolveTypeOK, ResolveInv, AccountInv, SelectGroup
             PROVE  AccountInv'
  OBVIOUS
<1>p. PICK L, G, L2, G2 : L = Live /\ G = Gone /\ L2 = Live' /\ G2 = Gone'
  OBVIOUS
<1>1. /\ at = "select" /\ todo # << >> /\ todo' = Tail(todo)
      /\ specs' = specs /\ point' = point /\ stack' = stack
  BY DEF SelectGroup
<1>2. Selecting(point) /\ point \in Points
  BY <1>1 DEF ResolveInv, OrderInv, OrderTypeOK
<1>3. /\ Group \subseteq DOMAIN specs /\ specs \in Seq(HookSpec) /\ selected \in Seq(DOMAIN specs)
      /\ \A i \in Group : Group = Rivals(i) \cup {i} /\ i \notin Rivals(i)
      /\ \A i : i \in Group <=> i \in DOMAIN specs /\ specs[i].item.point = point /\ specs[i].id = Head(todo)
  <2>1. \A i \in Group : Group = Rivals(i) \cup {i} /\ i \notin Rivals(i)
    BY <1>1, <1>2, GroupFacts
  <2> QED
    BY <2>1 DEF Group, ResolveTypeOK
<1>4. \A i \in Group : i \notin L /\ i \notin G
  BY <1>1, <1>p, GroupIsNew
<1>5. CASE at' = "error"
  BY <1>5 DEF AccountInv
<1>6. CASE at' = at
  <2>1. \A i \in DOMAIN specs : Decided(i)' <=> Decided(i) \/ i \in Group
    <3> SUFFICES ASSUME NEW i \in DOMAIN specs PROVE Decided(i)' <=> Decided(i) \/ i \in Group
      OBVIOUS
    <3>1. Processed(i)' <=> Processed(i) \/ specs[i].id = Head(todo)
      BY <1>1, <1>2, GroupFacts DEF Processed
    <3>2. /\ Decided(i) <=> \/ PointNo(specs[i].item.point) < PointNo(point)
                            \/ specs[i].item.point = point /\ Processed(i)
          /\ Decided(i)' <=> \/ PointNo(specs[i].item.point) < PointNo(point)
                             \/ specs[i].item.point = point /\ Processed(i)'
      BY <1>1, <1>6 DEF Decided, PointNo
    <3> QED
      BY <1>3, <3>1, <3>2
  <2>2. /\ \A i \in G : i \notin L /\ Decided(i) /\ i \in DOMAIN specs
        /\ \A r, s \in dropped : r[1] = s[1] => r = s
    BY <1>1, <1>p DEF AccountInv, Gone, ResolveTypeOK
  <2>3. L2 = Range(selected') \cup UNION {Range(stack[q]) : q \in Points}
    BY <1>1, <1>6, <1>p DEF Live
  <2>4. L = Range(selected) \cup UNION {Range(stack[q]) : q \in Points}
    BY <1>1, <1>p DEF Live
  <2>5. CASE /\ dropped' = dropped
             /\ \E w \in Group : /\ selected' = Append(selected, w)
                                 /\ \A i \in Group : i = w \/ YieldsTo(i, {w})
    <3>1. PICK w \in Group : /\ selected' = Append(selected, w)
                             /\ \A i \in Group : i = w \/ YieldsTo(i, {w})
      BY <2>5
    <3>2. Range(selected') = Range(selected) \cup {w}
      BY <1>3, <3>1, AppendRange
    <3>3. L2 = L \cup {w} /\ G2 = G
      BY <1>p, <2>3, <2>4, <2>5, <3>2 DEF Gone
    <3>4. \A i \in Group : i \in L2 \cup G2 \/ YieldsTo(i, L2 \cup G2)
      BY <3>1, <3>3, YieldsToFacts
    <3>5. \A i \in DOMAIN specs : Decided(i)' => Decided(i) \/ i \in L2 \cup G2 \/ YieldsTo(i, L2 \cup G2)
      BY <2>1, <3>4
    <3>6. \A i \in G2 : i \notin L2 /\ Decided(i)'
      BY <1>4, <2>1, <2>2, <3>3
    <3>7. L \cup G \subseteq L2 \cup G2 /\ \A r, s \in dropped' : r[1] = s[1] => r = s
      BY <2>2, <2>5, <3>3
    <3> QED
      BY <1>1, <1>p, <3>5, <3>6, <3>7, AccountStep
  <2>6. CASE selected' = selected /\ dropped' = dropped \cup (Group \X {"duplicate_drop"})
    <3>1. Group \cap Gone = {}
      BY <1>4, <1>p
    <3>2. G2 = G \cup Group /\ \A r, s \in dropped' : r[1] = s[1] => r = s
      BY <1>p, <2>2, <2>6, <3>1, DropOnce
    <3>3. L2 = L
      BY <2>3, <2>4, <2>6
    <3>4. \A i \in DOMAIN specs : Decided(i)' => Decided(i) \/ i \in L2 \cup G2 \/ YieldsTo(i, L2 \cup G2)
      BY <2>1, <3>2
    <3>5. \A i \in G2 : i \notin L2 /\ Decided(i)'
      BY <1>3, <1>4, <2>1, <2>2, <3>2, <3>3
    <3>6. L \cup G \subseteq L2 \cup G2
      BY <3>2, <3>3
    <3> QED
      BY <1>1, <1>p, <3>2, <3>4, <3>5, <3>6, AccountStep
  <2>7. CASE /\ \E i \in Group : Group = {i} /\ selected' = Append(selected, i)
             /\ UNCHANGED <<at, why, dropped>>
    BY <2>5, <2>7
  <2>8. CASE /\ Cardinality(Group) > 1 /\ \A i \in Group : specs[i].item.policy # "error"
             /\ selected' = IF Preferring = {} THEN selected
                                               ELSE Append(selected, Foremost(Preferring))
             /\ dropped' = IF Preferring = {} THEN dropped \cup (Group \X {"duplicate_drop"})
                                              ELSE dropped
    <3>1. CASE Preferring = {}
      BY <2>6, <2>8, <3>1
    <3>2. CASE Preferring # {}
      <4>1. PICK w : w = Foremost(Preferring)
        OBVIOUS
      <4>2. \A i : i \in Preferring <=> i \in Group /\ specs[i].item.policy = "prefer"
        BY DEF Preferring
      <4>3. w \in Preferring /\ \A j \in Preferring : w = j \/ Precedes(w, j)
        <5>1. Preferring \subseteq DOMAIN specs
          BY <1>3, <4>2
        <5> QED
          BY <1>3, <3>2, <4>1, <5>1, ForemostFacts
      <4>4. \A i \in Group : specs[i].item.policy \in {"prefer", "drop"}
        <5>1. \A i \in DOMAIN specs : specs[i].item.policy \in Policies
          BY <1>3, SpecFacts
        <5> QED
          BY <1>3, <2>8, <5>1 DEF Policies
      <4>5. ASSUME NEW i \in Group, i # w PROVE YieldsTo(i, {w})
        <5>1. w \in Rivals(i) /\ specs[w].item.policy = "prefer"
          BY <1>3, <4>2, <4>3, <4>5
        <5>2. specs[i].item.policy = "drop" \/ Precedes(w, i)
          BY <4>2, <4>3, <4>4, <4>5
        <5> QED
          BY <5>1, <5>2 DEF YieldsTo
      <4>6. w \in Group /\ selected' = Append(selected, w) /\ dropped' = dropped
        BY <2>8, <3>2, <4>1, <4>2, <4>3
      <4> QED
        BY <2>5, <4>5, <4>6
    <3> QED
      BY <3>1, <3>2
  <2> QED
    BY <1>1, <1>6, <2>7, <2>8 DEF SelectGroup, Raise
<1> QED
  BY <1>5, <1>6 DEF SelectGroup, Raise

\* What a round of the while loop drops was selected and is on no stack.
LEMMA DropKeepsAccount ==
  OrderInv /\ ResolveTypeOK /\ ResolveInv /\ AccountInv /\ DropMissing => AccountInv'
<1> SUFFICES ASSUME OrderInv, ResolveTypeOK, ResolveInv, AccountInv, DropMissing
             PROVE  AccountInv'
  OBVIOUS
<1>p. PICK p, L, G, L2, G2, out :
        /\ p = point /\ L = Live /\ G = Gone /\ L2 = Live' /\ G2 = Gone'
        /\ out = {i \in Range(selected) : Missing(i) # {}}
  OBVIOUS
<1>1. /\ at = "select" /\ todo = << >> /\ todo' = << >>
      /\ specs' = specs /\ point' = point /\ stack' = stack
  BY DEF DropMissing
<1>2. Selecting(point) /\ point \in Points /\ StackOrder
  BY <1>1 DEF ResolveInv, OrderInv, OrderTypeOK
<1>3. selected \in Seq(DOMAIN specs)
  BY DEF ResolveTypeOK
<1>4. CASE at' = "error"
  BY <1>4 DEF AccountInv
<1>5. CASE at' = at /\ selected' = Kept(out) /\ dropped' = dropped \cup (out \X {"unknown_dependency"})
  <2>1. Range(selected') = Range(selected) \ out /\ out \subseteq Range(selected)
    BY <1>3, <1>5, <1>p, KeptFacts
  <2>2. L = Range(selected) \cup UNION {Range(stack[q]) : q \in Points}
    BY <1>1, <1>p DEF Live
  <2>3. L2 = Range(selected') \cup UNION {Range(stack[q]) : q \in Points}
    BY <1>1, <1>5, <1>p DEF Live
  <2>4. ASSUME NEW i \in out, NEW q \in Points PROVE i \notin Range(stack[q])
    <3>1. i \in Survivors(p)
      BY <1>1, <1>2, <1>p, <2>1, AllProcessed
    <3>2. CASE q = p
      BY <1>2, <1>p, <3>2 DEF Selecting, Range
    <3>3. CASE q # p
      BY <1>2, <1>p, <3>1, <3>3, StackedAtPoint
    <3> QED
      BY <3>2, <3>3
  <2>5. L2 = L \ out /\ out \subseteq L
    BY <2>1, <2>2, <2>3, <2>4
  <2>6. /\ \A i \in G : i \notin L /\ Decided(i)
        /\ \A r, s \in dropped : r[1] = s[1] => r = s
    BY <1>1, <1>p DEF AccountInv
  <2>7. out \cap Gone = {}
    BY <1>p, <2>5, <2>6
  <2>8. G2 = G \cup out /\ \A r, s \in dropped' : r[1] = s[1] => r = s
    BY <1>5, <1>p, <2>6, <2>7, DropOnce
  <2>9. \A i : Decided(i)' <=> Decided(i)
    BY <1>1, <1>5 DEF Decided, Processed, PointNo
  <2>10. \A i \in out : Decided(i)
    <3>1. \A i : Processed(i)
      BY <1>1 DEF Processed
    <3>2. \A i \in out : i \in Survivors(p)
      BY <1>1, <1>2, <1>p, <2>1, AllProcessed
    <3> QED
      BY <1>p, <3>1, <3>2 DEF Decided, Survivors
  <2>11. \A i \in G2 : i \notin L2 /\ Decided(i)'
    BY <2>5, <2>6, <2>8, <2>9, <2>10
  <2>12. L \cup G \subseteq L2 \cup G2
    BY <2>5, <2>8
  <2> QED
    BY <1>1, <1>p, <2>8, <2>9, <2>11, <2>12, AccountStep
<1> QED
  BY <1>4, <1>5, <1>p DEF DropMissing, Raise

\* When the specs stay where they are.
LEMMA SameAccount ==
  ASSUME specs' = specs, AccountInv, at \in {"select", "stack", "weave", "done"},
         dropped' = dropped, Live' = Live, \A i \in DOMAIN specs : Decided(i)' <=> Decided(i),
         dropped \subseteq (DOMAIN specs) \X Reasons
  PROVE  AccountInv'
<1>p. PICK L, G : L = Live /\ G = Gone
  OBVIOUS
<1>1. L = Live' /\ G = Gone' /\ Live \cup Gone \subseteq L \cup G
  BY <1>p DEF Gone
<1>2. G \subseteq DOMAIN specs /\ \A i \in G : i \notin L /\ Decided(i)
  BY <1>p DEF AccountInv, Gone
<1>3. \A r, s \in dropped' : r[1] = s[1] => r = s
  BY DEF AccountInv
<1> QED
  BY <1>1, <1>2, <1>3, AccountStep

LEMMA BuildKeepsAccount ==
  OrderInv /\ ResolveTypeOK /\ ResolveInv /\ AccountInv /\ BuildGraph => AccountInv'
<1> SUFFICES ASSUME OrderInv, ResolveTypeOK, ResolveInv, AccountInv, BuildGraph
             PROVE  AccountInv'
  OBVIOUS
<1>1. /\ at = "select" /\ todo = << >> /\ at' = "stack" /\ specs' = specs /\ point' = point
      /\ stack' = stack /\ selected' = selected /\ dropped' = dropped /\ todo' = todo
  BY DEF BuildGraph, Goto
<1>2. Live' = Live
  BY <1>1 DEF Live
<1>3. \A i : Processed(i)
  BY <1>1 DEF Processed
<1>4. \A i \in DOMAIN specs : Decided(i)' <=> Decided(i)
  BY <1>1, <1>3 DEF Decided, PointNo
<1> QED
  BY <1>1, <1>2, <1>4, SameAccount DEF ResolveTypeOK

LEMMA PopKeepsAccount ==
  OrderInv /\ ResolveTypeOK /\ ResolveInv /\ AccountInv /\ PopReady => AccountInv'
<1> SUFFICES ASSUME OrderInv, ResolveTypeOK, ResolveInv, AccountInv, PopReady
             PROVE  AccountInv'
  OBVIOUS
<1>p. PICK p, w : p = point /\ w = Soonest(Ready)
  OBVIOUS
<1>1. /\ at = "stack" /\ at' = at /\ specs' = specs /\ point' = point /\ Ready # {}
      /\ selected' = selected /\ dropped' = dropped /\ todo' = todo
      /\ stack' = [stack EXCEPT ![p] = Append(@, w)]
  BY <1>p DEF PopReady
<1>2. Stacking(point) /\ StackOrder /\ point \in Points
  BY <1>1 DEF ResolveInv, OrderInv, OrderTypeOK
<1>3. w \in Range(selected) /\ w \in DOMAIN specs
  BY <1>1, <1>2, <1>p, ReadyFacts
<1>4. stack \in [Points -> Seq(DOMAIN specs)] /\ p \in Points
  BY <1>2, <1>p DEF ResolveTypeOK
<1>5. Range(stack'[p]) = Range(stack[p]) \cup {w} /\ \A q \in Points \ {p} : stack'[q] = stack[q]
  <2>1. PICK s, T : s = stack[p] /\ T = DOMAIN specs
    OBVIOUS
  <2>2. s \in Seq(T) /\ w \in T /\ stack'[p] = Append(s, w)
    BY <1>1, <1>3, <1>4, <2>1
  <2> QED
    BY <1>1, <1>4, <2>1, <2>2, AppendRange
<1>6. Live' = Live
  <2>1. Live = Range(selected) \cup UNION {Range(stack[q]) : q \in Points}
    BY <1>1 DEF Live
  <2>2. Live' = Range(selected) \cup UNION {Range(stack'[q]) : q \in Points}
    BY <1>1 DEF Live
  <2>3. \A x : x \in Live <=> x \in Range(selected) \/ \E q \in Points : x \in Range(stack[q])
    BY <2>1
  <2>4. \A x : x \in Live' <=> x \in Range(selected) \/ \E q \in Points : x \in Range(stack'[q])
    BY <2>2
  <2>5. \A x : (\E q \in Points : x \in Range(stack'[q])) <=>
                 x = w \/ \E q \in Points : x \in Range(stack[q])
    BY <1>4, <1>5
  <2>6. \A x : x \in Live' <=> x \in Live
    BY <1>3, <2>3, <2>4, <2>5
  <2> QED
    BY <2>6
<1>7. \A i \in DOMAIN specs : Decided(i)' <=> Decided(i)
  BY <1>1 DEF Decided, Processed, PointNo
<1> QED
  BY <1>1, <1>6, <1>7, SameAccount DEF ResolveTypeOK

-----------------------------------------------------------------------------
(* The outer stack.                                                          *)

\* The place in the outer stack of the k-th spec on the call stack of q.
Place(q, k) == CASE q = "head" -> k
                 [] q = "invoke" -> Len(stack["head"]) + k
                 [] q = "tail" -> Len(OuterStack(stack)) + 1 - k

LEMMA ReverseFacts ==
  ASSUME NEW T, NEW s, s \in Seq(T)
  PROVE  /\ Reverse(s) \in Seq(T) /\ Len(Reverse(s)) = Len(s) /\ Len(s) \in Nat
         /\ \A n \in 1..Len(s) : Reverse(s)[n] = s[Len(s) - n + 1]
<1>1. PICK N, r : N = Len(s) /\ r = Reverse(s)
  OBVIOUS
<1>2. N \in Nat /\ r = [n \in 1..N |-> s[(N - n) + 1]]
  BY <1>1 DEF Reverse
<1>3. \A n \in 1..N : (N - n) + 1 \in 1..N /\ s[(N - n) + 1] \in T
  BY <1>1, <1>2
<1>4. r \in [1..N -> T]
  BY <1>2, <1>3
<1>5. r \in Seq(T) /\ Len(r) = N
  BY <1>2, <1>4, FunctionIsSeq
<1> QED
  BY <1>1, <1>2, <1>5

\* Each place of the outer stack is the place of a spec on a call stack.
LEMMA OuterFacts ==
  ASSUME ResolveTypeOK
  PROVE  /\ OuterStack(stack) \in Seq(DOMAIN specs) /\ Len(OuterStack(stack)) \in Nat
         /\ \A q \in Points : \A k \in DOMAIN stack[q] :
              /\ Place(q, k) \in 1..Len(OuterStack(stack))
              /\ OuterStack(stack)[Place(q, k)] = stack[q][k]
         /\ \A n \in 1..Len(OuterStack(stack)) : \E q \in Points : \E k \in DOMAIN stack[q] : n = Place(q, k)
         /\ \A q, r \in Points : \A k \in DOMAIN stack[q], l \in DOMAIN stack[r] :
              PointNo(q) < PointNo(r) => Place(q, k) < Place(r, l)
         /\ \A q \in Points : \A k, l \in DOMAIN stack[q] :
              k < l => IF q = "tail" THEN Place(q, k) > Place(q, l) ELSE Place(q, k) < Place(q, l)
<1>1. PICK T, h, i, t, r : /\ T = DOMAIN specs /\ h = stack["head"] /\ i = stack["invoke"]
                           /\ t = stack["tail"] /\ r = Reverse(t)
  OBVIOUS
<1>2. h \in Seq(T) /\ i \in Seq(T) /\ t \in Seq(T)
  BY <1>1 DEF ResolveTypeOK, Points
<1>3. PICK H, I, R : H = Len(h) /\ I = Len(i) /\ R = Len(t)
  OBVIOUS
<1>4. /\ H \in Nat /\ I \in Nat /\ R \in Nat
      /\ DOMAIN h = 1..H /\ DOMAIN i = 1..I /\ DOMAIN t = 1..R
  BY <1>2, <1>3
<1>5. r \in Seq(T) /\ Len(r) = R /\ \A n \in 1..R : r[n] = t[R - n + 1]
  BY <1>1, <1>2, <1>3, ReverseFacts
<1>6. PICK hi, O : hi = h \o i /\ O = OuterStack(stack)
  OBVIOUS
<1>7. /\ hi \in Seq(T) /\ Len(hi) = H + I
      /\ \A n \in 1..H : hi[n] = h[n]
      /\ \A n \in 1..I : hi[H + n] = i[n]
  <2>1. hi \in Seq(T)
    BY <1>2, <1>6
  <2> QED
    BY <1>2, <1>3, <1>6, <2>1, ConcatAt
<1>8. O = hi \o r
  BY <1>1, <1>6 DEF OuterStack
<1>9. /\ O \in Seq(T) /\ Len(O) = H + I + R
      /\ \A n \in 1..H + I : O[n] = hi[n]
      /\ \A n \in 1..R : O[H + I + n] = r[n]
  <2>1. O \in Seq(T)
    BY <1>5, <1>7, <1>8
  <2>2. /\ Len(hi \o r) = Len(hi) + Len(r)
        /\ \A n \in 1..Len(hi) : (hi \o r)[n] = hi[n]
        /\ \A n \in 1..Len(r) : (hi \o r)[Len(hi) + n] = r[n]
    <3>1. hi \in Seq(T) /\ r \in Seq(T)
      BY <1>5, <1>7
    <3> QED
      BY ONLY <3>1, ConcatAt
  <2> QED
    BY <1>5, <1>7, <1>8, <2>1, <2>2
<1>10. /\ \A k \in 1..H : O[k] = h[k]
       /\ \A k \in 1..I : O[H + k] = i[k]
       /\ \A k \in 1..R : O[(H + I + R) + 1 - k] = t[k]
  <2>1. \A k \in 1..H : k \in 1..H + I
    BY <1>4
  <2>2. \A k \in 1..I : H + k \in 1..H + I
    BY <1>4
  <2>3. ASSUME NEW k \in 1..R PROVE O[(H + I + R) + 1 - k] = t[k]
    <3>1. PICK n \in 1..R : n = R + 1 - k
      BY <1>4
    <3>2. R - n + 1 = k /\ H + I + n = (H + I + R) + 1 - k
      BY <1>4, <3>1
    <3>3. O[H + I + n] = t[R - n + 1]
      BY <1>5, <1>9, <3>1
    <3> QED
      BY <3>2, <3>3
  <2> QED
    BY <1>7, <1>9, <2>1, <2>2, <2>3
<1>11. /\ \A k : Place("head", k) = k
       /\ \A k : Place("invoke", k) = H + k
       /\ \A k : Place("tail", k) = (H + I + R) + 1 - k
  BY <1>1, <1>3, <1>6, <1>9 DEF Place
<1>12. Points = {"head", "invoke", "tail"} /\ PointNo("head") = 1 /\ PointNo("invoke") = 2 /\ PointNo("tail") = 3
  BY DEF Points, PointNo
<1>13. ASSUME NEW q \in Points, NEW k \in DOMAIN stack[q]
       PROVE  Place(q, k) \in 1..Len(O) /\ O[Place(q, k)] = stack[q][k]
  <2>1. CASE q = "head"
    BY <1>1, <1>4, <1>9, <1>10, <1>11, <2>1
  <2>2. CASE q = "invoke"
    BY <1>1, <1>4, <1>9, <1>10, <1>11, <2>2
  <2>3. CASE q = "tail"
    BY <1>1, <1>4, <1>9, <1>10, <1>11, <2>3
  <2> QED
    BY <1>12, <2>1, <2>2, <2>3
<1>14. ASSUME NEW n \in 1..Len(O)
       PROVE  \E q \in Points : \E k \in DOMAIN stack[q] : n = Place(q, k)
  <2>0. n \in 1..(H + I + R)
    BY <1>9
  <2>1. CASE n <= H
    <3>1. n \in DOMAIN stack["head"]
      BY <1>1, <1>4, <2>0, <2>1
    <3> QED
      BY <1>11, <1>12, <3>1
  <2>2. CASE H < n /\ n <= H + I
    <3>1. n - H \in DOMAIN stack["invoke"] /\ n = H + (n - H)
      BY <1>1, <1>4, <2>0, <2>2
    <3> QED
      BY <1>11, <1>12, <3>1
  <2>3. CASE H + I < n
    <3>1. PICK k : k = (H + I + R) + 1 - n
      OBVIOUS
    <3>2. k \in DOMAIN stack["tail"] /\ n = (H + I + R) + 1 - k
      BY <1>1, <1>4, <2>0, <2>3, <3>1
    <3> QED
      BY <1>11, <1>12, <3>2
  <2> QED
    BY <1>4, <2>0, <2>1, <2>2, <2>3
<1>15. \A q, r1 \in Points : \A k \in DOMAIN stack[q], l \in DOMAIN stack[r1] :
         PointNo(q) < PointNo(r1) => Place(q, k) < Place(r1, l)
  <2>1. \A k \in DOMAIN stack["head"], l \in DOMAIN stack["invoke"] : Place("head", k) < Place("invoke", l)
    BY <1>1, <1>4, <1>11
  <2>2. \A k \in DOMAIN stack["head"], l \in DOMAIN stack["tail"] : Place("head", k) < Place("tail", l)
    BY <1>1, <1>4, <1>11
  <2>3. \A k \in DOMAIN stack["invoke"], l \in DOMAIN stack["tail"] : Place("invoke", k) < Place("tail", l)
    BY <1>1, <1>4, <1>11
  <2> QED
    BY <1>12, <2>1, <2>2, <2>3
<1>16. \A q \in Points : \A k, l \in DOMAIN stack[q] :
         k < l => IF q = "tail" THEN Place(q, k) > Place(q, l) ELSE Place(q, k) < Place(q, l)
  <2>1. \A k, l \in DOMAIN stack["head"] : k < l => Place("head", k) < Place("head", l)
    BY <1>1, <1>4, <1>11
  <2>2. \A k, l \in DOMAIN stack["invoke"] : k < l => Place("invoke", k) < Place("invoke", l)
    BY <1>1, <1>4, <1>11
  <2>3. \A k, l \in DOMAIN stack["tail"] : k < l => Place("tail", k) > Place("tail", l)
    BY <1>1, <1>4, <1>11
  <2> QED
    BY <1>12, <2>1, <2>2, <2>3
<1>17. O \in Seq(DOMAIN specs) /\ Len(O) \in Nat
  BY <1>1, <1>4, <1>9
<1> QED
  BY <1>6, <1>13, <1>14, <1>15, <1>16, <1>17

\* A spec is on one call stack and there once: so it is in the outer stack.
LEMMA OuterInjective ==
  ASSUME ResolveTypeOK, StackOrder
  PROVE  \A m, n \in 1..Len(OuterStack(stack)) :
           OuterStack(stack)[m] = OuterStack(stack)[n] => m = n
<1>1. PICK O : O = OuterStack(stack)
  OBVIOUS
<1> SUFFICES ASSUME NEW m \in 1..Len(O), NEW n \in 1..Len(O), O[m] = O[n]
             PROVE  m = n
  BY <1>1
<1>2. PICK q \in Points : \E k \in DOMAIN stack[q] : m = Place(q, k)
  BY <1>1, OuterFacts
<1>3. PICK k \in DOMAIN stack[q] : m = Place(q, k)
  BY <1>2
<1>4. PICK r \in Points : \E l \in DOMAIN stack[r] : n = Place(r, l)
  BY <1>1, OuterFacts
<1>5. PICK l \in DOMAIN stack[r] : n = Place(r, l)
  BY <1>4
<1>6. stack[q][k] = O[m] /\ stack[r][l] = O[n]
  BY <1>1, <1>3, <1>5, OuterFacts
<1>7. stack[q][k] \in Range(stack[q]) /\ stack[r][l] \in Range(stack[r])
  BY DEF Range
<1>8. q = r
  <2>1. specs[stack[q][k]].item.point = q
    BY <1>7, StackedAtPoint
  <2>2. specs[stack[r][l]].item.point = r
    BY <1>7, StackedAtPoint
  <2> QED
    BY <1>6, <2>1, <2>2
<1>9. k = l
  BY <1>6, <1>8, StackedAtPoint
<1> QED
  BY <1>3, <1>5, <1>8, <1>9

\* The outer stack holds what the call stacks hold.
LEMMA OuterRange ==
  ASSUME ResolveTypeOK
  PROVE  Range(OuterStack(stack)) = UNION {Range(stack[q]) : q \in Points}
<1>1. PICK O : O = OuterStack(stack)
  OBVIOUS
<1>2. DOMAIN O = 1..Len(O)
  BY <1>1, OuterFacts
<1>3. ASSUME NEW n \in 1..Len(O) PROVE \E q \in Points : O[n] \in Range(stack[q])
  <2>1. PICK q \in Points : \E k \in DOMAIN stack[q] : n = Place(q, k)
    BY <1>1, OuterFacts
  <2>2. PICK k \in DOMAIN stack[q] : n = Place(q, k)
    BY <2>1
  <2>3. O[n] = stack[q][k]
    BY <1>1, <2>2, OuterFacts
  <2> QED
    BY <2>3 DEF Range
<1>4. ASSUME NEW q \in Points, NEW k \in DOMAIN stack[q] PROVE \E n \in 1..Len(O) : O[n] = stack[q][k]
  BY <1>1, OuterFacts
<1>5. \A x : x \in Range(O) <=> \E n \in 1..Len(O) : x = O[n]
  BY <1>2 DEF Range
<1>6. \A q, x : x \in Range(stack[q]) <=> \E k \in DOMAIN stack[q] : x = stack[q][k]
  BY DEF Range
<1>7. \A x \in Range(O) : \E q \in Points : x \in Range(stack[q])
  BY <1>3, <1>5
<1>8. \A q \in Points : \A x \in Range(stack[q]) : x \in Range(O)
  BY <1>4, <1>5, <1>6
<1> QED
  BY <1>1, <1>7, <1>8

-----------------------------------------------------------------------------
(* Where the woven specs are in the outer stack.                             *)

LEMMA OuterOf ==
  ASSUME stack' = stack
  PROVE  OuterStack(stack)' = OuterStack(stack)
BY DEF OuterStack, Reverse

\* A woven spec comes before those woven earlier and after those left.
LEMMA WeaveKeepsWeave ==
  ResolveTypeOK /\ ResolveTypeOK' /\ WeaveInv /\ Weave => WeaveInv'
<1> SUFFICES ASSUME ResolveTypeOK, ResolveTypeOK', WeaveInv, Weave PROVE WeaveInv'
  OBVIOUS
<1>p. PICK i, O, K, W, T : /\ i = Last(left) /\ O = OuterStack(stack) /\ K = Len(left) /\ W = Len(woven)
                           /\ T = DOMAIN specs
  OBVIOUS
<1>1. /\ at = "weave" /\ specs' = specs /\ stack' = stack /\ UNCHANGED resolveVars
      /\ K \in Nat /\ K > 0 /\ i = left[K] /\ i \in T
      /\ Len(Front(left)) = K - 1
      /\ \A n \in 1..K - 1 : Front(left)[n] = left[n]
  BY <1>p, WeaveFacts DEF resolveVars
<1>2. /\ K <= Len(O) /\ \A n \in 1..K : left[n] = O[n]
      /\ \E e \in [1..W -> 1..Len(O)] : WovenAt(e)
  BY <1>1, <1>p DEF WeaveInv
<1>3. PICK e \in [1..W -> 1..Len(O)] : WovenAt(e)
  BY <1>2
<1>4. /\ e \in [1..W -> K + 1..Len(O)]
      /\ \A m, n \in 1..W : m < n => e[m] < e[n]
      /\ \A n \in 1..W : O[e[n]] = woven[n]
  BY <1>3, <1>p DEF WovenAt
<1>5. /\ woven \in Seq(T) /\ W \in Nat /\ Len(O) \in Nat /\ O \in Seq(T)
  BY <1>p, OuterFacts DEF ResolveTypeOK
<1>6. i = O[K] /\ K \in 1..Len(O)
  BY <1>1, <1>2, <1>5
<1>7. OuterStack(stack)' = O
  BY <1>1, <1>p, OuterOf
<1>8. CASE at' = at /\ left' = Front(left) /\ woven' = << i >> \o woven
  <2>1. PICK w2, l2 : w2 = woven' /\ l2 = left'
    OBVIOUS
  <2>2. /\ Len(w2) = W + 1 /\ w2[1] = i /\ \A n \in 1..W : w2[n + 1] = woven[n]
    <3>1. << i >> \in Seq(T) /\ Len(<< i >>) = 1 /\ << i >>[1] = i
      BY <1>1
    <3>2. /\ Len(<< i >> \o woven) = Len(<< i >>) + Len(woven)
          /\ \A n \in 1..Len(<< i >>) : (<< i >> \o woven)[n] = << i >>[n]
          /\ \A n \in 1..Len(woven) : (<< i >> \o woven)[Len(<< i >>) + n] = woven[n]
      BY <1>5, <3>1, ConcatAt
    <3>3. \A n \in 1..W : w2[1 + n] = woven[n]
      BY <1>8, <1>p, <2>1, <3>1, <3>2
    <3>4. Len(w2) = W + 1 /\ w2[1] = i
      BY <1>5, <1>8, <1>p, <2>1, <3>1, <3>2
    <3>5. \A n \in 1..W : n + 1 = 1 + n
      BY <1>5
    <3> QED
      BY <3>3, <3>4, <3>5
  <2>3. PICK f : f = [n \in 1..W + 1 |-> IF n = 1 THEN K ELSE e[n - 1]]
    OBVIOUS
  <2>4. f \in [1..W + 1 -> (K - 1) + 1..Len(O)] /\ f \in [1..W + 1 -> 1..Len(O)]
    <3>1. \A n \in 1..W + 1 : n # 1 => n - 1 \in 1..W
      BY <1>5
    <3>2. \A n \in 1..W : e[n] \in K..Len(O) /\ e[n] > K
      BY <1>1, <1>4, <1>5
    <3>3. \A n \in 1..W + 1 : f[n] \in K..Len(O)
      BY <1>6, <2>3, <3>1, <3>2
    <3>4. K = (K - 1) + 1 /\ K..Len(O) \subseteq 1..Len(O)
      BY <1>1, <1>5
    <3>5. f \in [1..W + 1 -> K..Len(O)]
      BY <2>3, <3>3
    <3> QED
      BY <3>4, <3>5
  <2>5. \A m, n \in 1..W + 1 : m < n => f[m] < f[n]
    <3> SUFFICES ASSUME NEW m \in 1..W + 1, NEW n \in 1..W + 1, m < n PROVE f[m] < f[n]
      OBVIOUS
    <3>1. n # 1 /\ n - 1 \in 1..W /\ f[n] = e[n - 1]
      BY <1>5, <2>3
    <3>2. CASE m = 1
      BY <1>1, <1>4, <1>5, <2>3, <3>1, <3>2
    <3>3. CASE m # 1
      <4>1. m - 1 \in 1..W /\ f[m] = e[m - 1] /\ m - 1 < n - 1
        BY <1>5, <2>3, <3>3
      <4> QED
        BY <1>4, <3>1, <4>1
    <3> QED
      BY <3>2, <3>3
  <2>6. \A n \in 1..W + 1 : O[f[n]] = w2[n]
    <3> SUFFICES ASSUME NEW n \in 1..W + 1 PROVE O[f[n]] = w2[n]
      OBVIOUS
    <3>1. CASE n = 1
      BY <1>6, <2>2, <2>3, <3>1
    <3>2. CASE n # 1
      <4>1. n - 1 \in 1..W /\ f[n] = e[n - 1] /\ (n - 1) + 1 = n
        BY <1>5, <2>3, <3>2
      <4>2. w2[(n - 1) + 1] = woven[n - 1]
        BY <2>2, <4>1
      <4> QED
        BY <1>4, <4>1, <4>2
    <3> QED
      BY <3>1, <3>2
  <2>7. Len(l2) = K - 1 /\ \A n \in 1..K - 1 : l2[n] = O[n]
    <3>1. \A n \in 1..K - 1 : n \in 1..K
      BY <1>1
    <3> QED
      BY <1>1, <1>2, <1>8, <2>1, <3>1
  <2>8. WovenAt(f)'
    BY <1>7, <2>1, <2>2, <2>4, <2>5, <2>6, <2>7 DEF WovenAt
  <2>9. K - 1 <= Len(O)
    BY <1>1, <1>2, <1>5
  <2>10. \E g \in [1..Len(woven') -> 1..Len(O)] : WovenAt(g)'
    BY <2>1, <2>2, <2>4, <2>8
  <2> QED
    BY <1>1, <1>7, <1>8, <2>1, <2>7, <2>9, <2>10 DEF WeaveInv
<1>9. CASE at' = at /\ left' = Front(left) /\ woven' = woven
  <2>1. PICK l2 : l2 = left'
    OBVIOUS
  <2>2. Len(l2) = K - 1 /\ \A n \in 1..K - 1 : l2[n] = O[n]
    <3>1. \A n \in 1..K - 1 : n \in 1..K
      BY <1>1
    <3> QED
      BY <1>1, <1>2, <1>9, <2>1, <3>1
  <2>3. e \in [1..W -> (K - 1) + 1..Len(O)]
    <3>1. K + 1..Len(O) \subseteq (K - 1) + 1..Len(O)
      BY <1>1, <1>5
    <3> QED
      BY <1>4, <3>1
  <2>4. WovenAt(e)'
    BY <1>4, <1>7, <1>9, <1>p, <2>1, <2>2, <2>3 DEF WovenAt
  <2>5. K - 1 <= Len(O)
    BY <1>1, <1>2, <1>5
  <2> QED
    BY <1>1, <1>7, <1>9, <1>p, <2>1, <2>2, <2>4, <2>5 DEF WeaveInv
<1>10. CASE at' = "error"
  BY <1>10 DEF WeaveInv
<1> QED
  BY <1>8, <1>9, <1>10, <1>p DEF Weave, Raise

LEMMA OthersKeepWeave ==
  OrderInv /\ ResolveTypeOK /\ ResolveInv /\ WeaveInv /\ [Next]_vars /\ ~Weave => WeaveInv'
<1> SUFFICES ASSUME OrderInv, ResolveTypeOK, ResolveInv, WeaveInv, [Next]_vars, ~Weave
             PROVE  WeaveInv'
  OBVIOUS
<1>1. CASE PopMixin \/ OrderDone \/ ChooseAdd
  <2>1. at' \in {"order", "add", "collect", "error"}
    BY <1>1 DEF PopMixin, OrderDone, ChooseAdd, Goto, Raise
  <2> QED
    BY <2>1 DEF WeaveInv
<1>2. CASE Collect
  <2>1. at' = "select" /\ left' = << >> /\ woven' = << >>
    BY <1>2 DEF Collect, Goto, weaveVars, ResolveTypeOK, NothingYet
  <2> QED
    BY <2>1 DEF WeaveInv
<1>3. CASE SelectGroup \/ DropMissing \/ BuildGraph \/ PopReady
  <2>1. at \in {"select", "stack"} /\ at' \in {"select", "stack", "error"} /\ left' = left /\ woven' = woven
    BY <1>3 DEF SelectGroup, DropMissing, BuildGraph, PopReady, Goto, Raise, weaveVars
  <2> QED
    BY <2>1 DEF WeaveInv
<1>4. CASE StackDone
  <2>1. at = "stack" /\ stack' = stack /\ woven' = << >> /\ left = << >>
    BY <1>4 DEF StackDone, WeaveInv
  <2>2. CASE at' \in {"select", "error"} /\ (at' = "select" => left' = left)
    BY <2>1, <2>2 DEF WeaveInv
  <2>3. CASE at' = "weave" /\ left' = OuterStack(stack)
    <3>1. PICK O : O = OuterStack(stack)
      OBVIOUS
    <3>2. OuterStack(stack)' = O /\ left' = O /\ Len(O) \in Nat
      BY <2>1, <2>3, <3>1, OuterOf, OuterFacts
    <3>3. PICK f : f = [n \in 1..0 |-> n]
      OBVIOUS
    <3>4. 1..Len(woven') = 1..0 /\ 1..0 = {}
      BY <2>1
    <3>5. f \in [1..Len(woven') -> Len(O) + 1..Len(O)] /\ f \in [1..Len(woven') -> 1..Len(O)]
      BY <3>3, <3>4
    <3>6. WovenAt(f)'
      BY <3>2, <3>4, <3>5 DEF WovenAt
    <3>7. \E e \in [1..Len(woven') -> 1..Len(O)] : WovenAt(e)'
      BY <3>5, <3>6
    <3> QED
      BY <2>3, <3>2, <3>7 DEF WeaveInv
  <2>4. point \in {"head", "invoke", "tail"}
    BY DEF OrderInv, OrderTypeOK, Points
  <2> QED
    BY <1>4, <2>2, <2>3, <2>4 DEF StackDone, Goto, Raise
<1>5. CASE Done
  <2>1. /\ at = "weave" /\ at' = "done" /\ stack' = stack /\ left' = left /\ woven' = woven /\ left = << >>
    BY <1>5 DEF Done, Goto, weaveVars, resolveVars
  <2> QED
    BY <2>1, OuterOf DEF WeaveInv, WovenAt
<1>6. CASE UNCHANGED vars
  <2>1. at' = at /\ stack' = stack /\ left' = left /\ woven' = woven
    BY <1>6 DEF vars
  <2> QED
    BY <2>1, OuterOf DEF WeaveInv, WovenAt
<1> QED
  BY <1>1, <1>2, <1>3, <1>4, <1>5, <1>6 DEF Next

-----------------------------------------------------------------------------
(* The account at the end of a point, while weaving and at the end.          *)

\* At the end of a point all that was selected is on its stack.
LEMMA StackDoneKeepsAccount ==
  OrderInv /\ ResolveTypeOK /\ ResolveInv /\ AccountInv /\ WeaveInv /\ StackDone => AccountInv'
<1> SUFFICES ASSUME OrderInv, ResolveTypeOK, ResolveInv, AccountInv, WeaveInv, StackDone
             PROVE  AccountInv'
  OBVIOUS
<1>p. PICK p : p = point
  OBVIOUS
<1>1. /\ at = "stack" /\ Ready = {} /\ specs' = specs /\ stack' = stack /\ dropped' = dropped
      /\ woven' = woven /\ woven = << >>
  BY DEF StackDone, WeaveInv
<1>2. Stacking(point) /\ StackOrder /\ point \in Points
  BY <1>1 DEF ResolveInv, OrderInv, OrderTypeOK
<1>3. dropped \subseteq (DOMAIN specs) \X Reasons /\ specs \in Seq(HookSpec)
  BY DEF ResolveTypeOK
<1>4. /\ PointNo("head") = 1 /\ PointNo("invoke") = 2 /\ PointNo("tail") = 3
      /\ Points = {"head", "invoke", "tail"}
  BY DEF PointNo, Points
<1>5. \A i \in DOMAIN specs : specs[i].item.point \in Points
  BY <1>3, SpecFacts
<1>6. CASE at' = "error"
  BY <1>6 DEF AccountInv
<1>7. CASE at' # "error"
  <2>1. Len(stack[point]) = Len(selected)
    BY <1>7 DEF StackDone, Raise
  <2>2. Range(selected) = Range(stack[p])
    BY <1>2, <1>p, <2>1, StackFull, ReadyFacts
  <2>3. Live = UNION {Range(stack[q]) : q \in Points}
    <3>1. Live = Range(selected) \cup UNION {Range(stack[q]) : q \in Points}
      BY <1>1 DEF Live
    <3> QED
      BY <1>2, <1>p, <2>2, <3>1
  <2>4. \A i \in DOMAIN specs :
          Decided(i) <=> PointNo(specs[i].item.point) < PointNo(p) \/ specs[i].item.point = p
    BY <1>1, <1>p DEF Decided
  <2>5. ASSUME NEW r \in Points, at' = "select", point' = r, todo' = GroupIds(specs, r), selected' = << >>,
               \A q \in Points : PointNo(q) < PointNo(r) <=> PointNo(q) < PointNo(p) \/ q = p
        PROVE  AccountInv'
    <3>1. Live' = Live
      <4>1. Live' = Range(selected') \cup UNION {Range(stack[q]) : q \in Points}
        BY <1>1, <2>5 DEF Live
      <4>2. Range(selected') = {}
        BY <2>5 DEF Range
      <4> QED
        BY <2>3, <4>1, <4>2
    <3>2. \A i \in At(specs, r) : ~Processed(i)'
      <4>1. PICK ss, g : ss = specs /\ g = GroupIds(ss, r)
        OBVIOUS
      <4>2. ss \in Seq(HookSpec) /\ todo' = g
        BY <1>3, <2>5, <4>1
      <4>3. \A i \in At(ss, r) : \E n \in DOMAIN g : g[n] = ss[i].id
        BY <4>1, <4>2, GroupIdsFacts
      <4> QED
        BY <1>1, <4>1, <4>2, <4>3 DEF Processed
    <3>3. \A i \in DOMAIN specs : Decided(i)' <=> Decided(i)
      <4> SUFFICES ASSUME NEW i \in DOMAIN specs PROVE Decided(i)' <=> Decided(i)
        OBVIOUS
      <4>1. Decided(i)' <=> \/ PointNo(specs[i].item.point) < PointNo(r)
                            \/ specs[i].item.point = r /\ Processed(i)'
        BY <1>1, <2>5 DEF Decided, PointNo
      <4>2. specs[i].item.point = r => ~Processed(i)'
        BY <3>2 DEF At
      <4> QED
        BY <1>5, <2>4, <2>5, <4>1, <4>2
    <3> QED
      BY <1>1, <1>3, <3>1, <3>3, SameAccount
  <2>6. CASE p = "head"
    <3>1. /\ at' = "select" /\ point' = "invoke" /\ todo' = GroupIds(specs, "invoke") /\ selected' = << >>
      BY <1>p, <2>1, <2>6 DEF StackDone, Goto
    <3>2. \A q \in Points : PointNo(q) < PointNo("invoke") <=> PointNo(q) < PointNo(p) \/ q = p
      BY <1>4, <2>6
    <3> QED
      BY <1>4, <2>5, <3>1, <3>2
  <2>7. CASE p = "invoke"
    <3>1. /\ at' = "select" /\ point' = "tail" /\ todo' = GroupIds(specs, "tail") /\ selected' = << >>
      BY <1>p, <2>1, <2>7 DEF StackDone, Goto
    <3>2. \A q \in Points : PointNo(q) < PointNo("tail") <=> PointNo(q) < PointNo(p) \/ q = p
      BY <1>4, <2>7
    <3> QED
      BY <1>4, <2>5, <3>1, <3>2
  <2>8. CASE p = "tail"
    <3>1. at' = "weave" /\ left' = OuterStack(stack)
      BY <1>p, <2>1, <2>8 DEF StackDone, Goto
    <3>2. Live' = Live
      <4>1. Live' = Range(OuterStack(stack)) \cup Range(woven)
        BY <1>1, <3>1 DEF Live
      <4>2. Range(woven) = {}
        BY <1>1 DEF Range
      <4> QED
        BY <2>3, <4>1, <4>2, OuterRange
    <3>3. \A i \in DOMAIN specs : Decided(i)' /\ Decided(i)
      <4>1. \A i \in DOMAIN specs : Decided(i)'
        BY <3>1 DEF Decided
      <4> QED
        BY <1>4, <1>5, <2>4, <2>8, <4>1
    <3> QED
      BY <1>1, <1>3, <3>2, <3>3, SameAccount
  <2> QED
    BY <1>2, <1>4, <1>p, <2>6, <2>7, <2>8
<1> QED
  BY <1>6, <1>7

\* A spec is woven or dropped, and it is not there twice.
LEMMA WeaveKeepsAccount ==
  ResolveTypeOK /\ ResolveInv /\ AccountInv /\ WeaveInv /\ Weave => AccountInv'
<1> SUFFICES ASSUME ResolveTypeOK, ResolveInv, AccountInv, WeaveInv, Weave PROVE AccountInv'
  OBVIOUS
<1>p. PICK i, O, K, W, L, G, L2, G2 :
        /\ i = Last(left) /\ O = OuterStack(stack) /\ K = Len(left) /\ W = Len(woven)
        /\ L = Live /\ G = Gone /\ L2 = Live' /\ G2 = Gone'
  OBVIOUS
<1>1. /\ at = "weave" /\ specs' = specs /\ stack' = stack /\ UNCHANGED resolveVars
      /\ K \in Nat /\ K > 0 /\ i = left[K] /\ i \in DOMAIN specs
      /\ Len(Front(left)) = K - 1 /\ Front(left) \in Seq(DOMAIN specs)
      /\ \A n \in 1..K - 1 : Front(left)[n] = left[n]
  BY <1>p, WeaveFacts DEF resolveVars
<1>2. /\ K <= Len(O) /\ \A n \in 1..K : left[n] = O[n]
      /\ \E e \in [1..W -> 1..Len(O)] : WovenAt(e)
  BY <1>1, <1>p DEF WeaveInv
<1>3. PICK e \in [1..W -> 1..Len(O)] : WovenAt(e)
  BY <1>2
<1>4. /\ e \in [1..W -> K + 1..Len(O)] /\ \A n \in 1..W : O[e[n]] = woven[n]
  BY <1>3, <1>p DEF WovenAt
<1>5. /\ woven \in Seq(DOMAIN specs) /\ W \in Nat /\ DOMAIN woven = 1..W
      /\ left \in Seq(DOMAIN specs) /\ DOMAIN left = 1..K /\ Len(O) \in Nat
      /\ dropped \subseteq (DOMAIN specs) \X Reasons
  BY <1>p, OuterFacts DEF ResolveTypeOK
<1>6. \A m, n \in 1..Len(O) : O[m] = O[n] => m = n
  BY <1>p, OuterInjective DEF ResolveInv
<1>7. i = O[K] /\ K \in 1..Len(O)
  BY <1>1, <1>2, <1>5
<1>8. i \notin Range(woven)
  <2> SUFFICES ASSUME NEW n \in 1..W, woven[n] = i PROVE FALSE
    BY <1>5 DEF Range
  <2>1. O[e[n]] = O[K] /\ e[n] \in 1..Len(O) /\ e[n] > K
    BY <1>3, <1>4, <1>5, <1>7
  <2> QED
    BY <1>6, <1>7, <2>1
<1>9. i \notin Range(Front(left)) /\ Range(left) = Range(Front(left)) \cup {i}
  <2>1. DOMAIN Front(left) = 1..K - 1
    BY <1>1
  <2>2. \A n \in 1..K : n \in 1..K - 1 \/ n = K
    BY <1>1
  <2>3. \A n \in 1..K - 1 : n \in 1..K /\ n # K /\ n \in 1..Len(O)
    BY <1>1, <1>2, <1>5
  <2>4. Range(left) = {left[n] : n \in 1..K} /\ Range(Front(left)) = {left[n] : n \in 1..K - 1}
    BY <1>1, <1>5, <2>1 DEF Range
  <2>5. i \notin Range(Front(left))
    BY <1>2, <1>6, <1>7, <2>3, <2>4
  <2>6. K \in 1..K
    BY <1>1
  <2> QED
    BY <1>1, <2>2, <2>3, <2>4, <2>5, <2>6
<1>10. L = Range(left) \cup Range(woven)
  BY <1>1, <1>p DEF Live
<1>11. /\ \A j \in G : j \notin L /\ Decided(j)
       /\ \A r, s \in dropped : r[1] = s[1] => r = s
  BY <1>1, <1>p DEF AccountInv
<1>12. CASE at' = at /\ woven' = << i >> \o woven /\ left' = Front(left) /\ dropped' = dropped
  <2>1. Range(woven') = {i} \cup Range(woven)
    <3>1. PICK w2, T : w2 = woven' /\ T = DOMAIN specs
      OBVIOUS
    <3>2. << i >> \in Seq(T) /\ Len(<< i >>) = 1 /\ << i >>[1] = i /\ woven \in Seq(T) /\ i \in T
      BY <1>1, <1>5, <3>1
    <3>3. /\ Len(<< i >> \o woven) = Len(<< i >>) + Len(woven)
          /\ \A n \in 1..Len(<< i >>) : (<< i >> \o woven)[n] = << i >>[n]
          /\ \A n \in 1..Len(woven) : (<< i >> \o woven)[Len(<< i >>) + n] = woven[n]
      BY <3>2, ConcatAt
    <3>4. w2 \in Seq(T) /\ Len(w2) = 1 + W /\ w2[1] = i /\ \A n \in 1..W : w2[1 + n] = woven[n]
      <4>1. w2 = << i >> \o woven
        BY <1>12, <3>1
      <4>2. w2 \in Seq(T)
        BY <3>2, <4>1
      <4> QED
        BY <1>p, <3>2, <3>3, <4>1, <4>2
    <3>5. DOMAIN w2 = 1..1 + W
      BY <1>5, <3>4
    <3>6. \A n \in 1..1 + W : n = 1 \/ \E k \in 1..W : n = 1 + k
      <4> SUFFICES ASSUME NEW n \in 1..1 + W, n # 1 PROVE \E k \in 1..W : n = 1 + k
        OBVIOUS
      <4>1. n - 1 \in 1..W /\ n = 1 + (n - 1)
        BY <1>5
      <4> QED
        BY <4>1
    <3>7. 1 \in 1..1 + W /\ \A k \in 1..W : 1 + k \in 1..1 + W
      BY <1>5
    <3>8. Range(w2) = {w2[n] : n \in 1..1 + W} /\ Range(woven) = {woven[n] : n \in 1..W}
      BY <1>5, <3>5 DEF Range
    <3>9. \A n \in 1..1 + W : w2[n] \in {i} \cup Range(woven)
      BY <3>4, <3>6, <3>8
    <3>10. \A x \in {i} \cup Range(woven) : \E n \in 1..1 + W : x = w2[n]
      BY <3>4, <3>7, <3>8
    <3>11. \A x : x \in Range(w2) <=> \E n \in 1..1 + W : x = w2[n]
      BY <3>8
    <3>12. Range(w2) = {i} \cup Range(woven)
      BY <3>9, <3>10, <3>11
    <3> QED
      BY <3>1, <3>12
  <2>2. Live' = Range(left') \cup Range(woven')
    BY <1>1, <1>12 DEF Live
  <2>3. Live' = Live
    BY <1>9, <1>10, <1>12, <1>p, <2>1, <2>2
  <2>4. \A j \in DOMAIN specs : Decided(j)' <=> Decided(j)
    BY <1>1, <1>12 DEF Decided
  <2> QED
    BY <1>1, <1>5, <1>12, <2>3, <2>4, SameAccount
<1>13. CASE /\ at' = at /\ woven' = woven /\ left' = Front(left)
            /\ dropped' = dropped \cup {<<i, "locator_mismatch">>}
  <2>1. L2 = Range(Front(left)) \cup Range(woven)
    BY <1>1, <1>13, <1>p DEF Live
  <2>2. L = L2 \cup {i} /\ i \notin L2
    BY <1>8, <1>9, <1>10, <2>1
  <2>3. {i} \cap Gone = {}
    BY <1>11, <1>p, <2>2
  <2>4. dropped' = dropped \cup ({i} \X {"locator_mismatch"})
    <3>1. {i} \X {"locator_mismatch"} = {<<i, "locator_mismatch">>}
      OBVIOUS
    <3> QED
      BY <1>13, <3>1
  <2>5. G2 = G \cup {i} /\ \A r, s \in dropped' : r[1] = s[1] => r = s
    BY <1>11, <1>p, <2>3, <2>4, DropOnce
  <2>6. \A j : Decided(j)' /\ Decided(j)
    BY <1>1, <1>13 DEF Decided
  <2>7. \A j \in G2 : j \notin L2 /\ Decided(j)'
    BY <1>11, <2>2, <2>5, <2>6
  <2>8. L \cup G \subseteq L2 \cup G2
    BY <2>2, <2>5
  <2> QED
    BY <1>1, <1>p, <2>5, <2>6, <2>7, <2>8, AccountStep
<1>14. CASE at' = "error"
  BY <1>14 DEF AccountInv
<1> QED
  BY <1>12, <1>13, <1>14, <1>p DEF Weave, Raise

LEMMA CollectKeepsAccount ==
  ResolveTypeOK /\ ResolveTypeOK' /\ Collect => AccountInv'
<1> SUFFICES ASSUME ResolveTypeOK, ResolveTypeOK', Collect PROVE AccountInv'
  OBVIOUS
<1>1. PICK ss, g : ss = specs' /\ g = todo'
  OBVIOUS
<1>2. /\ at' = "select" /\ dropped' = {} /\ g = GroupIds(ss, "head") /\ point' = "head"
  BY <1>1 DEF Collect, Goto, ResolveTypeOK, NothingYet
<1>3. ss \in Seq(HookSpec)
  BY <1>1 DEF ResolveTypeOK
<1>4. \A i \in At(ss, "head") : \E n \in DOMAIN g : g[n] = ss[i].id
  BY <1>2, <1>3, GroupIdsFacts
<1>5. \A i \in DOMAIN ss : ss[i].item.point \in Points
  <2>1. \A x \in HookSpec : x.item.point \in Points
    BY DEF HookSpec, Item
  <2> QED
    BY <1>3, <2>1
<1>6. \A q \in Points : ~(PointNo(q) < PointNo("head"))
  BY DEF Points, PointNo
<1>7. \A i \in DOMAIN ss : ~Decided(i)'
  <2> SUFFICES ASSUME NEW i \in DOMAIN ss PROVE ~Decided(i)'
    OBVIOUS
  <2>1. Decided(i)' <=> \/ PointNo(ss[i].item.point) < PointNo("head")
                        \/ ss[i].item.point = "head" /\ Processed(i)'
    BY <1>1, <1>2 DEF Decided, PointNo
  <2>2. ss[i].item.point = "head" => ~Processed(i)'
    BY <1>1, <1>4 DEF Processed, At
  <2> QED
    BY <1>5, <1>6, <2>1, <2>2
<1>8. Gone' = {}
  BY <1>2 DEF Gone
<1> QED
  BY <1>1, <1>2, <1>7, <1>8 DEF AccountInv

LEMMA LaterKeepsAccount ==
  ResolveTypeOK /\ AccountInv /\ (Done \/ UNCHANGED vars) => AccountInv'
<1> SUFFICES ASSUME ResolveTypeOK, AccountInv, Done \/ UNCHANGED vars PROVE AccountInv'
  OBVIOUS
<1>1. /\ specs' = specs /\ dropped' = dropped /\ point' = point /\ todo' = todo /\ selected' = selected
      /\ stack' = stack /\ left' = left /\ woven' = woven
      /\ at' = at \/ (at = "weave" /\ at' = "done")
  BY DEF Done, Goto, vars, resolveVars, weaveVars
<1>2. CASE at' \in {"select", "stack", "weave", "done"}
  <2>1. at \in {"select", "stack", "weave", "done"}
    BY <1>1, <1>2
  <2>2. Live' = Live
    BY <1>1 DEF Live
  <2>3. \A i \in DOMAIN specs : Decided(i)' <=> Decided(i)
    BY <1>1 DEF Decided, Processed, PointNo
  <2> QED
    BY <1>1, <2>1, <2>2, <2>3, SameAccount DEF ResolveTypeOK
<1>3. CASE at' \notin {"select", "stack", "weave", "done"}
  BY <1>3 DEF AccountInv
<1> QED
  BY <1>2, <1>3

-----------------------------------------------------------------------------
(* The whole run again.                                                      *)

MixinInv == OrderInv /\ ResolveTypeOK /\ ResolveInv /\ AccountInv /\ WeaveInv

\* Where each hook is, and where the woven ones are in the outer stack, is
\* right in every state.
THEOREM MixinWeavingCorrect == Spec => []MixinInv
<1>1. Init => AccountInv /\ WeaveInv
  BY DEF Init, AccountInv, WeaveInv
<1>2. MixinInv /\ (OrderInv /\ ResolveTypeOK /\ ResolveInv)' /\ [Next]_vars => AccountInv' /\ WeaveInv'
  <2> SUFFICES ASSUME OrderInv, ResolveTypeOK, ResolveInv, AccountInv, WeaveInv, ResolveTypeOK', [Next]_vars
               PROVE  AccountInv' /\ WeaveInv'
    BY DEF MixinInv
  <2>1. WeaveInv'
    BY WeaveKeepsWeave, OthersKeepWeave
  <2>2. CASE PopMixin \/ OrderDone \/ ChooseAdd
    <3>1. at' \in {"order", "add", "collect", "error"}
      BY <2>2 DEF PopMixin, OrderDone, ChooseAdd, Goto, Raise
    <3> QED
      BY <2>1, <3>1 DEF AccountInv
  <2>3. CASE Collect
    BY <2>1, <2>3, CollectKeepsAccount
  <2>4. CASE SelectGroup
    BY <2>1, <2>4, SelectKeepsAccount
  <2>5. CASE DropMissing
    BY <2>1, <2>5, DropKeepsAccount
  <2>6. CASE BuildGraph
    BY <2>1, <2>6, BuildKeepsAccount
  <2>7. CASE PopReady
    BY <2>1, <2>7, PopKeepsAccount
  <2>8. CASE StackDone
    BY <2>1, <2>8, StackDoneKeepsAccount
  <2>9. CASE Weave
    BY <2>1, <2>9, WeaveKeepsAccount
  <2>10. CASE Done \/ UNCHANGED vars
    BY <2>1, <2>10, LaterKeepsAccount
  <2> QED
    BY <2>2, <2>3, <2>4, <2>5, <2>6, <2>7, <2>8, <2>9, <2>10 DEF Next
<1> QED
  BY <1>1, <1>2, MixinResolveCorrect, PTL DEF Spec, MixinInv

-----------------------------------------------------------------------------
(* The reasons for an error.                                                 *)

\* A completed order holds the used mixins, and the added functions are chosen
\* from all of them that add it.
LEMMA OrderHoldsUsed ==
  ASSUME OrderInv, at \notin {"order", "error"}
  PROVE  /\ order \in Seq(Mixins) /\ DOMAIN order = 1..Len(order) /\ Len(order) \in Nat
         /\ \A n \in 1..Len(order) : order[n] \in Used
         /\ \A k \in Used : \E n \in 1..Len(order) : order[n] = k
<1>1. OrderTypeOK /\ queue = << >> /\ Len(order) = Len(prog.uses)
  BY DEF OrderInv, OrderWhy
<1>2. PICK f : UseOfEach(f)
  BY DEF OrderInv
<1>3. /\ prog \in Programs /\ Len(order) \in Nat /\ DOMAIN order = 1..Len(order)
      /\ DOMAIN prog.uses = 1..Len(order)
      /\ Len(Placed) = Len(order) /\ \A n \in 1..Len(order) : Placed[n] = order[n]
      /\ \A k \in Used : \E j \in DOMAIN prog.uses : prog.uses[j] = k
      /\ \A j \in DOMAIN prog.uses : prog.uses[j] \in Used
  BY <1>1, PlacedFacts, ProgramFacts DEF OrderTypeOK, Placed
<1>4. /\ f \in [1..Len(order) -> 1..Len(order)]
      /\ \A m, n \in 1..Len(order) : f[m] = f[n] => m = n
      /\ \A n \in 1..Len(order) : prog.uses[f[n]] = order[n]
  BY <1>2, <1>3 DEF UseOfEach
<1>5. \A j \in 1..Len(order) : \E n \in 1..Len(order) : f[n] = j
  <2>1. f \in Injection(1..Len(order), 1..Len(order))
    BY <1>4 DEF Injection, IsInjective
  <2>2. IsFiniteSet(1..Len(order))
    BY <1>3, FS_Interval
  <2>3. f \in Surjection(1..Len(order), 1..Len(order))
    BY <2>1, <2>2, FS_Injection
  <2> QED
    BY <2>3 DEF Surjection
<1>6. order \in Seq(Mixins)
  BY <1>1 DEF OrderTypeOK
<1>7. \A n \in 1..Len(order) : order[n] \in Used
  BY <1>3, <1>4
<1>8. ASSUME NEW k \in Used PROVE \E n \in 1..Len(order) : order[n] = k
  <2>1. PICK j \in 1..Len(order) : prog.uses[j] = k
    BY <1>3
  <2> QED
    BY <2>1, <1>4, <1>5
<1> QED
  BY <1>3, <1>6, <1>7, <1>8

\* After a completed sort the rules of the used mixins form no cycle: the mixin
\* of a cycle that is placed first would have another one before it.
LEMMA SortedIsAcyclic ==
  ASSUME OrderInv, at \notin {"order", "error"}
  PROVE  ~CyclicRules
<1> SUFFICES ASSUME NEW C \in SUBSET Used, C # {},
                    \A b \in C : \E a \in C : <<a, b>> \in prog.rules
             PROVE  FALSE
  BY DEF CyclicRules
<1>1. /\ DOMAIN order = 1..Len(order) /\ Len(order) \in Nat
      /\ \A k \in Used : \E n \in 1..Len(order) : order[n] = k
  BY OrderHoldsUsed
<1>2. PICK S : S = {n \in 1..Len(order) : order[n] \in C}
  OBVIOUS
<1>3. S # {} /\ S \subseteq Nat /\ IsFiniteSet(S)
  <2>1. IsFiniteSet(1..Len(order))
    BY <1>1, FS_Interval
  <2>2. IsFiniteSet(S)
    BY <1>2, <2>1, FS_Subset
  <2> QED
    BY <1>1, <1>2, <2>2
<1>4. PICK n \in S : \A m \in S : n <= m
  BY <1>3, LeastNumber
<1>5. PICK a \in C : <<a, order[n]>> \in prog.rules
  BY <1>2, <1>4
<1>6. PICK m \in 1..n - 1 : order[m] = a
  BY <1>1, <1>2, <1>5 DEF OrderInv, PrefixOK
<1>7. m \in S /\ m < n /\ m \in Nat /\ n \in Nat
  BY <1>1, <1>2, <1>6
<1> QED
  BY <1>4, <1>7

\* A sublist holds the members of s at the places ns.
LEMMA SublistRange ==
  ASSUME NEW T, NEW s, s \in Seq(T), NEW ns, ns \subseteq DOMAIN s
  PROVE  /\ Sublist(s, ns) \in Seq(T)
         /\ Range(Sublist(s, ns)) = {s[n] : n \in ns}
         /\ Sublist(s, ns) = << >> <=> ns = {}
<1>1. PICK t, c, u : t = Sublist(s, ns) /\ c = Cardinality(ns) /\ u = Ascending(ns)
  OBVIOUS
<1>2. /\ c \in Nat /\ t \in Seq(T) /\ Len(t) = c /\ u \in [1..c -> ns]
      /\ \A k \in 1..c : t[k] = s[u[k]]
      /\ \A n \in ns : \E k \in 1..c : u[k] = n
  <2>1. s \in Seq(T) /\ ns \in SUBSET DOMAIN s
    OBVIOUS
  <2>2. /\ Cardinality(ns) \in Nat
        /\ Sublist(s, ns) \in Seq(T) /\ Len(Sublist(s, ns)) = Cardinality(ns)
        /\ Ascending(ns) \in [1..Cardinality(ns) -> ns]
        /\ \A k \in 1..Cardinality(ns) : Sublist(s, ns)[k] = s[Ascending(ns)[k]]
        /\ \A n \in ns : \E k \in 1..Cardinality(ns) : Ascending(ns)[k] = n
    BY ONLY <2>1, SublistFacts
  <2> QED
    BY ONLY <1>1, <2>2
<1>3. DOMAIN t = 1..c
  BY <1>2
<1>4. \A x : x \in Range(t) <=> \E k \in 1..c : x = t[k]
  BY <1>3 DEF Range
<1>5. \A x \in Range(t) : \E n \in ns : x = s[n]
  BY <1>2, <1>4
<1>6. \A n \in ns : s[n] \in Range(t)
  BY <1>2, <1>4
<1>7. Range(t) = {s[n] : n \in ns}
  BY <1>5, <1>6
<1>8. t = << >> <=> ns = {}
  <2>1. ASSUME t = << >> PROVE ns = {}
    BY <2>1, <1>2
  <2>2. ASSUME ns = {} PROVE t = << >>
    <3>1. c = 0
      BY <1>2, <2>2
    <3> QED
      BY <3>1, <1>2
  <2> QED
    BY <2>1, <2>2
<1> QED
  BY <1>1, <1>2, <1>7, <1>8

\* The candidates of choose_preferred, and whether one of them wins.
LEMMA AddersFacts ==
  ASSUME OrderInv, at = "add"
  PROVE  /\ Adders = << >> <=> ~\E k \in Used : Adds(k)
         /\ Adders # << >> => (Winners(Adders) = << >> <=> Unchosen)
<1>1. PICK w : w = weaveOrder
  OBVIOUS
<1>2. /\ order \in Seq(Mixins) /\ DOMAIN order = 1..Len(order) /\ Len(order) \in Nat
      /\ \A n \in 1..Len(order) : order[n] \in Used
      /\ \A k \in Used : \E n \in 1..Len(order) : order[n] = k
  BY OrderHoldsUsed
<1>3. /\ w \in Seq(Mixins) /\ Len(w) = Len(order)
      /\ \A n \in 1..Len(order) : w[n] = order[Len(order) - n + 1]
  BY <1>1, <1>2, ReverseFacts DEF weaveOrder
<1>4. DOMAIN w = 1..Len(order)
  BY <1>2, <1>3
<1>5. \A n \in DOMAIN w : w[n] \in Used
  <2> SUFFICES ASSUME NEW n \in 1..Len(order) PROVE w[n] \in Used
    BY <1>4
  <2>1. Len(order) - n + 1 \in 1..Len(order)
    BY <1>2
  <2> QED
    BY <1>2, <1>3, <2>1
<1>6. \A k \in Used : \E n \in DOMAIN w : w[n] = k
  <2> SUFFICES ASSUME NEW k \in Used PROVE \E n \in 1..Len(order) : w[n] = k
    BY <1>4
  <2>1. PICK n \in 1..Len(order) : order[n] = k
    BY <1>2
  <2>2. PICK m \in Nat : m = Len(order) - n + 1
    BY <1>2
  <2>3. m \in 1..Len(order) /\ Len(order) - m + 1 = n
    BY <1>2, <2>2
  <2> QED
    BY <1>3, <2>1, <2>3
<1>7. PICK ns : ns = {n \in DOMAIN w : Adds(w[n])}
  OBVIOUS
<1>8. PICK ks : ks = Sublist(w, ns)
  OBVIOUS
<1>9. Adders = ks
  BY <1>1, <1>7, <1>8 DEF Adders
<1>10. ns \subseteq DOMAIN w
  BY <1>7
<1>11. ks \in Seq(Mixins) /\ Range(ks) = {w[n] : n \in ns} /\ (ks = << >> <=> ns = {})
  BY <1>3, <1>8, <1>10, SublistRange
<1>12. Range(ks) = {k \in Used : Adds(k)}
  BY <1>5, <1>6, <1>7, <1>11
<1>13. ks = << >> <=> ~\E k \in Used : Adds(k)
  BY <1>5, <1>6, <1>7, <1>11
<1>14. PICK ms : ms = {n \in DOMAIN ks : ks[n] \in {k \in Range(ks) : Wins(k, Range(ks))}}
  OBVIOUS
<1>15. Winners(ks) = Sublist(ks, ms)
  BY <1>14 DEF Winners
<1>16. ms \subseteq DOMAIN ks
  BY <1>14
<1>17. Winners(ks) = << >> <=> ms = {}
  BY <1>11, <1>15, <1>16, SublistRange
<1>18. \A x : x \in Range(ks) <=> \E n \in DOMAIN ks : x = ks[n]
  BY DEF Range
<1>19. ms = {} <=> \A k \in Range(ks) : ~Wins(k, Range(ks))
  BY <1>14, <1>18
<1>20. \A k \in Range(ks) : ~Wins(k, Range(ks)) <=> \E b \in Range(ks) \ {k} : ~Preferred(k, b)
  BY DEF Wins
<1>21. (\E k \in Used : Adds(k)) => (ms = {} <=> Unchosen)
  <2>1. Unchosen <=> /\ \E k \in Used : Adds(k)
                     /\ \A k \in Range(ks) : \E b \in Range(ks) \ {k} : ~Preferred(k, b)
    BY <1>12 DEF Unchosen
  <2> QED
    BY <1>19, <1>20, <2>1
<1> QED
  BY <1>9, <1>13, <1>17, <1>21

\* What the errors of choose_preferred and _validate_locator need: an ambiguous
\* addition does not get past ChooseAdd, and a misplaced spec of the call stack
\* is among those that are left.
FailInv ==
  /\ why = "ambiguous" => Unchosen
  /\ at \notin {"order", "add", "error"} => ~Unchosen
  /\ why = "locator" => \E p \in Points : \E i \in Closed(p) : Misplaced(i)
  /\ at \in {"weave", "done"} =>
       \A p \in Points : \A i \in Closed(p) : Misplaced(i) => i \in Range(left)

LEMMA SameReasons ==
  ASSUME prog' = prog
  PROVE  Unchosen' <=> Unchosen
<1>1. Used' = Used /\ \A k : (Adds(k)' <=> Adds(k)) /\ \A b : Preferred(k, b)' <=> Preferred(k, b)
  BY DEF Used, Adds, Preferred
<1> QED
  BY <1>1 DEF Unchosen

LEMMA EarlyKeepsFail ==
  MixinInv /\ FailInv /\ (PopMixin \/ OrderDone \/ ChooseAdd) => FailInv'
<1> SUFFICES ASSUME MixinInv, FailInv, PopMixin \/ OrderDone \/ ChooseAdd PROVE FailInv'
  OBVIOUS
<1>1. prog' = prog /\ at \in {"order", "add"} /\ why = None /\ None \notin Errors
  BY NoneAssumption DEF PopMixin, OrderDone, ChooseAdd, MixinInv, ResolveInv
<1>2. Unchosen' <=> Unchosen
  BY <1>1, SameReasons
<1>3. CASE PopMixin \/ OrderDone
  <2>1. at' \in {"order", "add", "error"} /\ why' \in {why, "cyclic rules"}
    BY <1>3 DEF PopMixin, OrderDone, Goto, Raise
  <2> QED
    BY <1>1, <2>1 DEF FailInv, Errors
<1>4. CASE ChooseAdd
  <2>1. PICK ks, ws : ks = Adders /\ ws = Winners(Adders)
    OBVIOUS
  <2>2. /\ at = "add"
        /\ \/ ks = << >> /\ at' = "collect" /\ why' = why
           \/ ks # << >> /\ ws = << >> /\ at' = "error" /\ why' = "ambiguous"
           \/ ks # << >> /\ ws # << >> /\ at' = "collect" /\ why' = why
    BY <1>4, <2>1 DEF ChooseAdd, Goto, Raise
  <2>3. ks = << >> => ~Unchosen
    BY <2>1, <2>2, AddersFacts DEF MixinInv, Unchosen
  <2>4. ks # << >> => (ws = << >> <=> Unchosen)
    BY <2>1, <2>2, AddersFacts DEF MixinInv
  <2> QED
    BY <1>1, <1>2, <2>2, <2>3, <2>4 DEF FailInv, Errors
<1> QED
  BY <1>3, <1>4

LEMMA ResolveKeepsFail ==
  MixinInv /\ FailInv /\ (Collect \/ SelectGroup \/ DropMissing \/ BuildGraph \/ PopReady) => FailInv'
<1> SUFFICES ASSUME MixinInv, FailInv,
                    Collect \/ SelectGroup \/ DropMissing \/ BuildGraph \/ PopReady
             PROVE  FailInv'
  OBVIOUS
<1>1. /\ prog' = prog /\ at \in {"collect", "select", "stack"}
      /\ at' \in {"select", "stack", "error"}
      /\ why' \in {why, "duplicate id", "unknown dependency"}
  <2>1. CASE Collect
    BY <2>1 DEF Collect, Goto
  <2>2. CASE SelectGroup
    BY <2>2 DEF SelectGroup, Raise
  <2>3. CASE DropMissing
    BY <2>3 DEF DropMissing, Raise
  <2>4. CASE BuildGraph
    BY <2>4 DEF BuildGraph, Goto
  <2>5. CASE PopReady
    BY <2>5 DEF PopReady
  <2> QED
    BY <2>1, <2>2, <2>3, <2>4, <2>5
<1>2. why = None /\ None \notin Errors
  BY <1>1, NoneAssumption DEF MixinInv, ResolveInv
<1> QED
  BY <1>1, <1>2, SameReasons DEF FailInv, Errors

LEMMA StackDoneKeepsFail == MixinInv /\ FailInv /\ StackDone => FailInv'
<1> SUFFICES ASSUME MixinInv, FailInv, StackDone PROVE FailInv'
  OBVIOUS
<1>1. /\ prog' = prog /\ specs' = specs /\ stack' = stack /\ at = "stack"
      /\ at' \in {"select", "error", "weave"} /\ why' \in {why, "cyclic dependencies"}
      /\ at' = "weave" => left' = OuterStack(stack)
  <2>1. prog' = prog /\ specs' = specs /\ stack' = stack /\ at = "stack"
    BY DEF StackDone
  <2>2. CASE Len(stack[point]) # Len(selected)
    <3>1. at' = "error" /\ why' = "cyclic dependencies"
      BY <2>2 DEF StackDone, Raise
    <3> QED
      BY <2>1, <3>1
  <2>3. CASE Len(stack[point]) = Len(selected)
    <3>1. point \in Points
      BY <2>1 DEF MixinInv, OrderInv, OrderTypeOK
    <3>2. CASE point \in {"head", "invoke"}
      <4>1. at' = "select" /\ why' = why
        BY <2>3, <3>2 DEF StackDone, Goto
      <4> QED
        BY <2>1, <4>1
    <3>3. CASE point = "tail"
      <4>1. at' = "weave" /\ why' = why /\ left' = OuterStack(stack)
        BY <2>3, <3>3 DEF StackDone, Goto
      <4> QED
        BY <2>1, <4>1
    <3> QED
      BY <3>1, <3>2, <3>3 DEF Points
  <2> QED
    BY <2>2, <2>3
<1>2. why = None /\ None \notin Errors
  BY <1>1, NoneAssumption DEF MixinInv, ResolveInv
<1>3. ~Unchosen'
  BY <1>1, SameReasons DEF FailInv
<1>4. ASSUME at' = "weave", NEW p \in Points, NEW i \in Closed(p)' PROVE i \in Range(left')
  <2>1. ResolveInv'
    BY StackDoneKeepsResolve DEF MixinInv
  <2>2. Range(stack'[p]) = Closed(p)'
    BY <1>4, <2>1 DEF ResolveInv, Resolved
  <2>3. i \in Range(stack[p])
    BY <1>1, <1>4, <2>2
  <2>4. i \in Range(OuterStack(stack))
    BY <1>4, <2>3, OuterRange DEF MixinInv
  <2> QED
    BY <1>1, <1>4, <2>4
<1> QED
  BY <1>1, <1>2, <1>3, <1>4 DEF FailInv, Errors

LEMMA WeaveKeepsFail == MixinInv /\ FailInv /\ Weave => FailInv'
<1> SUFFICES ASSUME MixinInv, FailInv, Weave PROVE FailInv'
  OBVIOUS
<1>1. PICK i, N, rest : i = Last(left) /\ N = Len(left) /\ rest = Front(left)
  OBVIOUS
<1>2. /\ at = "weave" /\ specs' = specs /\ stack' = stack /\ N \in Nat /\ N > 0
      /\ i = left[N] /\ DOMAIN left = 1..N /\ DOMAIN rest = 1..N - 1
      /\ \A n \in 1..N - 1 : rest[n] = left[n]
  <2>1. /\ at = "weave" /\ specs' = specs /\ UNCHANGED resolveVars /\ N \in Nat /\ N > 0
        /\ i = left[N] /\ rest \in Seq(DOMAIN specs) /\ Len(rest) = N - 1
        /\ \A n \in 1..N - 1 : rest[n] = left[n]
    BY <1>1, WeaveFacts DEF MixinInv
  <2>2. left \in Seq(DOMAIN specs)
    BY DEF MixinInv, ResolveTypeOK
  <2>3. DOMAIN left = 1..N /\ DOMAIN rest = 1..N - 1
    BY <1>1, <2>1, <2>2
  <2> QED
    BY <2>1, <2>3 DEF resolveVars
<1>3. prog' = prog /\ why = None /\ None \notin Errors /\ ~Unchosen
  BY <1>2, NoneAssumption DEF Weave, MixinInv, ResolveInv, FailInv
<1>4. ~Unchosen'
  BY <1>3, SameReasons
<1>5. (\A p : Closed(p)' = Closed(p)) /\ \A j : Misplaced(j)' <=> Misplaced(j)
  BY <1>2, SameSpecs DEF Misplaced
<1>6. \A j \in Range(left) : j = i \/ j \in Range(rest)
  <2> SUFFICES ASSUME NEW n \in 1..N PROVE left[n] = i \/ left[n] \in Range(rest)
    BY <1>2 DEF Range
  <2>1. CASE n = N
    BY <1>2, <2>1
  <2>2. CASE n # N
    <3>1. n \in 1..N - 1
      BY <1>2, <2>2
    <3> QED
      BY <1>2, <3>1 DEF Range
  <2> QED
    BY <2>1, <2>2
<1>7. CASE /\ at' = at /\ why' = why /\ left' = rest
           /\ \/ specs[i].item.at = "match"
              \/ specs[i].item.at = "mismatch" /\ MayDrop(i)
  <2>1. ~Misplaced(i)
    BY <1>7 DEF Misplaced, MayDrop
  <2> QED
    BY <1>2, <1>3, <1>4, <1>5, <1>6, <1>7, <2>1 DEF FailInv, Errors
<1>8. CASE /\ at' = "error" /\ why' = "locator"
           /\ specs[i].item.at # "match" /\ (specs[i].item.at = "mismatch" => ~MayDrop(i))
  <2>1. i \in DOMAIN specs /\ specs \in Seq(HookSpec)
    BY <1>1, WeaveFacts DEF MixinInv, ResolveTypeOK
  <2>2. specs[i].item.at \in {"match", "mismatch", "malformed"}
    <3>1. PICK x : x = specs[i]
      OBVIOUS
    <3>2. x \in HookSpec
      BY <2>1, <3>1
    <3>3. x.item \in Item
      BY <3>2 DEF HookSpec
    <3>4. x.item.at \in {"match", "mismatch", "malformed"}
      BY <3>3 DEF Item
    <3> QED
      BY <3>1, <3>4
  <2>3. Misplaced(i)
    BY <1>8, <2>2 DEF Misplaced, MayDrop
  <2>4. \E p \in Points : i \in Closed(p)
    <3>1. \A n \in 1..N : left[n] = OuterStack(stack)[n] /\ N <= Len(OuterStack(stack))
      BY <1>1, <1>2 DEF MixinInv, WeaveInv
    <3>2. PICK O : O = OuterStack(stack)
      OBVIOUS
    <3>3. DOMAIN O = 1..Len(O) /\ Len(O) \in Nat
      BY <3>2, OuterFacts DEF MixinInv
    <3>4. i = O[N] /\ N \in 1..Len(O)
      BY <1>2, <3>1, <3>2, <3>3
    <3>5. i \in Range(O)
      BY <3>3, <3>4 DEF Range
    <3>6. PICK p \in Points : i \in Range(stack[p])
      BY <3>2, <3>5, OuterRange DEF MixinInv
    <3>7. Range(stack[p]) = Closed(p)
      BY <1>2 DEF MixinInv, ResolveInv, Resolved
    <3> QED
      BY <3>6, <3>7
  <2> QED
    BY <1>4, <1>5, <1>8, <2>3, <2>4 DEF FailInv
<1> QED
  <2>1. \/ specs[i].item.at = "match" /\ left' = rest /\ UNCHANGED <<at, why>>
        \/ specs[i].item.at = "mismatch" /\ MayDrop(i) /\ left' = rest /\ UNCHANGED <<at, why>>
        \/ /\ specs[i].item.at # "match" /\ (specs[i].item.at = "mismatch" => ~MayDrop(i))
           /\ Raise("locator")
    BY <1>1 DEF Weave
  <2> QED
    BY <2>1, <1>7, <1>8 DEF Raise

LEMMA DoneKeepsFail == MixinInv /\ FailInv /\ (Done \/ UNCHANGED vars) => FailInv'
<1> SUFFICES ASSUME FailInv, Done \/ UNCHANGED vars PROVE FailInv'
  OBVIOUS
<1>1. /\ prog' = prog /\ specs' = specs /\ left' = left /\ why' = why
      /\ at' = at \/ (at = "weave" /\ at' = "done")
  BY DEF Done, Goto, vars, weaveVars
<1>2. (\A p : Closed(p)' = Closed(p)) /\ \A j : Misplaced(j)' <=> Misplaced(j)
  BY <1>1, SameSpecs DEF Misplaced
<1> QED
  BY <1>1, <1>2, SameReasons DEF FailInv

\* The resolver fails only for the reason it gives, whichever of its six errors
\* it is, and it never comes past a reason.
THEOREM FailsForItsReason == Spec => []FailsExactlyWhen
<1>1. Init => FailInv
  BY NoneAssumption DEF Init, FailInv, Errors
<1>2. MixinInv /\ FailInv /\ [Next]_vars => FailInv'
  BY EarlyKeepsFail, ResolveKeepsFail, StackDoneKeepsFail, WeaveKeepsFail, DoneKeepsFail DEF Next
<1>3. MixinInv /\ FailInv => FailsExactlyWhen
  <2> SUFFICES ASSUME MixinInv, FailInv PROVE FailsExactlyWhen
    OBVIOUS
  <2>1. at = "done" => \A p \in Points : \A i \in Closed(p) : ~Misplaced(i)
    <3>1. at = "done" => Range(left) = {}
      BY DEF MixinInv, WeaveInv, Range
    <3> QED
      BY <3>1 DEF FailInv
  <2>2. at \notin {"order", "error"} => ~CyclicRules
    BY SortedIsAcyclic DEF MixinInv
  <2>3. why = "cyclic rules" => CyclicRules \/ ~IsInjective(prog.uses)
    BY DEF MixinInv, OrderInv, OrderWhy, CyclicRules
  <2>4. ResolveInv
    BY DEF MixinInv
  <2>5. /\ why = "duplicate id" => Clashes(point)
        /\ why = "unknown dependency" => ~Clashes(point) /\ StrictLoses(point)
        /\ why = "cyclic dependencies" => ~StrictLoses(point) /\ CircularAt(point)
        /\ at \in {"weave", "done"} =>
             \A p \in Points : ~Clashes(p) /\ ~StrictLoses(p) /\ ~CircularAt(p)
    BY <2>4 DEF ResolveInv, Resolved
  <2> QED
    BY <2>1, <2>2, <2>3, <2>5 DEF FailsExactlyWhen, FailInv
<1> QED
  BY <1>1, <1>2, <1>3, MixinWeavingCorrect, PTL DEF Spec

\* Every hook a program uses is woven, or dropped with one reason, or it
\* yielded to a preferred hook of its id.
THEOREM EveryHookAccountedFor == Spec => []HooksAccountedFor
<1>1. MixinInv => HooksAccountedFor
  <2> SUFFICES ASSUME MixinInv, at = "done", NEW i \in DOMAIN specs
               PROVE  LET isWoven == i \in Range(woven)
                          reasons == {r \in dropped : r[1] = i}
                          yields == \E j \in Rivals(i) :
                                      /\ specs[j].item.policy = "prefer"
                                      /\ specs[i].item.policy = "drop" \/ Precedes(j, i)
                                      /\ j \in Range(woven) \/ \E r \in dropped : r[1] = j
                      IN /\ isWoven => reasons = {} /\ \A j \in DOMAIN woven, k \in DOMAIN woven :
                                                      woven[j] = i /\ woven[k] = i => j = k
                         /\ Cardinality(reasons) <= 1
                         /\ isWoven \/ reasons # {} \/ yields
    BY DEF HooksAccountedFor
  <2>1. /\ ResolveTypeOK /\ StackOrder /\ left = << >>
        /\ \E e \in [1..Len(woven) -> 1..Len(OuterStack(stack))] : WovenAt(e)
    BY DEF MixinInv, ResolveInv, WeaveInv
  <2>2. Live = Range(woven)
    <3>1. Range(left) = {}
      BY <2>1 DEF Range
    <3> QED
      BY <3>1 DEF Live
  <2>3. /\ i \in Range(woven) \cup Gone \/ YieldsTo(i, Range(woven) \cup Gone)
        /\ \A j \in Gone : j \notin Range(woven)
        /\ \A r, s \in dropped : r[1] = s[1] => r = s
    BY <2>2 DEF MixinInv, AccountInv, Decided
  <2>4. \A j : j \in Gone <=> \E r \in dropped : r[1] = j
    BY DEF Gone
  <2>5. ASSUME NEW j \in DOMAIN woven, NEW k \in DOMAIN woven, woven[j] = woven[k] PROVE j = k
    <3>1. PICK e \in [1..Len(woven) -> 1..Len(OuterStack(stack))] : WovenAt(e)
      BY <2>1
    <3>2. DOMAIN woven = 1..Len(woven) /\ Len(woven) \in Nat
      BY <2>1 DEF ResolveTypeOK
    <3>3. e[j] = e[k]
      <4>1. /\ OuterStack(stack)[e[j]] = OuterStack(stack)[e[k]]
            /\ e[j] \in 1..Len(OuterStack(stack)) /\ e[k] \in 1..Len(OuterStack(stack))
        BY <2>5, <3>1, <3>2 DEF WovenAt
      <4> QED
        BY <2>1, <4>1, OuterInjective
    <3>4. /\ e[j] \in Int /\ j \in Int /\ k \in Int
          /\ (j < k => e[j] < e[k]) /\ (k < j => e[k] < e[j])
      BY <3>1, <3>2 DEF WovenAt
    <3> QED
      BY <3>3, <3>4
  <2>6. PICK reasons : reasons = {r \in dropped : r[1] = i}
    OBVIOUS
  <2>7. Cardinality(reasons) <= 1
    <3>1. CASE reasons = {}
      <4>1. Cardinality({}) = 0
        BY FS_EmptySet
      <4> QED
        BY <3>1, <4>1
    <3>2. CASE reasons # {}
      <4>1. PICK r : r \in reasons
        BY <3>2
      <4>2. reasons = {r}
        BY <2>3, <2>6, <4>1
      <4>3. Cardinality({r}) = 1
        BY FS_Singleton
      <4> QED
        BY <4>2, <4>3
    <3> QED
      BY <3>1, <3>2
  <2>8. i \in Range(woven) => reasons = {}
    BY <2>3, <2>4, <2>6
  <2>9. i \in Range(woven) \/ reasons # {} \/ YieldsTo(i, Range(woven) \cup Gone)
    BY <2>3, <2>4, <2>6
  <2>10. YieldsTo(i, Range(woven) \cup Gone) =>
           \E j \in Rivals(i) : /\ specs[j].item.policy = "prefer"
                                /\ specs[i].item.policy = "drop" \/ Precedes(j, i)
                                /\ j \in Range(woven) \/ \E r \in dropped : r[1] = j
    BY <2>4 DEF YieldsTo
  <2> QED
    BY <2>5, <2>6, <2>7, <2>8, <2>9, <2>10
<1> QED
  BY <1>1, MixinWeavingCorrect, PTL

\* In a call of the woven function the effects of a point follow its call
\* stack, after those of the heads and before those of the tails.
THEOREM EffectsInOrder == Spec => []EffectsFollowStack
<1>1. MixinInv => EffectsFollowStack
  <2> SUFFICES ASSUME MixinInv, at = "done", NEW m \in DOMAIN woven, NEW n \in DOMAIN woven
               PROVE  LET p == specs[woven[m]].item.point  q == specs[woven[n]].item.point IN
                      /\ p = q => \A k, l \in DOMAIN stack[p] :
                           stack[p][k] = woven[m] /\ stack[p][l] = woven[n] /\ k < l => Time(m) < Time(n)
                      /\ <<p, q>> \in {<<"head", "invoke">>, <<"head", "tail">>, <<"invoke", "tail">>}
                           => Time(m) < Time(n)
    BY DEF EffectsFollowStack
  <2>1. /\ ResolveTypeOK /\ StackOrder
        /\ \E e \in [1..Len(woven) -> 1..Len(OuterStack(stack))] : WovenAt(e)
    BY DEF MixinInv, ResolveInv, WeaveInv
  <2>2. PICK p, q, O, W : /\ p = specs[woven[m]].item.point /\ q = specs[woven[n]].item.point
                          /\ O = OuterStack(stack) /\ W = Len(woven)
    OBVIOUS
  <2>3. PICK e \in [1..W -> 1..Len(O)] : WovenAt(e)
    BY <2>1, <2>2
  <2>4. W \in Nat /\ DOMAIN woven = 1..W /\ m \in 1..W /\ n \in 1..W /\ Len(O) \in Nat
    BY <2>1, <2>2, OuterFacts DEF ResolveTypeOK
  <2>5. /\ O[e[m]] = woven[m] /\ O[e[n]] = woven[n] /\ e[m] \in 1..Len(O) /\ e[n] \in 1..Len(O)
        /\ (m < n => e[m] < e[n]) /\ (n < m => e[n] < e[m])
    BY <2>2, <2>3, <2>4 DEF WovenAt
  <2>6. e[m] < e[n] => m < n
    <3>1. m = n => e[m] = e[n]
      OBVIOUS
    <3> QED
      BY <2>4, <2>5, <3>1
  <2>7. e[n] < e[m] => n < m
    <3>1. m = n => e[m] = e[n]
      OBVIOUS
    <3> QED
      BY <2>4, <2>5, <3>1
  <2>8. /\ Time(m) = IF p = "tail" THEN 2 * W - m ELSE m
        /\ Time(n) = IF q = "tail" THEN 2 * W - n ELSE n
    BY <2>2 DEF Time
  <2>9. ASSUME NEW x \in 1..Len(O)
        PROVE  \E r \in Points : \E k \in DOMAIN stack[r] :
                 x = Place(r, k) /\ O[x] = stack[r][k] /\ specs[O[x]].item.point = r
    <3>1. PICK r \in Points : \E k \in DOMAIN stack[r] : x = Place(r, k)
      BY <2>1, <2>2, OuterFacts
    <3>2. PICK k \in DOMAIN stack[r] : x = Place(r, k)
      BY <3>1
    <3>3. O[x] = stack[r][k]
      BY <2>1, <2>2, <3>2, OuterFacts
    <3>4. stack[r][k] \in Range(stack[r])
      BY DEF Range
    <3>5. specs[stack[r][k]].item.point = r
      BY <2>1, <3>4, StackedAtPoint
    <3> QED
      BY <3>2, <3>3, <3>5
  <2>10. p \in Points /\ \E k \in DOMAIN stack[p] : e[m] = Place(p, k)
    BY <2>2, <2>5, <2>9
  <2>11. q \in Points /\ \E k \in DOMAIN stack[q] : e[n] = Place(q, k)
    BY <2>2, <2>5, <2>9
  <2>12. ASSUME p = q, NEW k \in DOMAIN stack[p], NEW l \in DOMAIN stack[p],
                stack[p][k] = woven[m], stack[p][l] = woven[n], k < l
         PROVE  Time(m) < Time(n)
    <3>1. Place(p, k) = e[m]
      <4>1. Place(p, k) \in 1..Len(O) /\ O[Place(p, k)] = O[e[m]]
        BY <2>1, <2>2, <2>5, <2>10, <2>12, OuterFacts
      <4> QED
        BY <2>1, <2>2, <2>5, <4>1, OuterInjective
    <3>2. Place(p, l) = e[n]
      <4>1. Place(p, l) \in 1..Len(O) /\ O[Place(p, l)] = O[e[n]]
        BY <2>1, <2>2, <2>5, <2>10, <2>12, OuterFacts
      <4> QED
        BY <2>1, <2>2, <2>5, <4>1, OuterInjective
    <3>3. IF p = "tail" THEN Place(p, k) > Place(p, l) ELSE Place(p, k) < Place(p, l)
      BY <2>1, <2>10, <2>12, OuterFacts
    <3>4. CASE p = "tail"
      <4>1. n < m
        BY <2>5, <2>7, <3>1, <3>2, <3>3, <3>4
      <4> QED
        BY <2>4, <2>8, <2>12, <3>4, <4>1
    <3>5. CASE p # "tail"
      <4>1. m < n
        BY <2>6, <3>1, <3>2, <3>3, <3>5
      <4> QED
        BY <2>4, <2>8, <2>12, <3>5, <4>1
    <3> QED
      BY <3>4, <3>5
  <2>13. ASSUME <<p, q>> \in {<<"head", "invoke">>, <<"head", "tail">>, <<"invoke", "tail">>}
         PROVE  Time(m) < Time(n)
    <3>1. PointNo(p) < PointNo(q) /\ p # "tail"
      BY <2>13 DEF PointNo
    <3>2. PICK k \in DOMAIN stack[p] : e[m] = Place(p, k)
      BY <2>10
    <3>3. PICK l \in DOMAIN stack[q] : e[n] = Place(q, l)
      BY <2>11
    <3>4. Place(p, k) < Place(q, l)
      BY <2>1, <2>10, <2>11, <3>1, OuterFacts
    <3>5. m < n
      BY <2>6, <3>2, <3>3, <3>4
    <3> QED
      BY <2>4, <2>8, <3>1, <3>5
  <2> QED
    BY <2>2, <2>12, <2>13
<1> QED
  BY <1>1, MixinWeavingCorrect, PTL
=============================================================================
