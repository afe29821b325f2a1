----------------------------- MODULE LexerProofs -----------------------------
(* The tokens of Lexer cover the source, each is as long as it can be, and   *)
(* INDENT and DEDENT nest.                                                   *)
EXTENDS Lexer, SequenceTheorems, FiniteSetTheorems, WellFoundedInduction, TLAPS

-----------------------------------------------------------------------------
(* Sets of numbers.                                                          *)

\* A set of numbers that is not empty has a least one.
LEMMA LeastNumber ==
  ASSUME NEW S, S # {}, S \subseteq Nat
  PROVE  \E x \in S : \A y \in S : x <= y
<1> DEFINE R == {r \in Nat \X Nat : r[1] < r[2]}
<1>1. R = OpToRel(<, Nat)
  BY DEF OpToRel
<1>2. IsWellFoundedOn(R, Nat)
  BY <1>1, NatLessThanWellFounded
<1>3. \A x, y \in Nat : <<y, x>> \notin R => x <= y
  OBVIOUS
<1> HIDE DEF R
<1>4. PICK x \in S : \A y \in S : <<y, x>> \notin R
  BY <1>2, WFMin
<1> QED
  BY <1>3, <1>4

\* A bounded one has a greatest.
LEMMA GreatestNumber ==
  ASSUME NEW N \in Nat, NEW S, S # {}, S \subseteq 0..N
  PROVE  \E x \in S : \A y \in S : y <= x
<1> DEFINE T == {N - x : x \in S}
<1>1. T # {} /\ T \subseteq Nat
  <2>1. PICK x \in S : TRUE
    OBVIOUS
  <2>2. N - x \in T
    OBVIOUS
  <2>3. T \subseteq Nat
    OBVIOUS
  <2> QED
    BY <2>2, <2>3
<1>2. PICK t \in T : \A y \in T : t <= y
  <2> HIDE DEF T
  <2> QED
    BY <1>1, LeastNumber
<1>3. PICK x \in S : t = N - x
  OBVIOUS
<1>4. \A y \in S : N - x <= N - y
  BY <1>2, <1>3
<1> QED
  BY <1>4

-----------------------------------------------------------------------------
(* Loops as recursive functions.                                             *)

\* A function that calls itself last, if at all, exists: what it returns at x
\* is decided where the calls from x end.
Loop(f, S, stop, base, next) == f = [x \in S |-> IF x \in stop THEN base[x] ELSE f[next[x]]]

LEMMA TailRecursion ==
  ASSUME NEW S, NEW Stop, NEW base, NEW next \in [S -> S]
  PROVE  \E f : Loop(f, S, Stop, base, next)
<1> DEFINE Closed(T) == \A z \in T : z \notin Stop => next[z] \in T
           Orbit(x) == {y \in S : \A T \in SUBSET S : x \in T /\ Closed(T) => y \in T}
           Ends(x) == Orbit(x) \cap Stop
           f == [x \in S |-> base[CHOOSE y \in Ends(x) : TRUE]]
<1>1. ASSUME NEW x \in S, x \in Stop
      PROVE  f[x] = base[x]
  <2>1. Closed({x})
    BY <1>1
  <2>2. \A y \in Ends(x) : y = x
    BY <2>1
  <2>3. x \in Ends(x)
    BY <1>1
  <2>4. (CHOOSE y \in Ends(x) : TRUE) = x
    <3> HIDE DEF Ends
    <3> QED
      BY <2>2, <2>3
  <2> QED
    BY <2>4
<1>2. ASSUME NEW x \in S, x \notin Stop
      PROVE  f[x] = f[next[x]]
  <2>1. next[x] \in S
    OBVIOUS
  <2>2. ASSUME NEW y \in Ends(x)
        PROVE  y \in Ends(next[x])
    <3>1. SUFFICES ASSUME NEW T \in SUBSET S, next[x] \in T, Closed(T)
                   PROVE  y \in T
      OBVIOUS
    <3>2. Closed(T \cup {x})
      BY <3>1
    <3>3. y \in T \cup {x}
      BY <3>2
    <3>4. y # x
      BY <1>2
    <3> QED
      BY <3>3, <3>4
  <2>3. ASSUME NEW y \in Ends(next[x])
        PROVE  y \in Ends(x)
    <3>1. SUFFICES ASSUME NEW T \in SUBSET S, x \in T, Closed(T)
                   PROVE  y \in T
      OBVIOUS
    <3>2. next[x] \in T
      BY <1>2, <3>1
    <3> QED
      BY <3>1, <3>2
  <2>4. Ends(x) = Ends(next[x])
    <3> HIDE DEF Ends
    <3> QED
      BY <2>2, <2>3
  <2> HIDE DEF Ends
  <2> QED
    BY <2>1, <2>4
<1>3. f = [x \in S |-> IF x \in Stop THEN base[x] ELSE f[next[x]]]
  <2>1. f = [x \in S |-> f[x]]
    OBVIOUS
  <2> HIDE DEF f
  <2>2. \A x \in S : f[x] = IF x \in Stop THEN base[x] ELSE f[next[x]]
    BY <1>1, <1>2
  <2> QED
    BY <2>1, <2>2
<1> HIDE DEF f
<1> QED
  BY <1>3 DEF Loop

\* What BlockScan does at one position.
BlockStep(f, p, d) ==
  CASE Peek(p) \in {"end", "\t"}               -> 0
    [] Peek(p) = "/" /\ Peek(p + 1) = "*" -> f[<<p + 2, d + 1>>]
    [] Peek(p) = "*" /\ Peek(p + 1) = "/" -> IF d = 1 THEN p + 2 ELSE f[<<p + 2, d - 1>>]
    [] OTHER                              -> f[<<p + 1, d>>]

LEMMA BlockScanAt == \A p \in Nat, d \in Int : BlockScan[<<p, d>>] = BlockStep(BlockScan, p, d)
<1> DEFINE Opens(p) == Peek(p) = "/" /\ Peek(p + 1) = "*"
           Closes(p) == Peek(p) = "*" /\ Peek(p + 1) = "/"
<1>1. PICK S : S = Nat \X Int
  OBVIOUS
<1>2. PICK stop : stop = {x \in S : Peek(x[1]) \in {"end", "\t"} \/ (Closes(x[1]) /\ x[2] = 1)}
  OBVIOUS
<1>3. PICK base : base = [x \in S |-> IF Peek(x[1]) \in {"end", "\t"} THEN 0 ELSE x[1] + 2]
  OBVIOUS
<1>4. PICK next : next = [x \in S |-> IF Opens(x[1]) THEN <<x[1] + 2, x[2] + 1>>
                                     ELSE IF Closes(x[1]) THEN <<x[1] + 2, x[2] - 1>>
                                     ELSE <<x[1] + 1, x[2]>>]
  OBVIOUS
<1>5. next \in [S -> S]
  BY <1>1, <1>4
<1>6. PICK f : Loop(f, S, stop, base, next)
  BY <1>5, TailRecursion
<1>7. ASSUME NEW p \in Nat, NEW d \in Int
      PROVE  f[<<p, d>>] = BlockStep(f, p, d)
  <2>1. <<p, d>> \in S
    BY <1>1
  <2>2. f[<<p, d>>] = IF <<p, d>> \in stop THEN base[<<p, d>>] ELSE f[next[<<p, d>>]]
    BY <1>6, <2>1 DEF Loop
  <2> QED
    BY <2>1, <2>2, <1>2, <1>3, <1>4 DEF BlockStep
<1>8. f = [x \in Nat \X Int |-> BlockStep(f, x[1], x[2])]
  <2>1. f = [x \in Nat \X Int |-> f[x]]
    BY <1>1, <1>6 DEF Loop
  <2>2. \A x \in Nat \X Int : f[x] = BlockStep(f, x[1], x[2])
    BY <1>7
  <2> QED
    BY <2>1, <2>2
<1>9. BlockScan = [x \in Nat \X Int |-> BlockStep(BlockScan, x[1], x[2])]
  BY <1>8 DEF BlockScan, BlockStep
<1> QED
  BY <1>9

-----------------------------------------------------------------------------
(* Filler, a recursive function that calls itself more than once.            *)

Spans == {"code", "comment"} \X Nat \X Nat

\* What Filler says of one span, in terms of shorter ones.
FillerStep(s, f, where, a, e) ==
  \/ a = e
  \/ a < e /\ Idle(s, where, a) /\ f[<<where, a + 1, e>>]
  \/ \E m \in (a + 4)..e : /\ BeginsBlock(s, a) /\ EndsBlock(s, m - 2)
                          /\ f[<<"comment", a + 2, m - 2>>] /\ f[<<where, m, e>>]
  \/ \E m \in (a + 2)..e : where = "code" /\ LineComment(s, a, m) /\ f[<<where, m, e>>]

\* A function that is as Filler on the spans of at most n characters.
UpTo(s, n, f) ==
  /\ f \in [Spans -> BOOLEAN]
  /\ \A w \in {"code", "comment"}, a, e \in Nat :
       e <= a + n => (f[<<w, a, e>>] <=> FillerStep(s, f, w, a, e))

LEMMA FillerStepSame ==
  ASSUME NEW s, NEW f, NEW g, NEW w \in {"code", "comment"}, NEW a \in Nat, NEW e \in Nat,
         \A v \in {"code", "comment"}, b, c \in Nat : a < e /\ c - b < e - a => (f[<<v, b, c>>] <=> g[<<v, b, c>>])
  PROVE  FillerStep(s, f, w, a, e) <=> FillerStep(s, g, w, a, e)
<1>1. a < e => (f[<<w, a + 1, e>>] <=> g[<<w, a + 1, e>>])
  <2>1. a + 1 \in Nat /\ e - (a + 1) < e - a
    OBVIOUS
  <2> QED
    BY <2>1
<1>2. ASSUME NEW m \in (a + 4)..e
      PROVE  /\ f[<<"comment", a + 2, m - 2>>] <=> g[<<"comment", a + 2, m - 2>>]
             /\ f[<<w, m, e>>] <=> g[<<w, m, e>>]
  <2>1. /\ a + 2 \in Nat /\ m - 2 \in Nat /\ (m - 2) - (a + 2) < e - a
        /\ m \in Nat /\ e - m < e - a /\ a < e
    OBVIOUS
  <2> QED
    BY <2>1
<1>3. ASSUME NEW m \in (a + 2)..e
      PROVE  f[<<w, m, e>>] <=> g[<<w, m, e>>]
  <2>1. m \in Nat /\ e - m < e - a /\ a < e
    OBVIOUS
  <2> QED
    BY <2>1
<1> QED
  BY <1>1, <1>2, <1>3 DEF FillerStep

\* Two such functions agree.
LEMMA UpToAgree ==
  ASSUME NEW s, NEW n \in Nat, NEW k \in Nat, k <= n, NEW f, NEW g, UpTo(s, n, f), UpTo(s, k, g)
  PROVE  \A w \in {"code", "comment"}, a, e \in Nat : e <= a + k => (f[<<w, a, e>>] <=> g[<<w, a, e>>])
<1> DEFINE Differ(r) == \E w \in {"code", "comment"}, a, e \in Nat :
                          /\ e - a <= r /\ ~ (f[<<w, a, e>>] <=> g[<<w, a, e>>])
           Bad == {r \in 0..k : Differ(r)}
<1>1. SUFFICES ASSUME Bad # {} PROVE FALSE
  <2>1. ASSUME NEW w \in {"code", "comment"}, NEW a \in Nat, NEW e \in Nat, e <= a + k,
               ~ (f[<<w, a, e>>] <=> g[<<w, a, e>>])
        PROVE  k \in Bad
    <3>1. e - a <= k /\ k \in 0..k
      BY <2>1
    <3> QED
      BY <2>1, <3>1
  <2> QED
    BY <2>1
<1>2. PICK r \in Bad : \A y \in Bad : r <= y
  <2>1. Bad \subseteq Nat
    OBVIOUS
  <2> HIDE DEF Bad
  <2> QED
    BY <1>1, <2>1, LeastNumber
<1>3. r \in 0..k /\ r \in Nat /\ Differ(r)
  <2>1. r \in 0..k /\ Differ(r)
    <3> HIDE DEF Differ
    <3> QED
      OBVIOUS
  <2>2. r \in Nat
    BY <2>1
  <2> QED
    BY <2>1, <2>2
<1>4. PICK w \in {"code", "comment"}, a \in Nat, e \in Nat :
         e - a <= r /\ ~ (f[<<w, a, e>>] <=> g[<<w, a, e>>])
  BY <1>3
<1>5. ASSUME NEW v \in {"code", "comment"}, NEW b \in Nat, NEW c \in Nat, a < e, c - b < e - a
      PROVE  f[<<v, b, c>>] <=> g[<<v, b, c>>]
  <2>1. r - 1 \in 0..k /\ c - b <= r - 1 /\ ~ (r <= r - 1)
    BY <1>3, <1>4, <1>5
  <2>2. r - 1 \notin Bad
    <3> HIDE DEF Bad
    <3> QED
      BY <1>2, <2>1
  <2> QED
    BY <2>1, <2>2
<1>6. e <= a + n /\ e <= a + k
  BY <1>3, <1>4
<1>7. (f[<<w, a, e>>] <=> FillerStep(s, f, w, a, e)) /\ (g[<<w, a, e>>] <=> FillerStep(s, g, w, a, e))
  BY <1>6 DEF UpTo
<1>8. FillerStep(s, f, w, a, e) <=> FillerStep(s, g, w, a, e)
  <2> HIDE DEF Bad, Differ
  <2> QED
    BY <1>5, FillerStepSame
<1> QED
  BY <1>4, <1>7, <1>8

\* There is one for every length.
LEMMA UpToExists == ASSUME NEW s, NEW n \in Nat PROVE \E f : UpTo(s, n, f)
<1> DEFINE Bad == {k \in Nat : ~ \E f : UpTo(s, k, f)}
<1>1. SUFFICES ASSUME Bad # {} PROVE FALSE
  OBVIOUS
<1>2. PICK k \in Bad : \A y \in Bad : k <= y
  <2>1. Bad \subseteq Nat
    OBVIOUS
  <2> HIDE DEF Bad
  <2> QED
    BY <1>1, <2>1, LeastNumber
<1>3. k \in Nat /\ ~ \E f : UpTo(s, k, f)
  OBVIOUS
<1>4. \E g : /\ g \in [Spans -> BOOLEAN]
             /\ k > 0 => UpTo(s, k - 1, g)
  <2>1. CASE k = 0
    <3>1. PICK g : g = [x \in Spans |-> FALSE]
      OBVIOUS
    <3>2. g \in [Spans -> BOOLEAN]
      BY <3>1
    <3>3. ~ (k > 0)
      BY <2>1
    <3> QED
      BY <3>2, <3>3
  <2>2. CASE k # 0
    <3>1. k - 1 \in Nat /\ ~ (k <= k - 1)
      BY <1>3, <2>2
    <3>2. k - 1 \notin Bad
      <4> HIDE DEF Bad
      <4> QED
        BY <1>2, <3>1
    <3> QED
      BY <3>1, <3>2 DEF UpTo
  <2> QED
    BY <2>1, <2>2
<1>5. PICK g : g \in [Spans -> BOOLEAN] /\ (k > 0 => UpTo(s, k - 1, g))
  BY <1>4
<1>6. PICK h : h = [x \in Spans |-> FillerStep(s, g, x[1], x[2], x[3])]
  OBVIOUS
<1>7. h \in [Spans -> BOOLEAN]
  <2>1. \A x \in Spans : FillerStep(s, g, x[1], x[2], x[3]) \in BOOLEAN
    BY Zenon DEF FillerStep
  <2> QED
    BY <1>6, <2>1
<1>8. \A w \in {"code", "comment"}, a, e \in Nat : h[<<w, a, e>>] = FillerStep(s, g, w, a, e)
  <2> TAKE w \in {"code", "comment"}, a \in Nat, e \in Nat
  <2>1. <<w, a, e>> \in Spans
    BY DEF Spans
  <2> QED
    BY <1>6, <2>1
<1>9. ASSUME NEW w \in {"code", "comment"}, NEW a \in Nat, NEW e \in Nat, e <= a + k
      PROVE  h[<<w, a, e>>] <=> FillerStep(s, h, w, a, e)
  <2>1. ASSUME NEW v \in {"code", "comment"}, NEW b \in Nat, NEW c \in Nat, a < e, c - b < e - a
        PROVE  g[<<v, b, c>>] <=> h[<<v, b, c>>]
    <3>1. k > 0 /\ c <= b + (k - 1)
      BY <1>3, <1>9, <2>1
    <3>2. g[<<v, b, c>>] <=> FillerStep(s, g, v, b, c)
      BY <1>5, <3>1 DEF UpTo
    <3> QED
      BY <1>8, <3>2
  <2>2. FillerStep(s, g, w, a, e) <=> FillerStep(s, h, w, a, e)
    <3> HIDE DEF Bad
    <3> QED
      BY <2>1, FillerStepSame
  <2> QED
    BY <1>8, <2>2
<1>10. UpTo(s, k, h)
  BY <1>7, <1>9 DEF UpTo
<1> QED
  BY <1>3, <1>10

\* So Filler is what its definition says.
LEMMA FillerExists ==
  ASSUME NEW s
  PROVE  \E f : f = [x \in Spans |-> FillerStep(s, f, x[1], x[2], x[3])]
<1> DEFINE Size(a, e) == IF a < e THEN e - a ELSE 0
           G(n) == CHOOSE g : UpTo(s, n, g)
           f == [x \in Spans |-> G(Size(x[2], x[3]))[x]]
<1>1. \A n \in Nat : UpTo(s, n, G(n))
  BY UpToExists
<1>2. \A a, e \in Nat : Size(a, e) \in Nat /\ e <= a + Size(a, e)
  OBVIOUS
<1>3. \A w \in {"code", "comment"}, a, e \in Nat : f[<<w, a, e>>] = G(Size(a, e))[<<w, a, e>>]
  BY DEF Spans
<1> HIDE DEF f, G
<1>4. ASSUME NEW w \in {"code", "comment"}, NEW a \in Nat, NEW e \in Nat
      PROVE  f[<<w, a, e>>] <=> FillerStep(s, f, w, a, e)
  <2>1. PICK n : n = Size(a, e)
    OBVIOUS
  <2>2. n \in Nat /\ e <= a + n /\ UpTo(s, n, G(n)) /\ f[<<w, a, e>>] = G(n)[<<w, a, e>>]
    BY <1>1, <1>2, <1>3, <2>1
  <2>3. G(n)[<<w, a, e>>] <=> FillerStep(s, G(n), w, a, e)
    BY <2>2 DEF UpTo
  <2>4. ASSUME NEW v \in {"code", "comment"}, NEW b \in Nat, NEW c \in Nat, a < e, c - b < e - a
        PROVE  G(n)[<<v, b, c>>] <=> f[<<v, b, c>>]
    <3>1. PICK k : k = Size(b, c)
      OBVIOUS
    <3>2. k \in Nat /\ c <= b + k /\ k <= n /\ f[<<v, b, c>>] = G(k)[<<v, b, c>>]
      <4>1. k <= n
        BY <2>1, <2>4, <3>1
      <4> HIDE DEF Size
      <4> QED
        BY <1>2, <1>3, <3>1, <4>1
    <3>3. PICK p, q : p = G(n) /\ q = G(k)
      OBVIOUS
    <3>4. UpTo(s, n, p) /\ UpTo(s, k, q)
      BY <1>1, <2>2, <3>2, <3>3
    <3>5. n \in Nat /\ k \in Nat /\ k <= n /\ c <= b + k
      BY <2>2, <3>2
    <3>6. \A x \in {"code", "comment"}, y, z \in Nat : z <= y + k => (p[<<x, y, z>>] <=> q[<<x, y, z>>])
      BY ONLY <3>4, <3>5, UpToAgree
    <3>7. p[<<v, b, c>>] <=> q[<<v, b, c>>]
      BY <3>5, <3>6
    <3> QED
      BY <3>2, <3>3, <3>7
  <2>5. PICK p : p = G(n)
    OBVIOUS
  <2>6. FillerStep(s, p, w, a, e) <=> FillerStep(s, f, w, a, e)
    <3>1. \A v \in {"code", "comment"}, b, c \in Nat : a < e /\ c - b < e - a => (p[<<v, b, c>>] <=> f[<<v, b, c>>])
      BY <2>4, <2>5
    <3> HIDE DEF Size
    <3> QED
      BY <3>1, FillerStepSame
  <2> QED
    BY <2>2, <2>3, <2>5, <2>6
<1>5. \A x \in Spans : f[x] = FillerStep(s, f, x[1], x[2], x[3])
  <2> TAKE x \in Spans
  <2>1. PICK w \in {"code", "comment"}, a \in Nat, e \in Nat : x = <<w, a, e>>
    BY DEF Spans
  <2>2. f[x] \in BOOLEAN
    <3>1. UpTo(s, Size(a, e), G(Size(a, e))) /\ f[x] = G(Size(a, e))[x]
      BY <1>1, <1>2, <1>3, <2>1
    <3> QED
      BY <3>1 DEF UpTo
  <2>3. FillerStep(s, f, w, a, e) \in BOOLEAN
    BY Zenon DEF FillerStep
  <2>4. f[x] <=> FillerStep(s, f, w, a, e)
    BY <1>4, <2>1
  <2>5. PICK u : u = FillerStep(s, f, w, a, e)
    OBVIOUS
  <2>6. x[1] = w /\ x[2] = a /\ x[3] = e
    BY <2>1
  <2>7. f[x] = u
    BY <2>2, <2>3, <2>4, <2>5
  <2> QED
    BY <2>5, <2>6, <2>7
<1>6. f = [x \in Spans |-> f[x]]
  BY DEF f
<1>7. f = [x \in Spans |-> FillerStep(s, f, x[1], x[2], x[3])]
  BY <1>5, <1>6
<1> QED
  BY <1>7

LEMMA FillerAt ==
  ASSUME NEW s
  PROVE  \A w \in {"code", "comment"}, a, e \in Nat :
           Filler(s)[<<w, a, e>>] <=> FillerStep(s, Filler(s), w, a, e)
<1>1. Filler(s) = [x \in Spans |-> FillerStep(s, Filler(s), x[1], x[2], x[3])]
  BY FillerExists DEF Filler, FillerStep, Spans
<1> TAKE w \in {"code", "comment"}, a \in Nat, e \in Nat
<1>2. <<w, a, e>> \in Spans
  BY DEF Spans
<1>3. PICK F : F = Filler(s)
  OBVIOUS
<1>4. F = [x \in Spans |-> FillerStep(s, F, x[1], x[2], x[3])]
  BY <1>1, <1>3
<1>5. F[<<w, a, e>>] = FillerStep(s, F, w, a, e)
  BY <1>2, <1>4
<1> QED
  BY <1>3, <1>5

-----------------------------------------------------------------------------
(* Reading ahead.                                                            *)

\* The characters of a source.
SrcOK == src \in Seq(STRING) /\ "end" \notin Range(src)

LEMMA PeekFacts ==
  ASSUME SrcOK
  PROVE  /\ Len(src) \in Nat /\ DOMAIN src = 1..Len(src)
         /\ \A p \in 1..Len(src) : Peek(p) = src[p] /\ src[p] # "end" /\ src[p] \in Range(src)
         /\ \A p \in Int : p \notin 1..Len(src) => Peek(p) = "end"
BY DEF SrcOK, Peek, Range

LEMMA AfterFacts ==
  ASSUME SrcOK, NEW j \in 1..Len(src) + 1, NEW cs, "end" \notin cs
  PROVE  /\ After(j, cs) \in j..Len(src) + 1 /\ Peek(After(j, cs)) \notin cs
         /\ \A m \in j..(After(j, cs) - 1) : m \in 1..Len(src) /\ src[m] \in cs
<1> DEFINE N == Len(src)
           S == {e \in j..N + 1 : Peek(e) \notin cs}
<1>1. /\ N \in Nat /\ \A p \in 1..N : Peek(p) = src[p]
      /\ \A p \in Int : p \notin 1..N => Peek(p) = "end"
  BY PeekFacts
<1>2. N + 1 \in S
  BY <1>1
<1>3. S \subseteq Nat
  BY <1>1
<1>4. PICK e \in S : \A y \in S : e <= y
  <2> HIDE DEF S
  <2> QED
    BY <1>2, <1>3, LeastNumber
<1>5. \A m \in j..(e - 1) : m \in 1..N /\ src[m] \in cs
  <2> TAKE m \in j..(e - 1)
  <2>1. m \in 1..N /\ m \in j..N + 1 /\ m < e
    BY <1>1
  <2>2. m \notin S
    BY <2>1, <1>1, <1>4
  <2> QED
    BY <2>1, <2>2, <1>1
<1>6. \E x \in j..(N + 1) : Peek(x) \notin cs /\ \A m \in j..(x - 1) : src[m] \in cs
  BY <1>5
<1>7. /\ After(j, cs) \in j..(N + 1) /\ Peek(After(j, cs)) \notin cs
      /\ \A m \in j..(After(j, cs) - 1) : src[m] \in cs
  BY <1>6 DEF After
<1> HIDE DEF S
<1> QED
  BY <1>1, <1>7

\* A block comment ends behind its start, if at all.
LEMMA BlockScanRange ==
  ASSUME SrcOK, NEW p \in 1..Len(src), NEW d \in Int
  PROVE  BlockScan[<<p, d>>] \in {0} \cup (p + 1..Len(src) + 1)
<1> DEFINE N == Len(src)
           Ends(q, e) == BlockScan[<<q, e>>] \in {0} \cup (q + 1..N + 1)
           Bad == {q \in 1..N : \E e \in Int : ~ Ends(q, e)}
<1>1. N \in Nat /\ \A q \in Int : q \notin 1..N => Peek(q) = "end"
  BY PeekFacts
<1>2. SUFFICES ASSUME Bad # {} PROVE FALSE
  OBVIOUS
<1>3. PICK q \in Bad : \A y \in Bad : y <= q
  <2>1. Bad \subseteq 0..N
    BY <1>1
  <2> HIDE DEF Bad
  <2> QED
    BY <1>1, <1>2, <2>1, GreatestNumber
<1>4. PICK e \in Int : ~ Ends(q, e)
  OBVIOUS
<1>5. \A r \in Nat, f \in Int : r > q => Ends(r, f)
  <2> SUFFICES ASSUME NEW r \in Nat, NEW f \in Int, r > q PROVE Ends(r, f)
    OBVIOUS
  <2>1. CASE r \in 1..N
    <3>1. r \notin Bad
      BY <1>3, <1>1
    <3> QED
      BY <2>1, <3>1
  <2>2. CASE r \notin 1..N
    <3>1. Peek(r) = "end"
      BY <1>1, <2>2
    <3>2. BlockScan[<<r, f>>] = BlockStep(BlockScan, r, f)
      BY BlockScanAt
    <3> QED
      BY <3>1, <3>2 DEF BlockStep
  <2> QED
    BY <2>1, <2>2
<1>6. q \in 1..N /\ q \in Nat
  BY <1>1
<1>7. BlockScan[<<q, e>>] = BlockStep(BlockScan, q, e)
  BY <1>6, BlockScanAt
<1>8. /\ Ends(q + 2, e + 1) /\ Ends(q + 2, e - 1) /\ Ends(q + 1, e)
  BY <1>5, <1>6
<1>9. Peek(q + 1) # "end" => q + 2 <= N + 1
  BY <1>1, <1>6
<1> HIDE DEF Bad
<1> QED
  BY <1>1, <1>4, <1>6, <1>7, <1>8, <1>9 DEF BlockStep

LEMMA CommentEndRange ==
  ASSUME SrcOK, NEW p \in 1..Len(src), StartsComment(p)
  PROVE  CommentEnd(p) \in {0} \cup (p + 1..Len(src) + 1)
<1>1. Len(src) \in Nat /\ Peek(p) = src[p] /\ src[p] \in Range(src) /\ "end" \notin Range(src)
  BY PeekFacts DEF SrcOK
<1>2. BlockCommentEnd(p) \in {0} \cup (p + 1..Len(src) + 1)
  BY BlockScanRange DEF BlockCommentEnd
<1>3. /\ LineEnd(p) \in p..Len(src) + 1 /\ Peek(LineEnd(p)) \notin Range(src) \ {"\n"}
  <2>1. p \in 1..Len(src) + 1
    BY <1>1
  <2> QED
    BY <1>1, <2>1, AfterFacts DEF LineEnd
<1>4. LineEnd(p) # p
  BY <1>1, <1>3 DEF StartsComment
<1> QED
  BY <1>1, <1>2, <1>3, <1>4 DEF CommentEnd

LEMMA CommentsScanAt ==
  ASSUME SrcOK
  PROVE  \A p \in Nat : CommentsScan[p] =
           IF p > 0 /\ StartsComment(p) THEN CommentsScan[CommentEnd(p)] ELSE p
<1>1. PICK stop : stop = {p \in Nat : ~ (p > 0 /\ StartsComment(p))}
  OBVIOUS
<1>2. PICK base : base = [p \in Nat |-> p]
  OBVIOUS
<1>3. PICK next : next = [p \in Nat |-> IF p \in stop THEN p ELSE CommentEnd(p)]
  OBVIOUS
<1>4. ASSUME NEW p \in Nat, p > 0, StartsComment(p) PROVE CommentEnd(p) \in Nat
  <2>1. p \in 1..Len(src)
    BY <1>4, PeekFacts DEF StartsComment
  <2>2. Len(src) \in Nat
    BY PeekFacts
  <2> QED
    BY <1>4, <2>1, <2>2, CommentEndRange
<1>5. next \in [Nat -> Nat]
  BY <1>1, <1>3, <1>4
<1>6. PICK f : Loop(f, Nat, stop, base, next)
  BY <1>5, TailRecursion
<1>7. f = [p \in Nat |-> IF p > 0 /\ StartsComment(p) THEN f[CommentEnd(p)] ELSE p]
  <2>1. f = [p \in Nat |-> f[p]]
    BY <1>6 DEF Loop
  <2>2. \A p \in Nat : f[p] = IF p > 0 /\ StartsComment(p) THEN f[CommentEnd(p)] ELSE p
    BY <1>1, <1>2, <1>3, <1>6 DEF Loop
  <2> QED
    BY <2>1, <2>2
<1>8. CommentsScan = [p \in Nat |-> IF p > 0 /\ StartsComment(p) THEN CommentsScan[CommentEnd(p)] ELSE p]
  BY <1>7 DEF CommentsScan
<1> QED
  BY <1>8

\* Comments end behind their start, and where there is none nothing is skipped.
LEMMA CommentsEndRange ==
  ASSUME SrcOK, NEW p \in 1..Len(src) + 1
  PROVE  /\ CommentsEnd(p) \in {0} \cup (p..Len(src) + 1)
         /\ CommentsEnd(p) # p => StartsComment(p)
<1> DEFINE N == Len(src)
           Ends(q) == CommentsScan[q] \in {0} \cup (q..N + 1)
           Bad == {q \in 1..N + 1 : ~ Ends(q)}
<1>1. N \in Nat /\ \A q \in Int : q \notin 1..N => Peek(q) = "end"
  BY PeekFacts
<1>2. \A q \in Nat : CommentsScan[q] = IF q > 0 /\ StartsComment(q) THEN CommentsScan[CommentEnd(q)] ELSE q
  BY CommentsScanAt
<1>3. ASSUME Bad # {} PROVE FALSE
  <2>1. Bad \subseteq 0..(N + 1) /\ N + 1 \in Nat
    BY <1>1
  <2>2. PICK q \in Bad : \A y \in Bad : y <= q
    <3> HIDE DEF Bad
    <3> QED
      BY <1>3, <2>1, GreatestNumber
  <2>3. q \in Nat /\ q \in 1..N + 1 /\ ~ Ends(q)
    BY <1>1
  <2>4. q > 0 /\ StartsComment(q)
    BY <1>1, <1>2, <2>3
  <2>5. q \in 1..N
    BY <1>1, <2>3, <2>4 DEF StartsComment
  <2>6. CommentEnd(q) \in {0} \cup (q + 1..N + 1)
    BY <2>4, <2>5, CommentEndRange
  <2>7. CASE CommentEnd(q) = 0
    BY <1>2, <2>3, <2>4, <2>7
  <2>8. CASE CommentEnd(q) \in q + 1..N + 1
    <3>1. CommentEnd(q) \notin Bad /\ CommentEnd(q) \in 1..N + 1
      BY <1>1, <2>2, <2>5, <2>8
    <3> QED
      BY <1>1, <1>2, <2>3, <2>4, <2>8, <3>1
  <2> QED
    BY <2>6, <2>7, <2>8
<1>4. p \in Nat
  BY <1>1
<1> QED
  BY <1>2, <1>3, <1>4 DEF CommentsEnd

-----------------------------------------------------------------------------
(* Comments are filler.                                                      *)

\* Only blanks and whole comments from a to b.
Skipped(a, b) == a <= b /\ Filler(src)[<<"code", a, b>>]

LEMMA PairFacts ==
  ASSUME SrcOK, NEW p \in 1..Len(src)
  PROVE  /\ BeginsBlock(src, p) <=> Peek(p) = "/" /\ Peek(p + 1) = "*"
         /\ EndsBlock(src, p) <=> Peek(p) = "*" /\ Peek(p + 1) = "/"
         /\ BeginsBlock(src, p) \/ EndsBlock(src, p) => p + 1 \in 1..Len(src)
<1>1. PICK N \in Nat : N = Len(src)
  BY PeekFacts
<1>2. DOMAIN src = 1..N /\ p + 1 \in Int /\ Peek(p) = src[p]
  BY <1>1, PeekFacts
<1>3. CASE p + 1 \in 1..N
  <2>1. Peek(p + 1) = src[p + 1]
    BY <1>1, <1>3, PeekFacts
  <2> QED
    BY <1>1, <1>2, <1>3, <2>1 DEF BeginsBlock, EndsBlock
<1>4. CASE p + 1 \notin 1..N
  <2>1. Peek(p + 1) = "end"
    BY <1>1, <1>2, <1>4, PeekFacts
  <2>2. Peek(p + 1) # "*" /\ Peek(p + 1) # "/"
    BY <2>1
  <2> QED
    BY <1>1, <1>2, <1>4, <2>2 DEF BeginsBlock, EndsBlock
<1> QED
  BY <1>3, <1>4

\* The text behind p, d comments deep, is filler up to where one of them ends.
LEMMA InsideComment ==
  ASSUME SrcOK, NEW p \in 1..Len(src) + 1, NEW d \in Nat \ {0}, BlockScan[<<p, d>>] # 0
  PROVE  \E m \in Nat : /\ p <= m /\ m + 2 <= Len(src) + 1
                        /\ EndsBlock(src, m) /\ Filler(src)[<<"comment", p, m>>]
                        /\ BlockScan[<<p, d>>] = IF d = 1 THEN m + 2 ELSE BlockScan[<<m + 2, d - 1>>]
<1> DEFINE N == Len(src)
           Within(q, f, m) ==
             /\ q <= m /\ m + 2 <= N + 1
             /\ EndsBlock(src, m) /\ Filler(src)[<<"comment", q, m>>]
             /\ BlockScan[<<q, f>>] = IF f = 1 THEN m + 2 ELSE BlockScan[<<m + 2, f - 1>>]
           Fails(q) == \E f \in Nat \ {0} : BlockScan[<<q, f>>] # 0 /\ ~ \E m \in Nat : Within(q, f, m)
           Bad == {q \in 1..(N + 1) : Fails(q)}
<1>1. N \in Nat /\ \A q \in Int : q \notin 1..N => Peek(q) = "end"
  BY PeekFacts
<1>2. SUFFICES ASSUME Bad # {} PROVE FALSE
  <2>1. Fails(p) \/ \E m \in Nat : Within(p, d, m)
    OBVIOUS
  <2> QED
    BY <2>1
<1>3. PICK q \in Bad : \A y \in Bad : y <= q
  <2>1. Bad \subseteq 0..(N + 1) /\ N + 1 \in Nat
    BY <1>1
  <2> HIDE DEF Bad
  <2> QED
    BY <1>2, <2>1, GreatestNumber
<1>4. q \in 1..(N + 1) /\ Fails(q) /\ q \in Nat
  <2> HIDE DEF Fails
  <2> QED
    BY <1>1
<1>5. PICK f \in Nat \ {0} : BlockScan[<<q, f>>] # 0 /\ ~ \E m \in Nat : Within(q, f, m)
  BY <1>4
<1>6. ASSUME NEW r \in 1..(N + 1), r > q, NEW g \in Nat \ {0}, BlockScan[<<r, g>>] # 0
      PROVE  \E m \in Nat : Within(r, g, m)
  <2>1. r \notin Bad
    <3>1. ~ (r <= q)
      BY <1>1, <1>4, <1>6
    <3> HIDE DEF Bad
    <3> QED
      BY <1>3, <3>1
  <2>2. ~ Fails(r)
    <3> HIDE DEF Fails
    <3> QED
      BY <2>1, <1>6
  <2> QED
    BY <2>2, <1>6
<1>7. BlockScan[<<q, f>>] = BlockStep(BlockScan, q, f)
  <2>1. q \in Nat /\ f \in Int
    BY <1>4
  <2> QED
    BY ONLY <2>1, BlockScanAt
<1>8. Peek(q) \notin {"end", "\t"} /\ q \in 1..N
  <2>1. Peek(q) \notin {"end", "\t"}
    BY <1>5, <1>7 DEF BlockStep
  <2> QED
    BY <1>1, <1>4, <2>1
<1>9. /\ BeginsBlock(src, q) <=> Peek(q) = "/" /\ Peek(q + 1) = "*"
      /\ EndsBlock(src, q) <=> Peek(q) = "*" /\ Peek(q + 1) = "/"
      /\ BeginsBlock(src, q) \/ EndsBlock(src, q) => q + 1 \in 1..N
  BY <1>8, PairFacts
<1>10. \A a, e \in Nat : Filler(src)[<<"comment", a, e>>] <=> FillerStep(src, Filler(src), "comment", a, e)
  BY FillerAt
<1> HIDE DEF Bad, Fails
<1>11. CASE EndsBlock(src, q)
  <2>1. BlockScan[<<q, f>>] = IF f = 1 THEN q + 2 ELSE BlockScan[<<q + 2, f - 1>>]
    BY <1>7, <1>9, <1>8, <1>11 DEF BlockStep
  <2>2. Filler(src)[<<"comment", q, q>>]
    BY <1>4, <1>10 DEF FillerStep
  <2>3. Within(q, f, q)
    BY <1>1, <1>4, <1>9, <1>11, <2>1, <2>2
  <2> QED
    BY <1>4, <1>5, <2>3
<1>12. CASE BeginsBlock(src, q)
  <2>1. BlockScan[<<q, f>>] = BlockScan[<<q + 2, f + 1>>]
    BY <1>7, <1>9, <1>8, <1>12 DEF BlockStep
  <2>2. q + 2 \in 1..(N + 1) /\ q + 2 > q /\ f + 1 \in Nat \ {0} /\ f + 1 # 1 /\ (f + 1) - 1 = f
    BY <1>1, <1>4, <1>9, <1>12
  <2>3. \E m \in Nat : Within(q + 2, f + 1, m)
    BY <1>5, <1>6, <2>1, <2>2
  <2>4. PICK m \in Nat : Within(q + 2, f + 1, m)
    BY <2>3
  <2>5. /\ q + 2 <= m /\ m + 2 <= N + 1 /\ EndsBlock(src, m) /\ Filler(src)[<<"comment", q + 2, m>>]
        /\ BlockScan[<<q, f>>] = BlockScan[<<m + 2, f>>]
    BY <2>1, <2>2, <2>4
  <2>6. m + 2 \in 1..(N + 1) /\ m + 2 > q
    BY <1>1, <1>4, <2>5
  <2>7. \E k \in Nat : Within(m + 2, f, k)
    BY <1>5, <1>6, <2>5, <2>6
  <2>8. PICK k \in Nat : Within(m + 2, f, k)
    BY <2>7
  <2>9. q <= k /\ m + 2 \in (q + 4)..k /\ (m + 2) - 2 = m /\ q < k
    BY <1>4, <2>5, <2>8
  <2>10. Filler(src)[<<"comment", q, k>>]
    <3>1. Filler(src)[<<"comment", m + 2, k>>]
      BY <2>8
    <3>2. FillerStep(src, Filler(src), "comment", q, k)
      BY <1>12, <2>5, <2>9, <3>1 DEF FillerStep
    <3> QED
      BY <1>4, <1>10, <3>2
  <2>11. Within(q, f, k)
    BY <2>5, <2>8, <2>9, <2>10
  <2> QED
    BY <1>5, <2>11
<1>13. CASE ~ BeginsBlock(src, q) /\ ~ EndsBlock(src, q)
  <2>1. BlockScan[<<q, f>>] = BlockScan[<<q + 1, f>>]
    BY <1>7, <1>9, <1>8, <1>13 DEF BlockStep
  <2>2. q + 1 \in 1..(N + 1) /\ q + 1 > q
    BY <1>1, <1>8
  <2>3. \E m \in Nat : Within(q + 1, f, m)
    BY <1>5, <1>6, <2>1, <2>2
  <2>4. PICK m \in Nat : Within(q + 1, f, m)
    BY <2>3
  <2>5. q < m /\ q <= m
    BY <1>4, <2>4
  <2>6. Filler(src)[<<"comment", q, m>>]
    <3>1. Filler(src)[<<"comment", q + 1, m>>]
      BY <2>4
    <3>2. Idle(src, "comment", q)
      <4>1. q \in DOMAIN src /\ src[q] # "\t"
        BY <1>8, PeekFacts
      <4> QED
        BY <1>13, <4>1 DEF Idle
    <3>3. FillerStep(src, Filler(src), "comment", q, m)
      BY <2>5, <3>1, <3>2 DEF FillerStep
    <3> QED
      BY <1>4, <1>10, <3>3
  <2>7. Within(q, f, m)
    BY <2>1, <2>4, <2>5, <2>6
  <2> QED
    BY <1>5, <2>7
<1> QED
  BY <1>11, <1>12, <1>13

LEMMA SkippedNothing ==
  ASSUME NEW a \in Nat
  PROVE  Skipped(a, a)
<1>1. Filler(src)[<<"code", a, a>>]
  BY FillerAt DEF FillerStep
<1> QED
  BY <1>1 DEF Skipped

LEMMA SkippedBlank ==
  ASSUME SrcOK, NEW a \in 1..Len(src), src[a] \in {Space, Return, "\n"}
  PROVE  Skipped(a, a + 1)
<1>1. a \in Nat /\ a + 1 \in Nat /\ a < a + 1 /\ a <= a + 1 /\ a \in DOMAIN src
  BY PeekFacts
<1>2. Filler(src)[<<"code", a + 1, a + 1>>]
  BY <1>1, SkippedNothing DEF Skipped
<1>3. Idle(src, "code", a)
  BY <1>1 DEF Idle
<1>4. FillerStep(src, Filler(src), "code", a, a + 1)
  BY <1>1, <1>2, <1>3 DEF FillerStep
<1>5. Filler(src)[<<"code", a, a + 1>>]
  BY <1>1, <1>4, FillerAt
<1> QED
  BY <1>1, <1>5 DEF Skipped

LEMMA SkippedTransitive ==
  ASSUME NEW a \in Nat, NEW b \in Nat, NEW c \in Nat, Skipped(a, b), Skipped(b, c)
  PROVE  Skipped(a, c)
<1> DEFINE Bad == {x \in 0..b : Filler(src)[<<"code", x, b>>] /\ ~ Filler(src)[<<"code", x, c>>]}
<1>1. a <= b /\ b <= c /\ Filler(src)[<<"code", a, b>>] /\ Filler(src)[<<"code", b, c>>]
  BY DEF Skipped
<1>2. SUFFICES ASSUME Bad # {} PROVE FALSE
  <2>1. a \in 0..b /\ a <= c
    BY <1>1
  <2> QED
    BY <1>1, <2>1 DEF Skipped
<1>3. PICK x \in Bad : \A y \in Bad : y <= x
  <2>1. Bad \subseteq 0..b
    OBVIOUS
  <2> HIDE DEF Bad
  <2> QED
    BY <1>2, <2>1, GreatestNumber
<1>4. x \in 0..b /\ x \in Nat /\ Filler(src)[<<"code", x, b>>] /\ ~ Filler(src)[<<"code", x, c>>]
  OBVIOUS
<1>5. ASSUME NEW m \in 0..b, m > x, Filler(src)[<<"code", m, b>>]
      PROVE  Filler(src)[<<"code", m, c>>]
  <2>1. m \notin Bad
    <3>1. ~ (m <= x)
      BY <1>4, <1>5
    <3> HIDE DEF Bad
    <3> QED
      BY <1>3, <3>1
  <2> QED
    BY <1>5, <2>1
<1> HIDE DEF Bad
<1>6. FillerStep(src, Filler(src), "code", x, b) /\ ~ FillerStep(src, Filler(src), "code", x, c)
  BY <1>4, FillerAt
<1>7. CASE x = b
  BY <1>1, <1>4, <1>7
<1>8. CASE x < b /\ Idle(src, "code", x) /\ Filler(src)[<<"code", x + 1, b>>]
  <2>1. x + 1 \in 0..b /\ x + 1 > x /\ x < c
    BY <1>1, <1>4, <1>8
  <2>2. Filler(src)[<<"code", x + 1, c>>]
    BY <1>5, <1>8, <2>1
  <2> QED
    BY <1>6, <1>8, <2>1, <2>2 DEF FillerStep
<1>9. CASE \E m \in (x + 4)..b : /\ BeginsBlock(src, x) /\ EndsBlock(src, m - 2)
                               /\ Filler(src)[<<"comment", x + 2, m - 2>>] /\ Filler(src)[<<"code", m, b>>]
  <2>1. PICK m \in (x + 4)..b : /\ BeginsBlock(src, x) /\ EndsBlock(src, m - 2)
                               /\ Filler(src)[<<"comment", x + 2, m - 2>>] /\ Filler(src)[<<"code", m, b>>]
    BY <1>9
  <2>2. m \in 0..b /\ m > x /\ m \in (x + 4)..c
    BY <1>1, <1>4, <2>1
  <2>3. Filler(src)[<<"code", m, c>>]
    BY <1>5, <2>1, <2>2
  <2> QED
    BY <1>6, <2>1, <2>2, <2>3 DEF FillerStep
<1>10. CASE \E m \in (x + 2)..b : LineComment(src, x, m) /\ Filler(src)[<<"code", m, b>>]
  <2>1. PICK m \in (x + 2)..b : LineComment(src, x, m) /\ Filler(src)[<<"code", m, b>>]
    BY <1>10
  <2>2. m \in 0..b /\ m > x /\ m \in (x + 2)..c
    BY <1>1, <1>4, <2>1
  <2>3. Filler(src)[<<"code", m, c>>]
    BY <1>5, <2>1, <2>2
  <2> QED
    BY <1>6, <2>1, <2>2, <2>3 DEF FillerStep
<1> QED
  BY <1>6, <1>7, <1>8, <1>9, <1>10 DEF FillerStep

\* A run of spaces.
LEMMA SkippedSpaces ==
  ASSUME SrcOK, NEW a \in 1..(Len(src) + 1), NEW b \in a..(Len(src) + 1),
         \A m \in a..(b - 1) : src[m] \in {Space}
  PROVE  Skipped(a, b)
<1> DEFINE Bad == {x \in a..b : ~ Skipped(x, b)}
<1>1. PICK N \in Nat : N = Len(src)
  BY PeekFacts
<1>2. a \in 1..(N + 1) /\ b \in a..(N + 1) /\ a \in Nat /\ b \in Nat
  BY <1>1
<1>3. SUFFICES ASSUME Bad # {} PROVE FALSE
  BY <1>2
<1>4. PICK x \in Bad : \A y \in Bad : y <= x
  <2>1. Bad \subseteq 0..b
    BY <1>2
  <2> HIDE DEF Bad
  <2> QED
    BY <1>2, <1>3, <2>1, GreatestNumber
<1>5. x \in a..b /\ ~ Skipped(x, b)
  OBVIOUS
<1>6. x # b
  BY <1>2, <1>5, SkippedNothing
<1>7. x \in 1..N /\ x \in a..(b - 1) /\ x + 1 \in a..b /\ x \in Nat /\ x + 1 \in Nat /\ ~ (x + 1 <= x)
  BY <1>2, <1>5, <1>6
<1>8. Skipped(x, x + 1)
  <2>1. src[x] \in {Space, Return, "\n"} /\ x \in 1..Len(src)
    BY <1>1, <1>7
  <2> QED
    BY <2>1, SkippedBlank
<1>9. Skipped(x + 1, b)
  <2>1. x + 1 \notin Bad
    <3> HIDE DEF Bad
    <3> QED
      BY <1>4, <1>7
  <2> QED
    BY <1>7, <2>1
<1> QED
  BY <1>2, <1>5, <1>7, <1>8, <1>9, SkippedTransitive

\* A comment that ends.
LEMMA SkippedComment ==
  ASSUME SrcOK, NEW p \in 1..Len(src), StartsComment(p), CommentEnd(p) # 0
  PROVE  Skipped(p, CommentEnd(p))
<1>1. PICK N \in Nat : N = Len(src)
  BY PeekFacts
<1>2. PICK e : e = CommentEnd(p)
  OBVIOUS
<1>3. p \in 1..N /\ p \in Nat /\ e \in (p + 1)..(N + 1) /\ e \in Nat /\ e > p
  BY <1>1, <1>2, CommentEndRange
<1>4. Peek(p) = "/" /\ Peek(p + 1) \in {"/", "*"} /\ p + 1 \in 1..N
  <2>1. Peek(p) = "/" /\ Peek(p + 1) \in {"/", "*"}
    BY DEF StartsComment
  <2>2. Peek(p + 1) # "end" /\ p + 1 \in Int
    BY <1>3, <2>1
  <2> QED
    BY <1>1, <2>1, <2>2, PeekFacts
<1>5. /\ src[p] = "/" /\ src[p + 1] = Peek(p + 1)
  BY <1>1, <1>3, <1>4, PeekFacts
<1>6. Filler(src)[<<"code", e, e>>]
  BY <1>3, SkippedNothing DEF Skipped
<1>7. CASE Peek(p + 1) = "*"
  <2>1. e = BlockScan[<<p, 0>>]
    BY <1>2, <1>7 DEF CommentEnd, BlockCommentEnd
  <2>2. BlockScan[<<p, 0>>] = BlockScan[<<p + 2, 1>>]
    <3>1. BlockScan[<<p, 0>>] = BlockStep(BlockScan, p, 0)
      BY <1>3, BlockScanAt
    <3>2. Peek(p) \notin {"end", "\t"} /\ 0 + 1 = 1
      BY <1>4
    <3> QED
      BY <1>4, <1>7, <3>1, <3>2 DEF BlockStep
  <2>3. p + 2 \in 1..Len(src) + 1 /\ 1 \in Nat \ {0} /\ BlockScan[<<p + 2, 1>>] # 0
    BY <1>1, <1>2, <1>4, <2>1, <2>2
  <2>4. PICK m \in Nat : /\ p + 2 <= m /\ EndsBlock(src, m) /\ Filler(src)[<<"comment", p + 2, m>>]
                        /\ e = m + 2
    BY <2>1, <2>2, <2>3, InsideComment
  <2>5. e \in (p + 4)..e /\ e - 2 = m
    BY <1>3, <2>4
  <2>6. BeginsBlock(src, p)
    BY <1>4, <1>7, PairFacts
  <2>7. FillerStep(src, Filler(src), "code", p, e)
    BY <1>6, <2>4, <2>5, <2>6 DEF FillerStep
  <2>8. Filler(src)[<<"code", p, e>>]
    BY <1>3, <2>7, FillerAt
  <2> QED
    BY <1>2, <1>3, <2>8 DEF Skipped
<1>8. CASE Peek(p + 1) # "*"
  <2>1. e = LineEnd(p) /\ \A m \in p..LineEnd(p) : src[m] # "\t"
    BY <1>2, <1>3, <1>8 DEF CommentEnd
  <2>2. PICK cs : cs = Range(src) \ {"\n"}
    OBVIOUS
  <2>3. /\ Peek(e) \notin cs /\ \A m \in p..(e - 1) : m \in 1..N /\ src[m] \in cs
    <3>1. p \in 1..Len(src) + 1 /\ "end" \notin cs /\ e = After(p, cs)
      BY <1>1, <1>3, <2>1, <2>2 DEF LineEnd, SrcOK
    <3> QED
      BY <1>1, <3>1, AfterFacts
  <2>4. src[p + 1] = "/"
    BY <1>4, <1>5, <1>8
  <2>5. p + 1 # e
    <3>1. Peek(p + 1) \in cs
      <4>1. src[p + 1] \in Range(src)
        BY <1>1, <1>4, PeekFacts
      <4> QED
        BY <1>5, <2>2, <2>4, <4>1
    <3> QED
      BY <2>3, <3>1
  <2>6. e \in (p + 2)..e /\ e - 1 \in DOMAIN src
    <3>1. e \in (p + 2)..e /\ e - 1 \in p..(e - 1)
      BY <1>3, <2>5
    <3> QED
      BY <1>1, <2>3, <3>1, PeekFacts
  <2>7. e \in DOMAIN src => src[e] = "\n"
    <3>1. ASSUME e \in DOMAIN src PROVE src[e] = "\n"
      <4>1. e \in 1..Len(src)
        BY <3>1, PeekFacts
      <4>2. Peek(e) = src[e] /\ src[e] \in Range(src)
        BY <4>1, PeekFacts
      <4> QED
        BY <2>2, <2>3, <4>2
    <3> QED
      BY <3>1
  <2>8. \A q \in p..(e - 1) : src[q] \notin {"\n", "\t"}
    <3> TAKE q \in p..(e - 1)
    <3>1. q \in p..e /\ src[q] \in cs
      BY <1>3, <2>3
    <3> QED
      BY <2>1, <2>2, <3>1
  <2>9. LineComment(src, p, e)
    BY <1>5, <2>4, <2>6, <2>7, <2>8 DEF LineComment
  <2>10. FillerStep(src, Filler(src), "code", p, e)
    BY <1>6, <2>6, <2>9 DEF FillerStep
  <2>11. Filler(src)[<<"code", p, e>>]
    BY <1>3, <2>10, FillerAt
  <2> QED
    BY <1>2, <1>3, <2>11 DEF Skipped
<1> QED
  BY <1>7, <1>8

\* Comments one after the other.
LEMMA SkippedComments ==
  ASSUME SrcOK, NEW p \in 1..(Len(src) + 1), CommentsEnd(p) # 0
  PROVE  Skipped(p, CommentsEnd(p))
<1> DEFINE N == Len(src)
           Bad == {q \in 1..(N + 1) : CommentsScan[q] # 0 /\ ~ Skipped(q, CommentsScan[q])}
<1>1. N \in Nat /\ \A q \in Int : q \notin 1..N => Peek(q) = "end"
  BY PeekFacts
<1>2. \A q \in Nat : CommentsScan[q] = IF q > 0 /\ StartsComment(q) THEN CommentsScan[CommentEnd(q)] ELSE q
  BY CommentsScanAt
<1>3. SUFFICES ASSUME Bad # {} PROVE FALSE
  BY DEF CommentsEnd
<1>4. PICK q \in Bad : \A y \in Bad : y <= q
  <2>1. Bad \subseteq 0..(N + 1) /\ N + 1 \in Nat
    BY <1>1
  <2> HIDE DEF Bad
  <2> QED
    BY <1>3, <2>1, GreatestNumber
<1>5. q \in 1..(N + 1) /\ CommentsScan[q] # 0 /\ ~ Skipped(q, CommentsScan[q]) /\ q \in Nat /\ q > 0
  BY <1>1
<1>6. CASE ~ StartsComment(q)
  BY <1>2, <1>5, <1>6, SkippedNothing
<1>7. CASE StartsComment(q)
  <2>1. PICK e : e = CommentEnd(q)
    OBVIOUS
  <2>2. q \in 1..N
    BY <1>1, <1>5, <1>7 DEF StartsComment
  <2>3. e \in {0} \cup ((q + 1)..(N + 1))
    BY <1>7, <2>1, <2>2, CommentEndRange
  <2>4. CommentsScan[q] = CommentsScan[e]
    BY <1>2, <1>5, <1>7, <2>1
  <2>5. e # 0
    BY <1>2, <1>5, <2>4
  <2>6. e \in 1..(N + 1) /\ e \in Nat /\ ~ (e <= q)
    BY <1>1, <1>5, <2>3, <2>5
  <2>7. Skipped(q, e)
    BY <1>7, <2>1, <2>2, <2>5, SkippedComment
  <2>8. Skipped(e, CommentsScan[e])
    <3>1. e \notin Bad
      <4> HIDE DEF Bad
      <4> QED
        BY <1>4, <2>6
    <3> QED
      BY <1>5, <2>4, <2>6, <3>1
  <2>9. CommentsScan[e] \in Nat
    <3>1. CommentsEnd(e) \in {0} \cup (e..(N + 1))
      BY <2>6, CommentsEndRange
    <3> QED
      BY <2>6, <3>1 DEF CommentsEnd
  <2> QED
    BY <1>5, <2>4, <2>6, <2>7, <2>8, <2>9, SkippedTransitive
<1> QED
  BY <1>6, <1>7

-----------------------------------------------------------------------------
(* Strings.                                                                  *)

\* What StringScan does at one position.
StringStep(f, p) ==
  CASE Peek(p) \in {"end", "\n"}                                -> 0
    [] Peek(p) = Quote                                          -> p + 1
    [] Peek(p) = "\\" /\ Peek(p + 1) \in {"end", "\n"}          -> 0
    [] Peek(p) = "\\" /\ Peek(p + 1) = "x"                      ->
          IF Peek(p + 2) \in HexDigits /\ Peek(p + 3) \in HexDigits THEN f[p + 4] ELSE 0
    [] Peek(p) = "\\" /\ Peek(p + 1) \notin {"end", "\n", "x"}  -> f[p + 2]
    [] OTHER                                                    -> f[p + 1]

LEMMA Characters ==
  /\ Quote \notin {"end", "\n", "\\", "x", "b"} /\ Quote \notin HexDigits
  /\ "end" \notin HexDigits /\ "\\" \notin HexDigits
BY Zenon DEF Quote, HexDigits, Digits

LEMMA StringScanAt == \A p \in Nat : StringScan[p] = StringStep(StringScan, p)
<1> DEFINE Hex(p) == Peek(p + 2) \in HexDigits /\ Peek(p + 3) \in HexDigits
           Cut(p) == Peek(p + 1) \in {"end", "\n"} \/ (Peek(p + 1) = "x" /\ ~ Hex(p))
           Back(p) == Peek(p) = "\\"
<1>1. PICK stop : stop = {p \in Nat : Peek(p) \in {"end", "\n", Quote} \/ (Back(p) /\ Cut(p))}
  OBVIOUS
<1>2. PICK base : base = [p \in Nat |-> IF Peek(p) = Quote THEN p + 1 ELSE 0]
  OBVIOUS
<1>3. PICK next : next = [p \in Nat |-> IF Back(p) THEN IF Peek(p + 1) = "x" THEN p + 4 ELSE p + 2
                                        ELSE p + 1]
  OBVIOUS
<1>4. next \in [Nat -> Nat]
  BY <1>3
<1>5. PICK f : Loop(f, Nat, stop, base, next)
  BY <1>4, TailRecursion
<1>6. ASSUME NEW p \in Nat
      PROVE  f[p] = StringStep(f, p)
  <2>1. f[p] = IF p \in stop THEN base[p] ELSE f[next[p]]
    BY <1>5 DEF Loop
  <2>2. base[p] = IF Peek(p) = Quote THEN p + 1 ELSE 0
    BY <1>2
  <2>3. next[p] = IF Back(p) THEN IF Peek(p + 1) = "x" THEN p + 4 ELSE p + 2 ELSE p + 1
    BY <1>3
  <2>4. p \in stop <=> Peek(p) \in {"end", "\n", Quote} \/ (Back(p) /\ Cut(p))
    BY <1>1
  <2> QED
    BY <2>1, <2>2, <2>3, <2>4, Characters DEF StringStep
<1>7. f = [p \in Nat |-> StringStep(f, p)]
  <2>1. f = [p \in Nat |-> f[p]]
    BY <1>5 DEF Loop
  <2>2. \A p \in Nat : f[p] = StringStep(f, p)
    BY <1>6
  <2> QED
    BY <2>1, <2>2
<1>8. StringScan = [p \in Nat |-> StringStep(StringScan, p)]
  BY <1>7 DEF StringScan, StringStep
<1> QED
  BY <1>8

\* Behind anything but a backslash nothing is escaped.
LEMMA NotEscaped ==
  ASSUME NEW p \in Nat, p > 1, src[p - 1] # "\\"
  PROVE  ~ Escaped(p)
<1> SUFFICES ASSUME NEW n \in 1..(p - 1), \A q \in (p - n)..(p - 1) : src[q] = "\\" PROVE FALSE
  BY DEF Escaped
<1> p - 1 \in (p - n)..(p - 1)
  OBVIOUS
<1> QED
  OBVIOUS

\* A backslash that is not escaped escapes what follows, ...
LEMMA EscapedNext ==
  ASSUME SrcOK, NEW p \in 1..Len(src), ~ Escaped(p), src[p] = "\\"
  PROVE  Escaped(p + 1)
<1> DEFINE Run(n) == \A q \in (p - n)..(p - 1) : src[q] = "\\"
           S == {n \in 0..(p - 1) : Run(n)}
<1>1. p \in Nat /\ p - 1 \in Nat
  BY PeekFacts
<1>2. 0 \in S
  BY <1>1
<1>3. PICK n \in S : \A m \in S : m <= n
  <2> HIDE DEF S
  <2>1. S \subseteq 0..(p - 1)
    BY DEF S
  <2> QED
    BY <1>1, <1>2, <2>1, GreatestNumber
<1>4. n \in 0..(p - 1) /\ Run(n)
  OBVIOUS
<1>5. Peek(p - n - 1) # "\\"
  <2> SUFFICES ASSUME Peek(p - n - 1) = "\\" PROVE FALSE
    OBVIOUS
  <2>1. p - n - 1 \in 1..Len(src) /\ src[p - n - 1] = "\\"
    BY <1>1, <1>4, PeekFacts
  <2>2. n + 1 \in 0..(p - 1)
    BY <1>1, <1>4, <2>1
  <2>3. \A q \in (p - (n + 1))..(p - 1) : q = p - n - 1 \/ q \in (p - n)..(p - 1)
    BY <1>1, <1>4
  <2>4. n + 1 \in S
    BY <1>4, <2>1, <2>2, <2>3
  <2> QED
    BY <1>3, <1>4, <2>4
<1>6. n % 2 = 0
  <2>1. n = 0 \/ n \in 1..(p - 1)
    BY <1>4
  <2>2. n % 2 # 1
    BY <1>4, <1>5, <2>1 DEF Escaped
  <2> QED
    BY <1>4, <2>2
<1>7. n + 1 \in 1..((p + 1) - 1) /\ (n + 1) % 2 = 1
  BY <1>1, <1>4, <1>6
<1>8. \A q \in ((p + 1) - (n + 1))..((p + 1) - 1) : q = p \/ q \in (p - n)..(p - 1)
  BY <1>1, <1>4
<1>9. (p + 1) - (n + 1) - 1 = p - n - 1
  BY <1>1, <1>4
<1> HIDE DEF S
<1> QED
  BY <1>4, <1>5, <1>7, <1>8, <1>9 DEF Escaped

\* ... and two of them escape nothing.
LEMMA EscapedTwice ==
  ASSUME SrcOK, NEW p \in 1..Len(src), ~ Escaped(p), src[p] = "\\"
  PROVE  ~ Escaped(p + 2)
<1>1. p \in Nat /\ Peek(p) = src[p]
  BY PeekFacts
<1>2. SUFFICES ASSUME NEW n \in 1..((p + 2) - 1), n % 2 = 1,
                      \A q \in ((p + 2) - n)..((p + 2) - 1) : src[q] = "\\",
                      Peek((p + 2) - n - 1) # "\\"
               PROVE  FALSE
  BY DEF Escaped
<1>3. (p + 2) - n - 1 = p - (n - 2) - 1
  BY <1>1
<1>4. n # 1
  BY <1>1, <1>2, <1>3
<1>5. n - 2 \in 1..(p - 1) /\ (n - 2) % 2 = 1
  BY <1>1, <1>2, <1>4
<1>6. \A q \in (p - (n - 2))..(p - 1) : q \in ((p + 2) - n)..((p + 2) - 1)
  BY <1>1, <1>2
<1> QED
  BY <1>2, <1>3, <1>5, <1>6 DEF Escaped

\* A string ends with its first quote that is not escaped.
StringOK(p, e) ==
  /\ e \in (p + 1)..(Len(src) + 1) /\ src[e - 1] = Quote /\ ~ Escaped(e - 1)
  /\ \A m \in p..(e - 2) : src[m] = Quote => Escaped(m)

LEMMA StringScanEnd ==
  ASSUME SrcOK, NEW p \in 1..Len(src) + 1, ~ Escaped(p)
  PROVE  StringScan[p] = 0 \/ StringOK(p, StringScan[p])
<1> DEFINE N == Len(src)
           Ends(q) == StringScan[q] = 0 \/ StringOK(q, StringScan[q])
           Bad == {q \in 1..(N + 1) : ~ Escaped(q) /\ ~ Ends(q)}
<1>1. /\ N \in Nat /\ \A q \in Int : q \notin 1..N => Peek(q) = "end"
      /\ \A q \in 1..N : Peek(q) = src[q]
  BY PeekFacts
<1>2. SUFFICES ASSUME Bad # {} PROVE FALSE
  BY <1>1
<1>3. PICK q \in Bad : \A y \in Bad : y <= q
  <2>1. Bad \subseteq 0..(N + 1) /\ N + 1 \in Nat
    BY <1>1
  <2> HIDE DEF Bad
  <2> QED
    BY <1>2, <2>1, GreatestNumber
<1>4. q \in 1..(N + 1) /\ q \in Nat /\ ~ Escaped(q) /\ ~ Ends(q)
  BY <1>1
<1>5. \A r \in 1..(N + 1) : r > q /\ ~ Escaped(r) => Ends(r)
  <2> TAKE r \in 1..(N + 1)
  <2>1. r > q => r \notin Bad
    BY <1>1, <1>3, <1>4
  <2> QED
    BY <2>1
<1> HIDE DEF Bad
<1>6. StringScan[q] = StringStep(StringScan, q)
  BY <1>4, StringScanAt
<1>7. q \in 1..N /\ Peek(q) \notin {"end", "\n"} /\ Peek(q) = src[q]
  <2>1. Peek(q) \notin {"end", "\n"}
    BY <1>4, <1>6, Characters DEF StringStep
  <2>2. q \in 1..N
    BY <1>1, <1>4, <2>1
  <2> QED
    BY <1>1, <2>1, <2>2
<1>8. CASE Peek(q) = Quote
  <2>1. StringScan[q] = q + 1
    BY <1>6, <1>8, Characters DEF StringStep
  <2>2. StringOK(q, q + 1)
    <3>1. q + 1 \in (q + 1)..(N + 1) /\ (q + 1) - 1 = q
      BY <1>1, <1>7
    <3>2. \A m \in q..((q + 1) - 2) : FALSE
      BY <1>4
    <3> QED
      BY <1>4, <1>7, <1>8, <3>1, <3>2 DEF StringOK
  <2> QED
    BY <1>4, <2>1, <2>2
\* Where the scan goes on behind characters none of which is a free quote.
<1>9. ASSUME NEW r \in (q + 1)..(N + 1), ~ Escaped(r), StringScan[q] = StringScan[r],
             \A m \in q..(r - 1) : src[m] = Quote => Escaped(m)
      PROVE  FALSE
  <2>1. r \in 1..(N + 1) /\ r > q
    BY <1>1, <1>4
  <2>2. Ends(r)
    BY <1>5, <1>9, <2>1
  <2>3. StringOK(r, StringScan[r])
    BY <1>4, <1>9, <2>2
  <2>4. PICK e : e = StringScan[r]
    OBVIOUS
  <2>5. e \in (r + 1)..(N + 1) /\ src[e - 1] = Quote /\ ~ Escaped(e - 1)
    BY <2>3, <2>4 DEF StringOK
  <2>6. \A m \in r..(e - 2) : src[m] = Quote => Escaped(m)
    BY <2>3, <2>4 DEF StringOK
  <2>7. \A m \in q..(e - 2) : m \in q..(r - 1) \/ m \in r..(e - 2)
    BY <1>1, <1>4, <2>1, <2>5
  <2>8. e \in (q + 1)..(N + 1)
    BY <1>1, <1>4, <2>1, <2>5
  <2>9. StringOK(q, e)
    BY <1>9, <2>5, <2>6, <2>7, <2>8 DEF StringOK
  <2> QED
    BY <1>4, <1>9, <2>4, <2>9
<1>10. CASE Peek(q) \notin {Quote, "\\"}
  <2>1. StringScan[q] = StringScan[q + 1]
    BY <1>6, <1>7, <1>10 DEF StringStep
  <2>2. q + 1 \in (q + 1)..(N + 1) /\ q + 1 \in Nat /\ q + 1 > 1 /\ (q + 1) - 1 = q
    BY <1>1, <1>7
  <2>3. ~ Escaped(q + 1)
    BY <1>7, <1>10, <2>2, NotEscaped
  <2>4. \A m \in q..((q + 1) - 1) : m = q
    BY <1>4
  <2>5. \A m \in q..((q + 1) - 1) : src[m] = Quote => Escaped(m)
    BY <1>7, <1>10, <2>4
  <2> QED
    BY <1>9, <2>1, <2>2, <2>3, <2>5
<1>11. CASE Peek(q) = "\\"
  <2>1. Peek(q + 1) \notin {"end", "\n"}
    BY <1>4, <1>6, <1>11, Characters DEF StringStep
  <2>2. q + 1 \in 1..N /\ Peek(q + 1) = src[q + 1]
    BY <1>1, <1>7, <2>1
  <2>3. src[q] # Quote
    BY <1>7, <1>11, Characters
  <2>4. CASE Peek(q + 1) = "x"
    <3>1. /\ Peek(q + 2) \in HexDigits /\ Peek(q + 3) \in HexDigits
          /\ StringScan[q] = StringScan[q + 4]
      BY <1>4, <1>6, <1>11, <2>4, Characters DEF StringStep
    <3>2. /\ q + 2 \in 1..N /\ Peek(q + 2) = src[q + 2]
          /\ q + 3 \in 1..N /\ Peek(q + 3) = src[q + 3]
      <4>1. Peek(q + 2) # "end" /\ Peek(q + 3) # "end"
        BY <3>1, Characters
      <4>2. q + 2 \in Int /\ q + 3 \in Int
        BY <1>4
      <4>3. q + 2 \in 1..N /\ q + 3 \in 1..N
        BY <1>1, <4>1, <4>2
      <4> QED
        BY <1>1, <4>3
    <3>3. q + 4 \in (q + 1)..(N + 1) /\ q + 4 \in Nat /\ q + 4 > 1 /\ (q + 4) - 1 = q + 3
      BY <1>1, <1>7, <3>2
    <3>4. ~ Escaped(q + 4)
      BY <3>1, <3>2, <3>3, NotEscaped, Characters
    <3>5. \A m \in q..((q + 4) - 1) : m = q \/ m = q + 1 \/ m = q + 2 \/ m = q + 3
      BY <1>4
    <3>6. \A m \in q..((q + 4) - 1) : src[m] # Quote
      BY <2>2, <2>3, <2>4, <3>1, <3>2, <3>5, Characters
    <3> QED
      BY <1>9, <3>1, <3>3, <3>4, <3>6
  <2>5. CASE Peek(q + 1) # "x"
    <3>1. StringScan[q] = StringScan[q + 2]
      BY <1>6, <1>11, <2>1, <2>5, Characters DEF StringStep
    <3>2. q + 2 \in (q + 1)..(N + 1)
      BY <1>1, <1>7, <2>2
    <3>3. Escaped(q + 1) /\ ~ Escaped(q + 2)
      BY <1>4, <1>7, <1>11, EscapedNext, EscapedTwice
    <3>4. \A m \in q..((q + 2) - 1) : m = q \/ m = q + 1
      BY <1>4
    <3>5. \A m \in q..((q + 2) - 1) : src[m] = Quote => Escaped(m)
      BY <2>3, <3>3, <3>4
    <3> QED
      BY <1>9, <3>1, <3>2, <3>3, <3>5
  <2> QED
    BY <2>4, <2>5
<1> QED
  BY <1>8, <1>10, <1>11

-----------------------------------------------------------------------------
(* Tokens.                                                                   *)

Kinds == Ones \union {"NL", "INDENT", "DEDENT", "EOF", "KEYWORD", "IDENT", "INT", "FLOAT", "STR", "BYTES", "op"}

Token == [kind : Kinds, from : Nat, to : Nat]

\* What an operator of two characters or a comment starts with.
Firsts == {"-", "+", "*", "=", "|", "/", "!", "<", ">", "w-", "w+", "w*", "w=", "w|", "w/", "w!", "w<", "w>"}

\* A token is spelled as its kind asks, begins nothing longer if it is one
\* character long, and a word goes on as far as it can.
TokenOK(t) ==
  /\ t \in Token /\ t.from \in 1..(Len(src) + 1) /\ t.to \in t.from..(Len(src) + 1)
  /\ Spelled(t)
  /\ t.to = t.from + 1 => /\ <<Norm(Peek(t.from)), Norm(Peek(t.from + 1))>> \notin Twos
                          /\ ~ StartsComment(t.from)
  /\ t.kind \in {"IDENT", "KEYWORD"} => /\ t.from < t.to /\ src[t.from] \in Letters
                                         /\ Peek(t.to) \notin Letters \union Digits

\* The tokens tk follow each other and reach to p.
Cover(tk, p) ==
  /\ tk \in Seq(Token)
  /\ \A n \in 1..Len(tk) :
       TokenOK(tk[n]) /\ Skipped(IF n = 1 THEN 1 ELSE tk[n - 1].to, tk[n].from)
  /\ Skipped(IF Len(tk) = 0 THEN 1 ELSE tk[Len(tk)].to, p)

\* Where tokens end.
LEMMA CoverEnd ==
  ASSUME NEW tk, NEW p \in Nat, Cover(tk, p)
  PROVE  (IF Len(tk) = 0 THEN 1 ELSE tk[Len(tk)].to) \in Nat
<1>1. Len(tk) \in Nat /\ \A n \in 1..Len(tk) : tk[n] \in Token
  BY DEF Cover
<1>2. CASE Len(tk) = 0
  BY <1>2
<1>3. CASE Len(tk) # 0
  <2>1. tk[Len(tk)] \in Token
    BY <1>1, <1>3
  <2> QED
    BY <1>3, <2>1 DEF Token
<1> QED
  BY <1>2, <1>3

LEMMA CoverSkips ==
  ASSUME NEW tk, NEW p \in Nat, NEW q \in Nat, Cover(tk, p), Skipped(p, q)
  PROVE  Cover(tk, q)
<1>1. PICK e \in Nat : e = IF Len(tk) = 0 THEN 1 ELSE tk[Len(tk)].to
  BY CoverEnd
<1>2. Skipped(e, p)
  BY <1>1 DEF Cover
<1>3. Skipped(e, q)
  BY <1>2, SkippedTransitive
<1> QED
  BY <1>1, <1>3 DEF Cover

\* Tokens of no length, such as those that lay out a line, ...
LEMMA CoverLayout ==
  ASSUME NEW tk, NEW p \in Nat, Cover(tk, p),
         NEW ts \in Seq(Token), \A n \in 1..Len(ts) : TokenOK(ts[n]) /\ ts[n].from = p /\ ts[n].to = p
  PROVE  Cover(tk \o ts, p)
<1>1. PICK L \in Nat : L = Len(tk)
  BY DEF Cover
<1>2. PICK M \in Nat : M = Len(ts)
  OBVIOUS
<1>3. PICK all : all = tk \o ts
  OBVIOUS
<1>4. /\ all \in Seq(Token) /\ Len(all) = L + M
      /\ \A n \in 1..L : all[n] = tk[n]
      /\ \A n \in (L + 1)..(L + M) : all[n] = ts[n - L] /\ n - L \in 1..M
  <2>1. tk \in Seq(Token)
    BY DEF Cover
  <2>2. all \in Seq(Token) /\ Len(all) = L + M
    BY <1>1, <1>2, <1>3, <2>1
  <2>3. \A n \in 1..L : all[n] = tk[n]
    BY <1>1, <1>2, <1>3, <2>1
  <2>4. \A n \in (L + 1)..(L + M) : all[n] = ts[n - L]
    BY <1>1, <1>2, <1>3, <2>1
  <2> QED
    BY <2>2, <2>3, <2>4
<1>5. Skipped(IF L = 0 THEN 1 ELSE tk[L].to, p)
  BY <1>1 DEF Cover
<1>6. Skipped(p, p)
  BY SkippedNothing
<1>7. ASSUME NEW n \in 1..(L + M)
      PROVE  TokenOK(all[n]) /\ Skipped(IF n = 1 THEN 1 ELSE all[n - 1].to, all[n].from)
  <2>1. CASE n \in 1..L
    <3>1. all[n] = tk[n] /\ (n # 1 => all[n - 1] = tk[n - 1])
      BY <1>4, <2>1
    <3>2. TokenOK(tk[n]) /\ Skipped(IF n = 1 THEN 1 ELSE tk[n - 1].to, tk[n].from)
      BY <1>1, <2>1 DEF Cover
    <3> QED
      BY <3>1, <3>2
  <2>2. CASE n = L + 1
    <3>1. n \in (L + 1)..(L + M) /\ (L # 0 => L \in 1..L) /\ n - 1 = L
      BY <2>2
    <3>2. all[n] = ts[n - L] /\ n - L \in 1..M
      BY <1>4, <3>1
    <3>3. TokenOK(ts[n - L]) /\ ts[n - L].from = p
      BY <1>2, <3>2
    <3>4. n = 1 <=> L = 0
      BY <2>2
    <3>5. L # 0 => all[L] = tk[L]
      BY <1>4, <3>1
    <3> QED
      BY <1>5, <3>1, <3>2, <3>3, <3>4, <3>5
  <2>3. CASE n \in (L + 2)..(L + M)
    <3>1. n \in (L + 1)..(L + M) /\ n - 1 \in (L + 1)..(L + M) /\ n # 1
      BY <2>3
    <3>2. /\ all[n] = ts[n - L] /\ n - L \in 1..M
          /\ all[n - 1] = ts[(n - 1) - L] /\ (n - 1) - L \in 1..M
      BY <1>4, <3>1
    <3> QED
      BY <1>2, <1>6, <3>1, <3>2
  <2> QED
    BY <2>1, <2>2, <2>3
<1>8. Skipped(IF L + M = 0 THEN 1 ELSE all[L + M].to, p)
  <2>1. CASE M = 0
    <3>1. L + M = L /\ (L # 0 => L \in 1..L)
      BY <2>1
    <3>2. L # 0 => all[L] = tk[L]
      BY <1>4, <3>1
    <3> QED
      BY <1>5, <3>1, <3>2
  <2>2. CASE M # 0
    <3>1. L + M \in (L + 1)..(L + M) /\ L + M # 0 /\ (L + M) - L = M /\ M \in 1..M
      BY <2>2
    <3>2. all[L + M] = ts[(L + M) - L] /\ ts[M].to = p
      BY <1>2, <1>4, <3>1
    <3>3. all[L + M] = ts[M]
      BY <3>1, <3>2
    <3> QED
      BY <1>6, <3>1, <3>2, <3>3
  <2> QED
    BY <2>1, <2>2
<1>9. Cover(all, p)
  BY <1>4, <1>7, <1>8 DEF Cover
<1> QED
  BY <1>3, <1>9

\* ... and a token that reaches from where the tokens end.
LEMMA CoverToken ==
  ASSUME NEW tk, NEW p \in Nat, Cover(tk, p), NEW t \in Token, TokenOK(t), t.from = p
  PROVE  Cover(Append(tk, t), t.to)
<1>1. PICK L \in Nat : L = Len(tk)
  BY DEF Cover
<1>2. PICK all : all = Append(tk, t)
  OBVIOUS
<1>3. /\ all \in Seq(Token) /\ Len(all) = L + 1 /\ all[L + 1] = t
      /\ \A n \in 1..L : all[n] = tk[n]
  <2>1. tk \in Seq(Token)
    BY DEF Cover
  <2> QED
    BY <1>1, <1>2, <2>1
<1>4. Skipped(IF L = 0 THEN 1 ELSE tk[L].to, p)
  BY <1>1 DEF Cover
<1>5. ASSUME NEW n \in 1..(L + 1)
      PROVE  TokenOK(all[n]) /\ Skipped(IF n = 1 THEN 1 ELSE all[n - 1].to, all[n].from)
  <2>1. CASE n \in 1..L
    <3>1. all[n] = tk[n] /\ (n # 1 => all[n - 1] = tk[n - 1])
      BY <1>3, <2>1
    <3>2. TokenOK(tk[n]) /\ Skipped(IF n = 1 THEN 1 ELSE tk[n - 1].to, tk[n].from)
      BY <1>1, <2>1 DEF Cover
    <3> QED
      BY <3>1, <3>2
  <2>2. CASE n = L + 1
    <3>1. (L # 0 => L \in 1..L) /\ n - 1 = L
      BY <2>2
    <3>2. all[n] = t /\ (n # 1 => all[n - 1] = tk[L])
      BY <1>3, <2>2, <3>1
    <3>3. n = 1 <=> L = 0
      BY <2>2
    <3> QED
      BY <1>4, <3>2, <3>3
  <2> QED
    BY <2>1, <2>2
<1>6. t.to \in Nat
  BY DEF Token
<1>7. Skipped(IF Len(all) = 0 THEN 1 ELSE all[Len(all)].to, t.to)
  <2>1. Skipped(t.to, t.to)
    BY <1>6, SkippedNothing
  <2>2. Len(all) # 0 /\ all[Len(all)] = t
    BY <1>3
  <2> QED
    BY <2>1, <2>2
<1>8. Cover(all, t.to)
  BY <1>3, <1>5, <1>7 DEF Cover
<1> QED
  BY <1>2, <1>8

\* What is covered stays so, as the source stays the same.
LEMMA CoverPrime ==
  ASSUME src' = src, NEW tk, NEW p, toks' = tk, i' = p, Cover(tk, p)
  PROVE  Cover(toks, i)'
<1>1. \A m : Peek(m)' = Peek(m)
  BY DEF Peek
<1>2. \A m : StartsComment(m)' = StartsComment(m)
  BY <1>1 DEF StartsComment
<1>3. \A m : Escaped(m)' = Escaped(m)
  BY <1>1 DEF Escaped
<1>4. \A t : Spelled(t)' = Spelled(t)
  BY <1>3 DEF Spelled
<1>5. \A t : TokenOK(t)' = TokenOK(t)
  BY <1>1, <1>2, <1>4 DEF TokenOK
<1>6. \A a, b : Skipped(a, b)' = Skipped(a, b)
  BY DEF Skipped
<1> QED
  BY <1>5, <1>6 DEF Cover

-----------------------------------------------------------------------------
(* What each kind of token is.                                               *)

LEMMA Punctuation ==
  /\ \A x, y : <<x, y>> \in Twos => x \in {"-", "+", "*", "=", "|", "/", "!", "<", ">"} /\ y \in {">", "=", "*"}
  /\ \A c : Norm(c) \in {"-", "+", "*", "=", "|", "/", "!", "<", ">"} => c \in Firsts
  /\ Norm("end") = "end"
  /\ Firsts \cap Letters = {} /\ Firsts \cap Digits = {} /\ "\n" \notin Firsts /\ "/" \in Firsts
  /\ "end" \notin Letters /\ "end" \notin Digits /\ "end" \notin Ones
<1>1. \A x, y : <<x, y>> \in Twos => x \in {"-", "+", "*", "=", "|", "/", "!", "<", ">"} /\ y \in {">", "=", "*"}
  BY DEF Twos
<1>2. \A c : Norm(c) \in {"-", "+", "*", "=", "|", "/", "!", "<", ">"} => c \in Firsts
  BY DEF Norm, Firsts
<1>3. Norm("end") = "end"
  BY DEF Norm
<1>4. Firsts \cap Letters = {} /\ "end" \notin Letters
  BY Zenon DEF Firsts, Letters, Underscore
<1>5. Firsts \cap Digits = {} /\ "end" \notin Digits
  BY Zenon DEF Firsts, Digits
<1>6. "\n" \notin Firsts /\ "/" \in Firsts
  BY DEF Firsts
<1>7. "end" \notin Ones
  BY Zenon DEF Ones, Opening, Closing
<1> QED
  BY <1>1, <1>2, <1>3, <1>4, <1>5, <1>6, <1>7

\* A character that begins no longer operator and no comment.
LEMMA BeginsNothingLonger ==
  ASSUME NEW a, Peek(a) \in Letters \union Digits \union {"\n"}
  PROVE  /\ \A y : <<Norm(Peek(a)), y>> \notin Twos
         /\ ~ StartsComment(a)
<1>1. Peek(a) \notin Firsts
  BY Punctuation
<1> QED
  BY <1>1, Punctuation DEF StartsComment

LEMMA OneElement ==
  ASSUME NEW S, NEW s \in Seq(S), Len(s) = 1
  PROVE  s = <<s[1]>>
OBVIOUS

\* What a token from a to b is spelled with.
LEMMA SpellingFacts ==
  ASSUME SrcOK, NEW a \in 1..Len(src) + 1, NEW b \in a..Len(src) + 1, NEW s, s = SubSeq(src, a, b - 1)
  PROVE  /\ Len(s) = b - a
         /\ a = b => s = <<>>
         /\ a < b => s[1] = src[a] /\ Last(s) = src[b - 1]
         /\ b = a + 1 => s = <<src[a]>>
         /\ \A m \in a..(b - 1) : src[m] \in Range(s)
         /\ Range(s) \subseteq {src[m] : m \in a..(b - 1)}
<1>1. PICK N \in Nat : N = Len(src)
  BY PeekFacts
<1>2. a \in 1..(N + 1) /\ b \in a..(N + 1) /\ a \in Nat /\ b \in Nat
  BY <1>1
<1>3. /\ s \in Seq(STRING) /\ Len(s) = b - a /\ \A n \in 1..(b - a) : s[n] = src[a + n - 1]
  <2>1. src \in Seq(STRING)
    BY DEF SrcOK
  <2>2. \A m \in a..(b - 1) : src[m] \in STRING
    BY <1>1, <1>2, <2>1
  <2>3. Len(s) = b - a
    BY <1>1, <1>2, <2>1, SubSeqProperties
  <2>4. s \in Seq(STRING)
    BY <1>1, <1>2, <2>1, SubSeqProperties
  <2>5. \A n \in 1..(b - a) : s[n] = src[a + n - 1]
    BY <1>1, <1>2, <2>1, SubSeqProperties
  <2> QED
    BY <2>3, <2>4, <2>5
<1>4. a = b => s = <<>>
  BY <1>2, <1>3
<1>5. ASSUME a < b PROVE s[1] = src[a] /\ Last(s) = src[b - 1]
  <2>1. 1 \in 1..(b - a) /\ b - a \in 1..(b - a) /\ a + 1 - 1 = a /\ a + (b - a) - 1 = b - 1
    BY <1>2, <1>5
  <2> QED
    BY <1>3, <2>1 DEF Last
<1>6. ASSUME b = a + 1 PROVE s = <<src[a]>>
  <2>1. b - a = 1 /\ a < b
    BY <1>2, <1>6
  <2>2. Len(s) = 1 /\ s[1] = src[a]
    BY <1>3, <1>5, <2>1
  <2>3. s = <<s[1]>>
    BY <1>3, <2>2, OneElement
  <2> QED
    BY <2>2, <2>3
<1>7. DOMAIN s = 1..(b - a)
  BY <1>2, <1>3
<1>8. ASSUME NEW m \in a..(b - 1) PROVE src[m] \in Range(s)
  <2>1. m - a + 1 \in 1..(b - a) /\ a + (m - a + 1) - 1 = m
    BY <1>2
  <2>2. s[m - a + 1] = src[m]
    BY <1>3, <2>1
  <2> QED
    BY <1>7, <2>1, <2>2 DEF Range
<1>9. ASSUME NEW c \in Range(s) PROVE \E m \in a..(b - 1) : c = src[m]
  <2>1. PICK n \in 1..(b - a) : c = s[n]
    BY <1>7 DEF Range
  <2>2. a + n - 1 \in a..(b - 1)
    BY <1>2
  <2> QED
    BY <1>3, <2>1, <2>2
<1> QED
  BY <1>3, <1>4, <1>5, <1>6, <1>8, <1>9

Names == {"NL", "INDENT", "DEDENT", "EOF", "KEYWORD", "IDENT", "INT", "FLOAT", "STR", "BYTES", "op"}

LEMMA KindFacts == Kinds = Ones \union Names /\ Ones \cap Names = {}
<1>1. Kinds = Ones \union Names
  BY Zenon DEF Kinds, Names
<1>2. Ones \cap Names = {}
  BY Zenon DEF Ones, Opening, Closing, Names
<1> QED
  BY <1>1, <1>2

LEMMA IsToken ==
  ASSUME NEW K, K \in Names \/ K \in Ones, NEW a \in Nat, NEW b \in Nat,
         NEW t, t = [kind |-> K, from |-> a, to |-> b]
  PROVE  t \in Token /\ t.kind = K /\ t.from = a /\ t.to = b
BY KindFacts DEF Token

LEMMA LayoutToken ==
  ASSUME SrcOK, NEW a \in 1..Len(src) + 1, NEW K \in {"INDENT", "DEDENT", "EOF"},
         NEW t, t = [kind |-> K, from |-> a, to |-> a]
  PROVE  TokenOK(t)
<1>1. a \in Nat /\ a \in a..Len(src) + 1
  BY PeekFacts
<1>2. K \in Names
  BY DEF Names
<1>3. t \in Token /\ t.kind = K /\ t.from = a /\ t.to = a
  BY <1>1, <1>2, IsToken
<1>4. SubSeq(src, a, a - 1) = <<>>
  BY <1>1, SpellingFacts
<1>5. Spelled(t)
  BY <1>3, <1>4 DEF Spelled
<1>6. t.kind \notin {"IDENT", "KEYWORD"} /\ t.to # t.from + 1
  BY <1>1, <1>3
<1> QED
  BY <1>1, <1>3, <1>5, <1>6 DEF TokenOK

\* The positions of a source.
LEMMA Positions ==
  ASSUME SrcOK, NEW a \in 1..Len(src)
  PROVE  /\ a \in Nat /\ a + 1 \in Nat /\ a \in 1..Len(src) + 1 /\ a + 1 \in 1..Len(src) + 1
         /\ a + 1 \in a..Len(src) + 1 /\ a < a + 1 /\ (a + 1) - 1 = a /\ Peek(a) = src[a]
<1>1. PICK N \in Nat : N = Len(src)
  BY PeekFacts
<1>2. Peek(a) = src[a]
  BY PeekFacts
<1> QED
  BY <1>1, <1>2

LEMMA NewLineToken ==
  ASSUME SrcOK, NEW a \in 1..Len(src), src[a] = "\n",
         NEW t, t = [kind |-> "NL", from |-> a, to |-> a + 1]
  PROVE  TokenOK(t)
<1>1. /\ a \in Nat /\ a + 1 \in Nat /\ a \in 1..Len(src) + 1 /\ a + 1 \in a..Len(src) + 1
      /\ a < a + 1 /\ Peek(a) = src[a]
  BY Positions
<1>2. t \in Token /\ t.kind = "NL" /\ t.from = a /\ t.to = a + 1
  <2>1. "NL" \in Names
    BY DEF Names
  <2> QED
    BY <1>1, <2>1, IsToken
<1>3. SubSeq(src, a, (a + 1) - 1) = <<"\n">>
  <2>1. SubSeq(src, a, (a + 1) - 1) = <<src[a]>>
    BY <1>1, SpellingFacts
  <2> QED
    BY <2>1
<1>4. Spelled(t)
  BY <1>2, <1>3 DEF Spelled
<1>5. /\ <<Norm(Peek(a)), Norm(Peek(a + 1))>> \notin Twos
      /\ ~ StartsComment(a)
  BY <1>1, BeginsNothingLonger
<1> QED
  BY <1>1, <1>2, <1>4, <1>5 DEF TokenOK

LEMMA WordToken ==
  ASSUME SrcOK, NEW a \in 1..Len(src), src[a] \in Letters,
         NEW e, e = After(a, Letters \union Digits),
         NEW K, K = IF SubSeq(src, a, e - 1) \in Keywords THEN "KEYWORD" ELSE "IDENT",
         NEW t, t = [kind |-> K, from |-> a, to |-> e]
  PROVE  TokenOK(t) /\ t \in Token /\ t.to = e /\ e > a
<1>1. PICK N \in Nat : N = Len(src)
  BY PeekFacts
<1>2. a \in 1..N /\ a \in Nat /\ a \in 1..Len(src) + 1 /\ Peek(a) = src[a]
  BY <1>1, Positions
<1>3. PICK cs : cs = Letters \union Digits
  OBVIOUS
<1>4. "end" \notin cs
  BY <1>3, Punctuation
<1>5. /\ e \in a..Len(src) + 1 /\ Peek(e) \notin cs
      /\ \A m \in a..(e - 1) : src[m] \in cs
  BY <1>2, <1>3, <1>4, AfterFacts
<1>6. e # a
  BY <1>2, <1>3, <1>5
<1>7. e \in Nat /\ e > a
  BY <1>1, <1>2, <1>5, <1>6
<1>8. t \in Token /\ t.kind = K /\ t.from = a /\ t.to = e
  <2>1. K \in Names
    BY DEF Names
  <2> QED
    BY <1>2, <1>7, <2>1, IsToken
<1>9. PICK s : s = SubSeq(src, a, e - 1)
  OBVIOUS
<1>10. /\ s[1] = src[a]
       /\ Range(s) \subseteq {src[m] : m \in a..(e - 1)}
  <2>1. a \in 1..Len(src) + 1 /\ e \in a..Len(src) + 1
    BY <1>2, <1>5
  <2>2. Range(s) \subseteq {src[m] : m \in a..(e - 1)}
    BY ONLY SrcOK, <1>9, <2>1, SpellingFacts
  <2>3. a < e => s[1] = src[a] /\ Last(s) = src[e - 1]
    BY ONLY SrcOK, <1>9, <2>1, SpellingFacts
  <2> QED
    BY <1>2, <1>7, <2>2, <2>3
<1>11. Range(s) \subseteq cs
  BY <1>5, <1>10
<1>12. Spelled(t)
  BY <1>3, <1>8, <1>9, <1>10, <1>11 DEF Spelled
<1>13. /\ <<Norm(Peek(a)), Norm(Peek(a + 1))>> \notin Twos
       /\ ~ StartsComment(a)
  BY <1>2, BeginsNothingLonger
<1> QED
  BY <1>2, <1>3, <1>5, <1>7, <1>8, <1>12, <1>13 DEF TokenOK

LEMMA StringToken ==
  ASSUME SrcOK, NEW a \in 1..Len(src), NEW K \in {"STR", "BYTES"},
         NEW open, open = IF K = "BYTES" THEN a + 1 ELSE a,
         open \in 1..Len(src), src[open] = Quote,
         NEW e, e = StringEnd(K, open + 1), e # 0,
         NEW t, t = [kind |-> K, from |-> a, to |-> e]
  PROVE  TokenOK(t) /\ t \in Token /\ t.to = e /\ e > a
<1>1. PICK N \in Nat : N = Len(src)
  BY PeekFacts
<1>2. a \in 1..N /\ a \in Nat /\ open \in 1..N /\ open \in Nat /\ open >= a
  BY <1>1
<1>3. open + 1 \in 1..Len(src) + 1 /\ open + 1 > 1 /\ (open + 1) - 1 = open /\ open + 1 \in Nat
  BY <1>1, <1>2
<1>4. ~ Escaped(open + 1)
  BY <1>3, NotEscaped, Characters
<1>5. StringOK(open + 1, e)
  <2>1. e = StringScan[open + 1]
    BY DEF StringEnd
  <2> QED
    BY <1>3, <1>4, <2>1, StringScanEnd
<1>6. /\ e \in ((open + 1) + 1)..(N + 1) /\ src[e - 1] = Quote /\ ~ Escaped(e - 1)
      /\ \A m \in (open + 1)..(e - 2) : src[m] = Quote => Escaped(m)
  BY <1>1, <1>5 DEF StringOK
<1>7. e \in Nat /\ e \in a..(N + 1) /\ e > a /\ e # a + 1 /\ a \in 1..(N + 1)
  BY <1>1, <1>2, <1>6
<1>8. t \in Token /\ t.kind = K /\ t.from = a /\ t.to = e
  <2>1. K \in Names
    BY DEF Names
  <2> QED
    BY <1>2, <1>7, <2>1, IsToken
<1>9. ASSUME NEW m \in open..(e - 1), src[m] = Quote
      PROVE  m \in {open, e - 1} <=> m = open \/ ~ Escaped(m)
  <2>1. m = open \/ m = e - 1 \/ m \in (open + 1)..(e - 2)
    BY <1>2, <1>6
  <2>2. m \in (open + 1)..(e - 2) => m # open /\ m # e - 1
    BY <1>2, <1>6
  <2> QED
    BY <1>6, <1>9, <2>1, <2>2
<1>10. Spelled(t)
  BY <1>8, <1>9 DEF Spelled
<1> QED
  BY <1>1, <1>7, <1>8, <1>10 DEF TokenOK

LEMMA OneToken ==
  ASSUME SrcOK, NEW a \in 1..Len(src), Norm(src[a]) \in Ones, ~ StartsComment(a),
         <<Norm(Peek(a)), Norm(Peek(a + 1))>> \notin Twos,
         NEW t, t = [kind |-> Norm(src[a]), from |-> a, to |-> a + 1]
  PROVE  TokenOK(t)
<1>1. /\ a \in Nat /\ a + 1 \in Nat /\ a \in 1..Len(src) + 1 /\ a + 1 \in a..Len(src) + 1
      /\ a < a + 1 /\ Peek(a) = src[a]
  BY Positions
<1>2. PICK K : K = Norm(src[a])
  OBVIOUS
<1>3. t \in Token /\ t.kind = K /\ t.from = a /\ t.to = a + 1 /\ K \notin Names
  <2>1. t \in Token /\ t.kind = K /\ t.from = a /\ t.to = a + 1
    BY <1>1, <1>2, IsToken
  <2> QED
    BY <1>2, <2>1, KindFacts
<1>4. SubSeq(src, a, (a + 1) - 1) = <<src[a]>>
  BY <1>1, SpellingFacts
<1>5. Spelled(t)
  <2>1. PICK s : s = SubSeq(src, t.from, t.to - 1)
    OBVIOUS
  <2>2. s = <<src[a]>>
    BY <1>3, <1>4, <2>1
  <2>3. Len(s) = 1 /\ Norm(s[1]) = K
    BY <1>2, <2>2
  <2> QED
    BY <1>3, <2>1, <2>3 DEF Spelled, Names
<1>6. t.kind \notin {"IDENT", "KEYWORD"}
  BY <1>3 DEF Names
<1> QED
  BY <1>1, <1>3, <1>5, <1>6 DEF TokenOK

LEMMA TwoToken ==
  ASSUME SrcOK, NEW a \in 1..Len(src), <<Norm(Peek(a)), Norm(Peek(a + 1))>> \in Twos,
         NEW t, t = [kind |-> "op", from |-> a, to |-> a + 2]
  PROVE  TokenOK(t) /\ t \in Token
<1>1. PICK N \in Nat : N = Len(src)
  BY PeekFacts
<1>2. a \in 1..N /\ a + 1 \in Int
  BY <1>1
<1>3. Peek(a + 1) # "end"
  BY Punctuation
<1>4. a + 1 \in 1..N
  BY <1>1, <1>2, <1>3, PeekFacts
<1>5. a \in Nat /\ a + 2 \in Nat /\ a \in 1..(N + 1) /\ a + 2 \in a..(N + 1) /\ a + 2 # a + 1
  BY <1>1, <1>2, <1>4
<1>6. t \in Token /\ t.kind = "op" /\ t.from = a /\ t.to = a + 2
  <2>1. "op" \in Names
    BY DEF Names
  <2> QED
    BY <1>5, <2>1, IsToken
<1>7. PICK s : s = SubSeq(src, a, (a + 2) - 1)
  OBVIOUS
<1>8. Len(s) = 2 /\ s[1] = src[a] /\ s[2] = src[a + 1]
  <2>1. src \in Seq(STRING) /\ a \in 1..Len(src) + 1 /\ (a + 2) - 1 \in (a - 1)..Len(src)
    BY <1>1, <1>4, <1>5 DEF SrcOK
  <2>2. Len(s) = ((a + 2) - 1) - a + 1 /\ \A n \in 1..(((a + 2) - 1) - a + 1) : s[n] = src[a + n - 1]
    BY <1>7, <2>1, SubSeqProperties
  <2>3. ((a + 2) - 1) - a + 1 = 2 /\ 1 \in 1..2 /\ 2 \in 1..2 /\ a + 1 - 1 = a /\ a + 2 - 1 = a + 1
    BY <1>5
  <2> QED
    BY <2>2, <2>3
<1>9. <<Norm(s[1]), Norm(s[2])>> \in Twos
  <2>1. Peek(a) = src[a] /\ Peek(a + 1) = src[a + 1]
    BY <1>1, <1>2, <1>4, PeekFacts
  <2> QED
    BY <1>8, <2>1
<1>10. Spelled(t)
  BY <1>6, <1>7, <1>8, <1>9 DEF Spelled
<1> QED
  BY <1>1, <1>5, <1>6, <1>10 DEF TokenOK

LEMMA Numerals ==
  /\ Digits \subseteq HexDigits /\ {"0", "1"} \subseteq HexDigits
  /\ "end" # Underscore /\ "end" \notin HexDigits
BY Zenon DEF Digits, HexDigits, Underscore

\* The digits from j to e.
LEMMA NumeralFacts ==
  ASSUME SrcOK, NEW j \in 1..Len(src) + 1, NEW allowed, allowed \subseteq HexDigits,
         NEW e, e = After(j, allowed \union {Underscore}), Numeral(j, e)
  PROVE  e \in (j + 1)..(Len(src) + 1) /\ src[e - 1] \in allowed
<1>1. PICK cs : cs = allowed \union {Underscore}
  OBVIOUS
<1>2. "end" \notin cs
  BY <1>1, Numerals
<1>3. e \in j..Len(src) + 1 /\ \A m \in j..(e - 1) : src[m] \in cs
  BY <1>1, <1>2, AfterFacts
<1>4. j < e /\ src[e - 1] # Underscore
  BY DEF Numeral
<1>5. PICK N \in Nat : N = Len(src)
  BY PeekFacts
<1>6. e \in (j + 1)..(N + 1) /\ e - 1 \in j..(e - 1)
  BY <1>3, <1>4, <1>5
<1> QED
  BY <1>1, <1>3, <1>4, <1>5, <1>6

LEMMA IntToken ==
  ASSUME SrcOK, NEW a \in 1..Len(src), src[a] \in Digits,
         NEW j \in 1..Len(src) + 1, j \in {a, a + 2}, NEW allowed, allowed \subseteq HexDigits,
         NEW e, e = After(j, allowed \union {Underscore}), Numeral(j, e),
         NEW t, t = [kind |-> "INT", from |-> a, to |-> e]
  PROVE  TokenOK(t) /\ t \in Token
<1>1. PICK N \in Nat : N = Len(src)
  BY PeekFacts
<1>2. e \in (j + 1)..(N + 1) /\ src[e - 1] \in allowed
  BY <1>1, NumeralFacts
<1>3. /\ a \in 1..N /\ a \in Nat /\ a \in 1..(N + 1) /\ e \in Nat /\ e \in a..(N + 1) /\ a < e
      /\ Peek(a) = src[a]
  BY <1>1, <1>2, Positions
<1>4. t \in Token /\ t.kind = "INT" /\ t.from = a /\ t.to = e
  <2>1. "INT" \in Names
    BY DEF Names
  <2> QED
    BY <1>3, <2>1, IsToken
<1>5. PICK s : s = SubSeq(src, a, e - 1)
  OBVIOUS
<1>6. s[1] = src[a] /\ Last(s) = src[e - 1]
  BY <1>1, <1>3, <1>5, SpellingFacts
<1>7. Spelled(t)
  BY <1>2, <1>4, <1>5, <1>6 DEF Spelled
<1>8. /\ <<Norm(Peek(a)), Norm(Peek(a + 1))>> \notin Twos
      /\ ~ StartsComment(a)
  BY <1>3, BeginsNothingLonger
<1> QED
  BY <1>1, <1>3, <1>4, <1>7, <1>8 DEF TokenOK

LEMMA FloatToken ==
  ASSUME SrcOK, NEW a \in 1..Len(src), src[a] \in Digits,
         NEW e \in a..Len(src) + 1, Peek(e) = ".",
         NEW f, f = After(e + 1, Digits \union {Underscore}), Numeral(e + 1, f),
         NEW t, t = [kind |-> "FLOAT", from |-> a, to |-> f]
  PROVE  TokenOK(t) /\ t \in Token
<1>1. PICK N \in Nat : N = Len(src)
  BY PeekFacts
<1>2. e \in a..N /\ e \in 1..N /\ src[e] = "."
  <2>1. e \in Int /\ Peek(e) # "end"
    BY <1>1
  <2>2. e \in 1..N
    BY <1>1, <2>1, PeekFacts
  <2>3. Peek(e) = src[e]
    BY <1>1, <2>2, PeekFacts
  <2> QED
    BY <1>1, <2>2, <2>3
<1>3. e + 1 \in 1..Len(src) + 1
  BY <1>1, <1>2
<1>4. f \in ((e + 1) + 1)..(N + 1) /\ src[f - 1] \in Digits
  <2>1. PICK g : g = e + 1
    OBVIOUS
  <2>2. f \in (g + 1)..(Len(src) + 1) /\ src[f - 1] \in Digits
    BY <1>3, <2>1, Numerals, NumeralFacts
  <2> QED
    BY <1>1, <2>1, <2>2
<1>5. /\ a \in Nat /\ a \in 1..(N + 1) /\ f \in Nat /\ f \in a..(N + 1) /\ a < f /\ f # a + 1
      /\ e \in a..(f - 1)
  BY <1>1, <1>2, <1>4
<1>6. t \in Token /\ t.kind = "FLOAT" /\ t.from = a /\ t.to = f
  <2>1. "FLOAT" \in Names
    BY DEF Names
  <2> QED
    BY <1>5, <2>1, IsToken
<1>7. PICK s : s = SubSeq(src, a, f - 1)
  OBVIOUS
<1>8. s[1] = src[a] /\ Last(s) = src[f - 1] /\ src[e] \in Range(s)
  <2>1. a \in 1..Len(src) + 1 /\ f \in a..Len(src) + 1
    BY <1>1, <1>5
  <2>2. a < f => s[1] = src[a] /\ Last(s) = src[f - 1]
    BY ONLY SrcOK, <1>7, <2>1, SpellingFacts
  <2>3. \A m \in a..(f - 1) : src[m] \in Range(s)
    BY ONLY SrcOK, <1>7, <2>1, SpellingFacts
  <2> QED
    BY <1>5, <2>2, <2>3
<1>9. Spelled(t)
  BY <1>2, <1>4, <1>6, <1>7, <1>8 DEF Spelled
<1> QED
  BY <1>1, <1>5, <1>6, <1>9 DEF TokenOK

-----------------------------------------------------------------------------
(* The invariant.                                                            *)

\* Up to position i the source is covered; some width is always on the stack.
LexInv ==
  /\ SrcOK /\ i \in 1..(Len(src) + 1)
  /\ indents \in Seq(Nat) /\ Len(indents) # 0
  /\ Cover(toks, i)

LEMMA InitInv == Init => LexInv
<1> SUFFICES ASSUME Init PROVE LexInv
  OBVIOUS
<1>1. SrcOK
  BY SourcesAssumption DEF Init, SrcOK
<1>2. i \in 1..(Len(src) + 1)
  BY <1>1, PeekFacts DEF Init
<1>3. indents \in Seq(Nat) /\ Len(indents) # 0
  BY DEF Init
<1>4. Cover(toks, i)
  <2>1. toks = <<>> /\ i = 1 /\ Len(toks) = 0
    BY DEF Init
  <2>2. toks \in Seq(Token)
    BY <2>1
  <2>3. Skipped(1, 1)
    BY SkippedNothing
  <2> QED
    BY <2>1, <2>2, <2>3 DEF Cover
<1> QED
  BY <1>1, <1>2, <1>3, <1>4 DEF LexInv

\* What the steps have in common: what is covered afterwards.
LEMMA StepCovers ==
  ASSUME LexInv, src' = src, i' \in 1..(Len(src) + 1), indents' \in Seq(Nat), Len(indents') # 0,
         NEW tk, toks' = tk, Cover(tk, i')
  PROVE  LexInv'
<1>1. PICK p : p = i'
  OBVIOUS
<1>2. PICK ind : ind = indents'
  OBVIOUS
<1>3. SrcOK'
  BY DEF LexInv, SrcOK, Range
<1>4. Cover(toks, i)'
  BY <1>1, CoverPrime
<1>5. Len(src)' = Len(src)
  OBVIOUS
<1>6. (i \in 1..(Len(src) + 1))'
  BY <1>5
<1>7. (indents \in Seq(Nat) /\ Len(indents) # 0)'
  OBVIOUS
<1> QED
  BY <1>3, <1>4, <1>6, <1>7 DEF LexInv

LEMMA SkipStep ==
  ASSUME LexInv, src' = src, indents' = indents, toks' = toks, i' \in 1..(Len(src) + 1), Skipped(i, i')
  PROVE  LexInv'
<1>1. PICK p : p = i
  OBVIOUS
<1>2. PICK q : q = i'
  OBVIOUS
<1>3. PICK tk : tk = toks
  OBVIOUS
<1>4. p \in Nat /\ q \in Nat
  BY <1>1, <1>2, PeekFacts DEF LexInv
<1>5. Cover(tk, p) /\ Skipped(p, q)
  BY <1>1, <1>2, <1>3 DEF LexInv
<1>6. Cover(tk, q)
  BY <1>4, <1>5, CoverSkips
<1>7. indents' \in Seq(Nat) /\ Len(indents') # 0
  BY DEF LexInv
<1> QED
  BY <1>2, <1>3, <1>6, <1>7, StepCovers

LEMMA EmitStep ==
  ASSUME LexInv, NEW K, NEW to, NEW t, t = [kind |-> K, from |-> i, to |-> to], TokenOK(t),
         src' = src, indents' = indents, toks' = Append(toks, t), i' = to
  PROVE  LexInv'
<1>1. PICK p : p = i
  OBVIOUS
<1>2. PICK tk : tk = toks
  OBVIOUS
<1>3. p \in Nat
  BY <1>1, PeekFacts DEF LexInv
<1>4. Cover(tk, p)
  BY <1>1, <1>2 DEF LexInv
<1>5. t \in Token /\ t.from = p /\ t.to = to /\ t.to \in p..(Len(src) + 1)
  BY <1>1 DEF TokenOK
<1>6. Cover(Append(tk, t), to)
  BY <1>3, <1>4, <1>5, CoverToken
<1>7. indents' \in Seq(Nat) /\ Len(indents') # 0
  BY DEF LexInv
<1>8. to \in 1..(Len(src) + 1)
  <2>1. p \in 1..(Len(src) + 1) /\ Len(src) \in Nat
    BY <1>1, PeekFacts DEF LexInv
  <2> QED
    BY <1>5, <2>1
<1> QED
  BY <1>2, <1>6, <1>7, <1>8, StepCovers

\* Layout tokens.
LEMMA Laid ==
  ASSUME LexInv, NEW K \in {"INDENT", "DEDENT", "EOF"}, NEW n \in Nat, NEW tk, Cover(tk, i)
  PROVE  Cover(tk \o Layout(K, n), i)
<1>1. PICK p : p = i
  OBVIOUS
<1>2. p \in Nat /\ p \in 1..Len(src) + 1
  BY <1>1, PeekFacts DEF LexInv
<1>3. PICK t : t = [kind |-> K, from |-> p, to |-> p]
  OBVIOUS
<1>4. TokenOK(t)
  BY <1>2, <1>3, LayoutToken DEF LexInv
<1>5. t \in Token /\ t.from = p /\ t.to = p
  BY <1>3, <1>4 DEF TokenOK
<1>6. PICK ts : ts = [m \in 1..n |-> t]
  OBVIOUS
<1>7. ts \in Seq(Token) /\ Len(ts) = n /\ \A m \in 1..Len(ts) : ts[m] = t
  BY <1>5, <1>6
<1>8. Layout(K, n) = ts
  BY <1>1, <1>3, <1>6 DEF Layout
<1>9. Cover(tk, p)
  BY <1>1
<1>10. Cover(tk \o ts, p)
  BY <1>2, <1>4, <1>5, <1>7, <1>9, CoverLayout
<1> QED
  BY <1>1, <1>8, <1>10

LEMMA LayoutStep ==
  ASSUME LexInv, src' = src, NEW K \in {"INDENT", "DEDENT"}, NEW n \in Nat, toks' = toks \o Layout(K, n),
         i' \in 1..(Len(src) + 1), Skipped(i, i'), indents' \in Seq(Nat), Len(indents') # 0
  PROVE  LexInv'
<1>1. PICK p : p = i
  OBVIOUS
<1>2. PICK q : q = i'
  OBVIOUS
<1>3. PICK tk : tk = toks
  OBVIOUS
<1>4. PICK all : all = tk \o Layout(K, n)
  OBVIOUS
<1>5. Cover(all, p)
  <2>1. Cover(tk, i)
    BY <1>3 DEF LexInv
  <2> QED
    BY <1>1, <1>4, <2>1, Laid
<1>6. p \in Nat /\ q \in Nat /\ Skipped(p, q)
  BY <1>1, <1>2, PeekFacts DEF LexInv
<1>7. Cover(all, q)
  BY <1>5, <1>6, CoverSkips
<1> QED
  BY <1>2, <1>3, <1>4, <1>7, StepCovers

LEMMA StayingRange ==
  ASSUME indents \in Seq(Nat), NEW k \in Nat
  PROVE  Staying(k) \in 0..Len(indents)
<1> DEFINE S == {n \in 0..Len(indents) : \A m \in (n + 1)..Len(indents) : indents[m] > k}
<1>1. Len(indents) \in Nat /\ \A m \in 1..Len(indents) : indents[m] \in Nat
  OBVIOUS
<1>2. Len(indents) \in S
  BY <1>1
<1>3. PICK n \in S : \A m \in S : n <= m
  <2>1. S \subseteq Nat
    BY <1>1
  <2> HIDE DEF S
  <2> QED
    BY <1>2, <2>1, LeastNumber
<1>4. n \in 0..Len(indents) /\ \A m \in (n + 1)..Len(indents) : indents[m] > k
  OBVIOUS
<1>5. ASSUME n > 0 PROVE indents[n] <= k
  <2>1. n - 1 \in 0..Len(indents) /\ n \in 1..Len(indents)
    BY <1>1, <1>4, <1>5
  <2>2. n - 1 \notin S
    <3>1. ~ (n <= n - 1)
      BY <1>1, <1>4
    <3> HIDE DEF S
    <3> QED
      BY <1>3, <3>1
  <2>3. PICK m \in ((n - 1) + 1)..Len(indents) : ~ (indents[m] > k)
    BY <2>1, <2>2
  <2>4. m = n
    BY <1>1, <1>4, <2>1, <2>3
  <2> QED
    BY <1>1, <2>1, <2>3, <2>4
<1>6. \E x \in 0..Len(indents) : /\ x > 0 => indents[x] <= k
                                /\ \A m \in (x + 1)..Len(indents) : indents[m] > k
  BY <1>4, <1>5
<1> HIDE DEF S
<1> QED
  BY <1>6 DEF Staying

-----------------------------------------------------------------------------
(* One step per action.                                                      *)

LEMMA RaiseStep ==
  ASSUME LexInv, NEW why, Raise(why)
  PROVE  LexInv'
<1>1. src' = src /\ i' = i /\ indents' = indents /\ toks' = toks
  BY DEF Raise
<1>2. i \in 1..(Len(src) + 1) /\ i \in Nat
  BY PeekFacts DEF LexInv
<1>3. Skipped(i, i)
  <2>1. PICK p : p = i
    OBVIOUS
  <2> QED
    BY <1>2, <2>1, SkippedNothing
<1> QED
  BY <1>1, <1>2, <1>3, SkipStep

LEMMA LineStartStep ==
  ASSUME LexInv, LineStart
  PROVE  LexInv'
<1>1. PICK N \in Nat : N = Len(src)
  BY PeekFacts DEF LexInv
<1>2. PICK p : p = i
  OBVIOUS
<1>3. p \in 1..(N + 1) /\ p \in Nat /\ SrcOK
  BY <1>1, <1>2 DEF LexInv
<1>4. PICK h : h = After(i, {Space})
  OBVIOUS
<1>5. h \in p..(N + 1) /\ \A m \in p..(h - 1) : src[m] \in {Space}
  <2>1. "end" \notin {Space}
    BY Zenon DEF Space
  <2> QED
    BY <1>1, <1>2, <1>3, <1>4, <2>1, AfterFacts
<1>6. PICK k : k = h - p
  OBVIOUS
<1>7. k \in Nat /\ p + k = h /\ h \in 1..(N + 1) /\ h \in Nat
  BY <1>3, <1>5, <1>6
<1>8. PICK j : j = CommentsEnd(h)
  OBVIOUS
<1>9. j \in {0} \cup (h..(N + 1)) /\ (j # h => StartsComment(h))
  BY <1>1, <1>3, <1>7, <1>8, CommentsEndRange
<1>10. ASSUME j # 0 PROVE j \in 1..(N + 1) /\ j \in Nat /\ Skipped(p, j)
  <2>1. j \in h..(N + 1) /\ j \in 1..(N + 1) /\ j \in Nat /\ p <= j
    BY <1>3, <1>5, <1>9, <1>10
  <2>2. Skipped(p, h)
    <3>1. p \in 1..(Len(src) + 1) /\ h \in p..(Len(src) + 1)
      BY <1>1, <1>3, <1>5
    <3> QED
      BY ONLY <1>3, <1>5, <3>1, SkippedSpaces
  <2>3. Skipped(h, j)
    <3>1. h \in 1..(Len(src) + 1) /\ CommentsEnd(h) # 0
      BY <1>1, <1>7, <1>8, <1>10
    <3> QED
      BY ONLY <1>3, <1>8, <3>1, SkippedComments
  <2> QED
    BY <1>3, <1>7, <2>1, <2>2, <2>3, SkippedTransitive
<1>11. PICK stay : stay = Staying(k)
  OBVIOUS
<1>12. stay \in 0..Len(indents) /\ Len(indents) \in Nat
  BY <1>7, <1>11, StayingRange DEF LexInv
<1>13. \/ \E why : Raise(why)
       \/ j # 0 /\ Peek(j) = "\n" /\ i' = j + 1 /\ src' = src /\ indents' = indents /\ toks' = toks
       \/ /\ j # 0 /\ i' = j /\ src' = src /\ indents' = Append(indents, k)
          /\ toks' = toks \o Layout("INDENT", 1)
       \/ /\ j # 0 /\ i' = j /\ src' = src /\ stay # 0 /\ indents' = SubSeq(indents, 1, stay)
          /\ toks' = toks \o Layout("DEDENT", Len(indents) - stay)
  <2>1. k = After(i, {Space}) - i /\ i + k = h
    BY <1>2, <1>4, <1>6, <1>7
  <2>2. j = CommentsEnd(i + k)
    BY <1>8, <2>1
  <2> QED
    BY <1>11, <2>1, <2>2 DEF LineStart
<1>14. CASE \E why : Raise(why)
  BY <1>14, RaiseStep
<1>15. CASE j # 0 /\ Peek(j) = "\n" /\ i' = j + 1 /\ src' = src /\ indents' = indents /\ toks' = toks
  <2>1. j \in 1..N /\ j \in Nat /\ Skipped(p, j) /\ src[j] = "\n"
    <3>1. j \in Int /\ Skipped(p, j) /\ j \in Nat
      BY <1>10, <1>15
    <3>2. j \in 1..N
      BY <1>1, <1>3, <1>15, <3>1, PeekFacts
    <3> QED
      BY <1>1, <1>3, <1>15, <3>1, <3>2, PeekFacts
  <2>2. Skipped(j, j + 1)
    BY <1>1, <1>3, <2>1, SkippedBlank
  <2>3. Skipped(p, j + 1)
    BY <1>3, <2>1, <2>2, SkippedTransitive
  <2>4. j + 1 \in 1..(N + 1)
    BY <2>1
  <2> QED
    BY <1>1, <1>2, <1>15, <2>3, <2>4, SkipStep
<1>16. CASE /\ j # 0 /\ i' = j /\ src' = src /\ indents' = Append(indents, k)
            /\ toks' = toks \o Layout("INDENT", 1)
  <2>1. j \in 1..(N + 1) /\ Skipped(p, j)
    BY <1>10, <1>16
  <2>2. indents' \in Seq(Nat) /\ Len(indents') # 0
    BY <1>7, <1>12, <1>16 DEF LexInv
  <2> QED
    BY <1>1, <1>2, <1>16, <2>1, <2>2, LayoutStep
<1>17. CASE /\ j # 0 /\ i' = j /\ src' = src /\ stay # 0 /\ indents' = SubSeq(indents, 1, stay)
            /\ toks' = toks \o Layout("DEDENT", Len(indents) - stay)
  <2>1. j \in 1..(N + 1) /\ Skipped(p, j)
    BY <1>10, <1>17
  <2>2. indents' \in Seq(Nat) /\ Len(indents') # 0
    <3>1. stay \in 1..Len(indents) /\ indents \in Seq(Nat)
      BY <1>12, <1>17 DEF LexInv
    <3>2. \A m \in 1..stay : indents[m] \in Nat
      BY <3>1
    <3>3. SubSeq(indents, 1, stay) \in Seq(Nat) /\ Len(SubSeq(indents, 1, stay)) = stay
      BY <3>1, <3>2, SubSeqProperties
    <3> QED
      BY <1>17, <3>3
  <2>3. Len(indents) - stay \in Nat
    BY <1>12
  <2> QED
    BY <1>1, <1>2, <1>17, <2>1, <2>2, <2>3, LayoutStep
<1> QED
  BY <1>13, <1>14, <1>15, <1>16, <1>17

LEMMA HereFacts ==
  ASSUME LexInv, i <= Len(src)
  PROVE  SrcOK /\ i \in 1..Len(src) /\ Here = src[i] /\ i \in Nat
<1>1. SrcOK /\ i \in 1..(Len(src) + 1) /\ Len(src) \in Nat
  BY PeekFacts DEF LexInv
<1>2. i \in 1..Len(src)
  BY <1>1
<1> QED
  BY <1>1, <1>2, PeekFacts DEF Here

LEMMA BlankStep ==
  ASSUME LexInv, Blank
  PROVE  LexInv'
<1>1. SrcOK /\ i \in 1..Len(src) /\ Here = src[i] /\ i \in Nat
  BY HereFacts DEF Blank, InLine
<1>2. src' = src /\ indents' = indents /\ toks' = toks /\ i' = i + 1 /\ src[i] \in {Space, Return, "\n"}
  BY <1>1 DEF Blank
<1>3. i + 1 \in 1..(Len(src) + 1)
  BY <1>1, PeekFacts
<1>4. Skipped(i, i + 1)
  <2>1. PICK p : p = i
    OBVIOUS
  <2> QED
    BY <1>1, <1>2, <2>1, SkippedBlank
<1> QED
  BY <1>2, <1>3, <1>4, SkipStep

LEMMA CommentStep ==
  ASSUME LexInv, Comment
  PROVE  LexInv'
<1>1. SrcOK /\ i \in 1..Len(src) /\ i \in Nat /\ StartsComment(i)
  BY HereFacts DEF Comment, InLine
<1>2. PICK p : p = i
  OBVIOUS
<1>3. PICK e : e = CommentEnd(p)
  OBVIOUS
<1>4. CASE e = 0
  <2>1. Raise("comment")
    BY <1>2, <1>3, <1>4 DEF Comment
  <2> QED
    BY <2>1, RaiseStep
<1>5. CASE e # 0
  <2>1. i' = e /\ src' = src /\ indents' = indents /\ toks' = toks
    BY <1>2, <1>3, <1>5 DEF Comment
  <2>2. e \in (p + 1)..(Len(src) + 1)
    BY <1>1, <1>2, <1>3, <1>5, CommentEndRange
  <2>3. e \in 1..(Len(src) + 1)
    BY <1>1, <1>2, <2>2, PeekFacts
  <2>4. Skipped(p, e)
    BY <1>1, <1>2, <1>3, <1>5, SkippedComment
  <2> QED
    BY <1>2, <2>1, <2>3, <2>4, SkipStep
<1> QED
  BY <1>4, <1>5

LEMMA NewLineStep ==
  ASSUME LexInv, NewLine
  PROVE  LexInv'
<1>1. SrcOK /\ i \in 1..Len(src) /\ Here = src[i] /\ i \in Nat
  BY HereFacts DEF NewLine, InLine
<1>2. src' = src /\ indents' = indents /\ i' = i + 1 /\ src[i] = "\n"
  BY <1>1 DEF NewLine
<1>3. CASE depth > 0
  <2>1. toks' = toks
    BY <1>3 DEF NewLine
  <2>2. i + 1 \in 1..(Len(src) + 1)
    BY <1>1, PeekFacts
  <2>3. Skipped(i, i + 1)
    <3>1. PICK p : p = i
      OBVIOUS
    <3> QED
      BY <1>1, <1>2, <3>1, SkippedBlank
  <2> QED
    BY <1>2, <2>1, <2>2, <2>3, SkipStep
<1>4. CASE ~ (depth > 0)
  <2>1. PICK p : p = i
    OBVIOUS
  <2>2. PICK t : t = [kind |-> "NL", from |-> p, to |-> p + 1]
    OBVIOUS
  <2>3. toks' = Append(toks, t)
    BY <1>4, <2>1, <2>2 DEF NewLine
  <2>4. TokenOK(t)
    BY <1>1, <1>2, <2>1, <2>2, NewLineToken
  <2> QED
    BY <1>2, <2>1, <2>2, <2>3, <2>4, EmitStep
<1> QED
  BY <1>3, <1>4

\* A step that emits a token which is as it must be.
LEMMA Emitted ==
  ASSUME LexInv, NEW K, NEW to, Emit(K, to), TokenOK([kind |-> K, from |-> i, to |-> to])
  PROVE  LexInv'
<1>1. PICK t : t = [kind |-> K, from |-> i, to |-> to]
  OBVIOUS
<1>2. src' = src /\ indents' = indents /\ toks' = Append(toks, t) /\ i' = to
  BY <1>1 DEF Emit
<1> QED
  BY <1>1, <1>2, EmitStep

LEMMA WordStep ==
  ASSUME LexInv, Word
  PROVE  LexInv'
<1>1. SrcOK /\ i \in 1..Len(src) /\ Here = src[i]
  BY HereFacts DEF Word, InLine
<1>2. PICK p : p = i
  OBVIOUS
<1>3. PICK e : e = After(p, Letters \union Digits)
  OBVIOUS
<1>4. PICK K : K = IF SubSeq(src, p, e - 1) \in Keywords THEN "KEYWORD" ELSE "IDENT"
  OBVIOUS
<1>5. Here \in Letters /\ Emit(K, e)
  BY <1>2, <1>3, <1>4 DEF Word
<1>6. TokenOK([kind |-> K, from |-> p, to |-> e])
  BY <1>1, <1>2, <1>3, <1>4, <1>5, WordToken
<1> QED
  BY <1>2, <1>5, <1>6, Emitted

LEMMA NumberStep ==
  ASSUME LexInv, Number
  PROVE  LexInv'
<1>1. SrcOK /\ i \in 1..Len(src) /\ Here = src[i]
  BY HereFacts DEF Number, InLine
<1>2. PICK p : p = i
  OBVIOUS
<1>3. p \in 1..Len(src) /\ p \in Nat /\ Len(src) \in Nat /\ src[p] \in Digits
  BY <1>1, <1>2, PeekFacts DEF Number
<1>4. PICK base : base = IF Here = "0" /\ Peek(p + 1) \in {"x", "o", "b"} THEN Peek(p + 1) ELSE "ten"
  OBVIOUS
<1>5. PICK allowed : allowed = CASE base = "x" -> HexDigits [] base = "o" -> Digits
                                [] base = "b" -> {"0", "1"} [] OTHER -> Digits
  OBVIOUS
<1>6. PICK j : j = IF base = "ten" THEN p ELSE p + 2
  OBVIOUS
<1>7. PICK e : e = After(j, allowed \union {Underscore})
  OBVIOUS
<1>8. PICK f : f = After(e + 1, Digits \union {Underscore})
  OBVIOUS
<1>9. PICK fraction \in BOOLEAN : fraction = (base = "ten" /\ Peek(e) = "." /\ Peek(e + 1) \in Digits)
  OBVIOUS
<1>10. \/ Raise("number")
       \/ fraction /\ Numeral(j, e) /\ Numeral(e + 1, f) /\ Emit("FLOAT", f)
       \/ ~ fraction /\ Numeral(j, e) /\ Emit("INT", e)
  BY <1>2, <1>4, <1>5, <1>6, <1>7, <1>8, <1>9 DEF Number
<1>11. allowed \subseteq HexDigits
  BY <1>5, Numerals
<1>12. j \in 1..Len(src) + 1 /\ j \in {p, p + 2}
  <2>1. CASE base = "ten"
    BY <1>3, <1>6, <2>1
  <2>2. CASE base # "ten"
    <3>1. Peek(p + 1) # "end" /\ p + 1 \in Int
      BY <1>3, <1>4, <2>2
    <3>2. p + 1 \in 1..Len(src)
      BY <1>1, <3>1, PeekFacts
    <3> QED
      BY <1>3, <1>6, <2>2, <3>2
  <2> QED
    BY <2>1, <2>2
<1>13. CASE Raise("number")
  BY <1>13, RaiseStep
<1>14. CASE fraction /\ Numeral(j, e) /\ Numeral(e + 1, f) /\ Emit("FLOAT", f)
  <2>1. e \in (j + 1)..(Len(src) + 1)
    BY <1>1, <1>7, <1>11, <1>12, <1>14, NumeralFacts
  <2>2. e \in p..Len(src) + 1
    BY <1>3, <1>12, <2>1
  <2>3. Peek(e) = "."
    BY <1>9, <1>14
  <2>4. TokenOK([kind |-> "FLOAT", from |-> p, to |-> f])
    BY ONLY <1>1, <1>3, <1>8, <1>14, <2>2, <2>3, FloatToken
  <2> QED
    BY <1>2, <1>14, <2>4, Emitted
<1>15. CASE ~ fraction /\ Numeral(j, e) /\ Emit("INT", e)
  <2>1. TokenOK([kind |-> "INT", from |-> p, to |-> e])
    BY ONLY <1>1, <1>3, <1>7, <1>11, <1>12, <1>15, IntToken
  <2> QED
    BY <1>2, <1>15, <2>1, Emitted
<1> QED
  BY <1>10, <1>13, <1>14, <1>15

LEMMA StringLiteralStep ==
  ASSUME LexInv, String
  PROVE  LexInv'
<1>1. SrcOK /\ i \in 1..Len(src) /\ Here = src[i] /\ i \in Nat
  BY HereFacts DEF String, InLine
<1>2. PICK p : p = i
  OBVIOUS
<1>3. PICK open : open = IF Here = "b" THEN p + 1 ELSE p
  OBVIOUS
<1>4. PICK K : K = IF Here = "b" THEN "BYTES" ELSE "STR"
  OBVIOUS
<1>5. PICK e : e = StringEnd(K, open + 1)
  OBVIOUS
<1>6. e = StringEnd(K, IF Here = "b" THEN i + 2 ELSE i + 1)
  <2>1. open + 1 = IF Here = "b" THEN i + 2 ELSE i + 1
    BY <1>1, <1>2, <1>3
  <2> QED
    BY <1>5, <2>1
<1>7. /\ Here = Quote \/ (Here = "b" /\ Peek(p + 1) = Quote)
      /\ IF e = 0 THEN Raise("string") ELSE Emit(K, e)
  BY <1>2, <1>4, <1>6 DEF String
<1>8. open \in 1..Len(src) /\ src[open] = Quote
  <2>1. CASE Here = "b"
    <3>1. open = p + 1 /\ Peek(open) = Quote /\ open \in Int
      BY <1>1, <1>2, <1>3, <1>7, <2>1, Characters
    <3>2. open \in 1..Len(src)
      BY <1>1, <3>1, PeekFacts, Characters
    <3> QED
      BY <1>1, <3>1, <3>2, PeekFacts
  <2>2. CASE Here # "b"
    BY <1>1, <1>2, <1>3, <1>7, <2>2
  <2> QED
    BY <2>1, <2>2
<1>9. open = IF K = "BYTES" THEN p + 1 ELSE p
  BY <1>3, <1>4
<1>10. CASE e = 0
  BY <1>7, <1>10, RaiseStep
<1>11. CASE e # 0
  <2>1. p \in 1..Len(src) /\ K \in {"STR", "BYTES"}
    BY <1>1, <1>2, <1>4
  <2>2. TokenOK([kind |-> K, from |-> p, to |-> e])
    BY ONLY <1>1, <1>5, <1>8, <1>9, <1>11, <2>1, StringToken
  <2> QED
    BY <1>2, <1>7, <1>11, <2>2, Emitted
<1> QED
  BY <1>10, <1>11

LEMMA OperatorStep ==
  ASSUME LexInv, Operator
  PROVE  LexInv'
<1>1. SrcOK /\ i \in 1..Len(src) /\ Here = src[i] /\ i \in Nat /\ Peek(i) = src[i]
  BY HereFacts DEF Operator, InLine, Here
<1>2. PICK p : p = i
  OBVIOUS
<1>3. ~ StartsComment(p) /\ OpLen > 0 /\ Emit(IF OpLen = 2 THEN "op" ELSE Norm(Here), p + OpLen)
  BY <1>2 DEF Operator
<1>4. CASE <<Norm(Here), Norm(Peek(p + 1))>> \in Twos
  <2>1. OpLen = 2
    BY <1>2, <1>4 DEF OpLen
  <2>2. Emit("op", p + 2)
    BY <1>3, <2>1
  <2>3. TokenOK([kind |-> "op", from |-> p, to |-> p + 2])
    <3>1. p \in 1..Len(src) /\ <<Norm(Peek(p)), Norm(Peek(p + 1))>> \in Twos
      BY <1>1, <1>2, <1>4
    <3> QED
      BY ONLY <1>1, <3>1, TwoToken
  <2> QED
    BY <1>2, <2>2, <2>3, Emitted
<1>5. CASE <<Norm(Here), Norm(Peek(p + 1))>> \notin Twos
  <2>1. OpLen = 1 /\ Norm(Here) \in Ones
    BY <1>2, <1>3, <1>5 DEF OpLen
  <2>2. Emit(Norm(src[p]), p + 1)
    BY <1>1, <1>2, <1>3, <2>1
  <2>3. TokenOK([kind |-> Norm(src[p]), from |-> p, to |-> p + 1])
    <3>1. p \in 1..Len(src) /\ Norm(src[p]) \in Ones
      BY <1>1, <1>2, <2>1
    <3>2. <<Norm(Peek(p)), Norm(Peek(p + 1))>> \notin Twos
      BY <1>1, <1>2, <1>5
    <3> QED
      BY ONLY <1>1, <1>3, <3>1, <3>2, OneToken
  <2> QED
    BY <1>2, <2>2, <2>3, Emitted
<1> QED
  BY <1>4, <1>5

LEMMA EndOfFileStep ==
  ASSUME LexInv, EndOfFile
  PROVE  LexInv'
<1>1. src' = src /\ i' = i /\ indents' = <<0>>
      /\ toks' = (toks \o Layout("DEDENT", Len(indents) - 1)) \o Layout("EOF", 1)
  BY DEF EndOfFile
<1>2. Len(indents) - 1 \in Nat
  BY DEF LexInv
<1>3. PICK tk : tk = toks
  OBVIOUS
<1>4. PICK closed : closed = tk \o Layout("DEDENT", Len(indents) - 1)
  OBVIOUS
<1>5. Cover(closed, i)
  <2>1. Cover(tk, i)
    BY <1>3 DEF LexInv
  <2> QED
    BY <1>2, <1>4, <2>1, Laid
<1>6. PICK all : all = closed \o Layout("EOF", 1)
  OBVIOUS
<1>7. Cover(all, i)
  BY <1>5, <1>6, Laid
<1>8. indents' \in Seq(Nat) /\ Len(indents') # 0
  BY <1>1
<1>9. toks' = all
  BY <1>1, <1>3, <1>4, <1>6
<1>10. Cover(all, i')
  BY <1>1, <1>7
<1>11. i' \in 1..(Len(src) + 1)
  BY <1>1 DEF LexInv
<1> QED
  BY <1>1, <1>8, <1>9, <1>10, <1>11, StepCovers

LEMMA NextInv ==
  ASSUME LexInv, [Next]_vars
  PROVE  LexInv'
<1>1. CASE LineStart
  BY <1>1, LineStartStep
<1>2. CASE Blank
  BY <1>2, BlankStep
<1>3. CASE Comment
  BY <1>3, CommentStep
<1>4. CASE NewLine
  BY <1>4, NewLineStep
<1>5. CASE Word
  BY <1>5, WordStep
<1>6. CASE Number
  BY <1>6, NumberStep
<1>7. CASE String
  BY <1>7, StringLiteralStep
<1>8. CASE Operator
  BY <1>8, OperatorStep
<1>9. CASE Unexpected
  <2>1. Raise("character")
    BY <1>9 DEF Unexpected
  <2> QED
    BY <2>1, RaiseStep
<1>10. CASE EndOfFile
  BY <1>10, EndOfFileStep
<1>11. CASE UNCHANGED vars
  <2>1. src' = src /\ i' = i /\ indents' = indents /\ toks' = toks
    BY <1>11 DEF vars
  <2>2. i \in 1..(Len(src) + 1) /\ i \in Nat
    BY PeekFacts DEF LexInv
  <2>3. Skipped(i, i)
    <3>1. PICK p : p = i
      OBVIOUS
    <3> QED
      BY <2>2, <3>1, SkippedNothing
  <2> QED
    BY <2>1, <2>2, <2>3, SkipStep
<1> QED
  BY <1>1, <1>2, <1>3, <1>4, <1>5, <1>6, <1>7, <1>8, <1>9, <1>10, <1>11 DEF Next

LEMMA Invariant == Spec => []LexInv
<1>1. Init => LexInv
  BY InitInv
<1>2. LexInv /\ [Next]_vars => LexInv'
  BY NextInv
<1> QED
  BY <1>1, <1>2, PTL DEF Spec

\* When the source is done, its last token is where it ends.
DoneInv == at = "done" => toks # <<>> /\ Last(toks).to = Len(src) + 1

LEMMA DoneNext ==
  ASSUME LexInv, DoneInv, [Next]_vars
  PROVE  DoneInv'
<1>1. CASE EndOfFile
  <2>1. PICK tk : tk = toks \o Layout("DEDENT", Len(indents) - 1)
    OBVIOUS
  <2>2. PICK t : t = [kind |-> "EOF", from |-> i, to |-> i]
    OBVIOUS
  <2>3. Layout("EOF", 1) = <<t>>
    BY <2>2 DEF Layout
  <2>4. Cover(tk, i)
    <3>1. Len(indents) - 1 \in Nat
      BY DEF LexInv
    <3>2. PICK us : us = toks
      OBVIOUS
    <3>3. Cover(us, i)
      BY <3>2 DEF LexInv
    <3> QED
      BY <2>1, <3>1, <3>2, <3>3, Laid
  <2>5. tk \in Seq(Token)
    BY <2>4 DEF Cover
  <2>6. toks' = tk \o <<t>>
    BY <1>1, <2>1, <2>3 DEF EndOfFile
  <2>7. PICK all : all = tk \o <<t>>
    OBVIOUS
  <2>8. all # <<>> /\ all[Len(all)] = t
    BY <2>5, <2>7
  <2>9. toks' = all
    BY <2>6, <2>7
  <2>10. i = Len(src) + 1 /\ src' = src
    <3>1. i \in 1..(Len(src) + 1) /\ Len(src) \in Nat /\ i > Len(src) /\ src' = src
      BY <1>1, PeekFacts DEF EndOfFile, LexInv
    <3> QED
      BY <3>1
  <2> QED
    BY <2>2, <2>8, <2>9, <2>10 DEF DoneInv, Last
<1>2. CASE ~ EndOfFile /\ Next
  <2>1. at' # "done"
    BY <1>2 DEF Next, LineStart, Blank, Comment, NewLine, Word, Number, String, Operator, Unexpected, InLine,
                  Raise, Emit
  <2> QED
    BY <2>1 DEF DoneInv
<1>3. CASE UNCHANGED vars
  BY <1>3 DEF vars, DoneInv
<1> QED
  BY <1>1, <1>2, <1>3

LEMMA DoneInvariant == Spec => []DoneInv
<1>1. Init => DoneInv
  BY DEF Init, DoneInv
<1>2. LexInv /\ DoneInv /\ [Next]_vars => DoneInv'
  BY DoneNext
<1> QED
  BY <1>1, <1>2, Invariant, PTL DEF Spec

-----------------------------------------------------------------------------
(* What the tokens must be.                                                  *)

LEMMA CoversSource ==
  ASSUME LexInv, DoneInv
  PROVE  TokensCoverSource
<1>1. Cover(toks, i)
  BY DEF LexInv
<1>2. toks \in Seq(Token) /\ DOMAIN toks = 1..Len(toks)
  BY <1>1 DEF Cover
<1>3. ASSUME NEW n \in 1..Len(toks), NEW before, before = IF n = 1 THEN 1 ELSE toks[n - 1].to
      PROVE  /\ before <= toks[n].from /\ Spelled(toks[n])
             /\ Filler(src)[<<"code", before, toks[n].from>>]
  <2>1. TokenOK(toks[n]) /\ Skipped(before, toks[n].from)
    BY <1>1, <1>3 DEF Cover
  <2> QED
    BY <2>1 DEF TokenOK, Skipped
<1> QED
  BY <1>2, <1>3 DEF TokensCoverSource, DoneInv

LEMMA NothingSplit ==
  ASSUME LexInv
  PROVE  LongestMatch
<1>1. SrcOK /\ Len(src) \in Nat /\ toks \in Seq(Token) /\ Len(toks) \in Nat
  BY PeekFacts DEF LexInv, Cover
<1>2. ASSUME NEW n \in 2..Len(toks), NEW a, a = toks[n - 1], NEW b, b = toks[n], a.to = b.from
      PROVE  /\ (a.to = a.from + 1 /\ b.to > b.from) =>
                   /\ <<Norm(src[a.from]), Norm(src[b.from])>> \notin Twos
                   /\ ~ StartsComment(a.from)
             /\ ~ ({a.kind, b.kind} \subseteq {"IDENT", "KEYWORD"})
  <2>1. TokenOK(a) /\ TokenOK(b)
    <3>1. n \in 1..Len(toks) /\ n - 1 \in 1..Len(toks)
      BY <1>1
    <3> QED
      BY <1>2, <3>1 DEF LexInv, Cover
  <2>2. /\ a.from \in Nat /\ a.to \in Nat /\ b.from \in Nat /\ b.to \in Nat
        /\ a.from \in 1..(Len(src) + 1) /\ b.from \in 1..(Len(src) + 1) /\ b.to \in b.from..(Len(src) + 1)
        /\ a.to \in a.from..(Len(src) + 1)
    BY <2>1 DEF TokenOK, Token
  <2>3. ASSUME a.to = a.from + 1, b.to > b.from
        PROVE  <<Norm(src[a.from]), Norm(src[b.from])>> \notin Twos /\ ~ StartsComment(a.from)
    <3>1. a.from \in 1..Len(src) /\ b.from \in 1..Len(src) /\ b.from = a.from + 1
      BY <1>1, <1>2, <2>2, <2>3
    <3>2. Peek(a.from) = src[a.from] /\ Peek(a.from + 1) = src[b.from]
      BY <1>1, <3>1, PeekFacts
    <3>3. <<Norm(Peek(a.from)), Norm(Peek(a.from + 1))>> \notin Twos /\ ~ StartsComment(a.from)
      BY <2>1, <2>3 DEF TokenOK
    <3> QED
      BY <3>2, <3>3
  <2>4. ASSUME a.kind \in {"IDENT", "KEYWORD"}, b.kind \in {"IDENT", "KEYWORD"}
        PROVE  FALSE
    <3>1. Peek(b.from) \notin Letters \union Digits /\ src[b.from] \in Letters /\ b.from < b.to
      BY <1>2, <2>1, <2>4 DEF TokenOK
    <3>2. b.from \in 1..Len(src)
      BY <1>1, <2>2, <3>1
    <3> QED
      BY <1>1, <3>1, <3>2, PeekFacts
  <2> QED
    BY <2>3, <2>4
<1> QED
  BY <1>2 DEF LongestMatch

\* Whatever the source: no character is lost or read twice, every token is
\* spelled as its kind asks, only blanks and whole comments lie between them,
\* and the last one is where the source ends.
THEOREM SourceCovered == Spec => []TokensCoverSource
<1>1. LexInv /\ DoneInv => TokensCoverSource
  BY CoversSource
<1> QED
  BY <1>1, Invariant, DoneInvariant, PTL

\* Whatever the source: no operator, word or comment is split in two.
THEOREM NeverSplit == Spec => []LongestMatch
<1>1. LexInv => LongestMatch
  BY NothingSplit
<1> QED
  BY <1>1, Invariant, PTL

-----------------------------------------------------------------------------
(* Blocks.                                                                   *)

\* How many of the tokens up to n are of kind K, and how many blocks are open
\* behind token n.
Tally(ts, K, n) == Cardinality({m \in 1..n : ts[m].kind = K})
OpenBlocks(ts, n) == Tally(ts, "INDENT", n) - Tally(ts, "DEDENT", n)

\* By how much a token of kind K changes that.
Turn(K) == IF K = "INDENT" THEN 1 ELSE IF K = "DEDENT" THEN 0 - 1 ELSE 0

\* Every DEDENT closes a block that an INDENT in front of it opened, and at the
\* end of the file no block is open.
LayoutBalanced ==
  /\ \A n \in DOMAIN toks : OpenBlocks(toks, n) >= 0
  /\ at = "done" => OpenBlocks(toks, Len(toks)) = 0

\* The tokens nest, and b blocks are open behind them.
WellNested(ts, b) ==
  /\ ts \in Seq(Range(ts))
  /\ \A n \in 0..Len(ts) : OpenBlocks(ts, n) \in Nat
  /\ b = OpenBlocks(ts, Len(ts))

\* us is ts and d more tokens of kind K.
Longer(ts, us, K, d) ==
  /\ us \in Seq(Range(us)) /\ Len(us) = Len(ts) + d
  /\ \A m \in 1..Len(ts) : us[m] = ts[m]
  /\ \A m \in (Len(ts) + 1)..(Len(ts) + d) : us[m].kind = K

\* The blocks that are open have a width each, further in than the one around it.
NestInv ==
  /\ WellNested(toks, Len(indents) - 1)
  /\ at = "done" => Len(indents) = 1
  /\ indents[1] = 0 /\ \A m, n \in DOMAIN indents : m < n => indents[m] < indents[n]

LEMMA TallyNothing == \A ts, K : Tally(ts, K, 0) = 0
<1> SUFFICES ASSUME NEW ts, NEW K PROVE Tally(ts, K, 0) = 0
  OBVIOUS
<1>1. {m \in 1..0 : ts[m].kind = K} = {}
  OBVIOUS
<1> QED
  BY <1>1, FS_EmptySet DEF Tally

LEMMA TallyNext ==
  ASSUME NEW ts, NEW K, NEW n \in Nat
  PROVE  /\ Tally(ts, K, n) \in Nat
         /\ Tally(ts, K, n + 1) = IF ts[n + 1].kind = K THEN Tally(ts, K, n) + 1 ELSE Tally(ts, K, n)
<1> DEFINE S == {m \in 1..n : ts[m].kind = K}
           T == {m \in 1..(n + 1) : ts[m].kind = K}
<1>1. IsFiniteSet(S)
  <2>1. IsFiniteSet(1..n)
    BY FS_Interval
  <2>2. S \subseteq 1..n
    OBVIOUS
  <2> QED
    BY <2>1, <2>2, FS_Subset
<1>2. n + 1 \notin S
  OBVIOUS
<1>3. T = IF ts[n + 1].kind = K THEN S \union {n + 1} ELSE S
  OBVIOUS
<1> HIDE DEF S
<1>4. Cardinality(S) \in Nat
  BY <1>1, FS_CardinalityType
<1>5. Cardinality(S \union {n + 1}) = Cardinality(S) + 1
  BY <1>1, <1>2, FS_AddElement
<1>6. Cardinality(T) = IF ts[n + 1].kind = K THEN Cardinality(S) + 1 ELSE Cardinality(S)
  <2> HIDE DEF T
  <2> QED
    BY <1>3, <1>5
<1> QED
  BY <1>4, <1>6 DEF S, Tally

LEMMA TallySame ==
  ASSUME NEW ts, NEW us, NEW n \in Nat, \A m \in 1..n : ts[m] = us[m], NEW K
  PROVE  Tally(ts, K, n) = Tally(us, K, n)
<1>1. {m \in 1..n : ts[m].kind = K} = {m \in 1..n : us[m].kind = K}
  OBVIOUS
<1> QED
  BY <1>1 DEF Tally

\* What one more token does to the number of blocks that are open.
LEMMA OpenNext ==
  ASSUME NEW ts, NEW n \in Nat
  PROVE  /\ OpenBlocks(ts, n) \in Int
         /\ ts[n + 1].kind = "INDENT" => OpenBlocks(ts, n + 1) = OpenBlocks(ts, n) + 1
         /\ ts[n + 1].kind = "DEDENT" => OpenBlocks(ts, n + 1) = OpenBlocks(ts, n) - 1
         /\ ts[n + 1].kind \notin {"INDENT", "DEDENT"} => OpenBlocks(ts, n + 1) = OpenBlocks(ts, n)
<1>1. /\ Tally(ts, "INDENT", n) \in Nat
      /\ Tally(ts, "INDENT", n + 1) = IF ts[n + 1].kind = "INDENT" THEN Tally(ts, "INDENT", n) + 1 ELSE Tally(ts, "INDENT", n)
  BY TallyNext
<1>2. /\ Tally(ts, "DEDENT", n) \in Nat
      /\ Tally(ts, "DEDENT", n + 1) = IF ts[n + 1].kind = "DEDENT" THEN Tally(ts, "DEDENT", n) + 1 ELSE Tally(ts, "DEDENT", n)
  BY TallyNext
<1> QED
  BY <1>1, <1>2 DEF OpenBlocks

\* Tokens behind the others that open or close blocks, one as the next.
LEMMA Followed ==
  ASSUME NEW ts, Len(ts) \in Nat, NEW us, NEW d \in Nat, NEW K, Longer(ts, us, K, d)
  PROVE  /\ \A n \in 0..Len(ts) : OpenBlocks(us, n) = OpenBlocks(ts, n)
         /\ \A k \in 0..d : OpenBlocks(us, Len(ts) + k) = OpenBlocks(ts, Len(ts)) + Turn(K) * k
<1>a. PICK N \in Nat : N = Len(ts)
  OBVIOUS
<1>b. PICK by : by = Turn(K)
  OBVIOUS
<1>c. /\ \A m \in 1..N : us[m] = ts[m]
      /\ \A m \in (N + 1)..(N + d) : us[m].kind = K
  BY <1>a DEF Longer
<1>0. by \in {0 - 1, 0, 1}
  BY <1>b DEF Turn
<1>1. ASSUME NEW n \in 0..N PROVE OpenBlocks(us, n) = OpenBlocks(ts, n)
  <2>1. n \in Nat /\ \A m \in 1..n : ts[m] = us[m]
    BY <1>c
  <2>2. Tally(ts, "INDENT", n) = Tally(us, "INDENT", n) /\ Tally(ts, "DEDENT", n) = Tally(us, "DEDENT", n)
    BY <2>1, TallySame
  <2> QED
    BY <2>2 DEF OpenBlocks
<1> DEFINE Bad == {k \in 0..d : OpenBlocks(us, N + k) # OpenBlocks(ts, N) + by * k}
<1>2. OpenBlocks(ts, N) \in Int /\ OpenBlocks(us, N) = OpenBlocks(ts, N)
  BY <1>1, OpenNext
<1>3. Bad = {}
  <2> SUFFICES ASSUME Bad # {} PROVE FALSE
    OBVIOUS
  <2>1. PICK k \in Bad : \A y \in Bad : k <= y
    <3>1. Bad \subseteq Nat
      OBVIOUS
    <3> HIDE DEF Bad
    <3> QED
      BY <3>1, LeastNumber
  <2>2. k # 0
    BY <1>0, <1>2
  <2>3. k - 1 \in 0..d /\ k - 1 \notin Bad
    <3>1. k - 1 \in 0..d /\ ~ k <= k - 1
      BY <2>2
    <3> HIDE DEF Bad
    <3> QED
      BY <2>1, <3>1
  <2>4. PICK n \in Nat : n = N + (k - 1)
    <3>1. N + (k - 1) \in Nat
      BY <2>3
    <3> QED
      BY <3>1
  <2>5. OpenBlocks(us, n) = OpenBlocks(ts, N) + by * (k - 1)
    BY <1>0, <2>3, <2>4
  <2>6. us[n + 1].kind = K /\ n + 1 = N + k
    BY <1>c, <2>3, <2>4
  <2>7. OpenBlocks(us, n + 1) = OpenBlocks(us, n) + by
    BY <1>b, <2>6, OpenNext DEF Turn
  <2>8. by * (k - 1) + by = by * k
    BY <1>0, <2>3
  <2>9. OpenBlocks(us, N + k) = OpenBlocks(ts, N) + by * k
    <3>1. PICK x \in Int : x = by * (k - 1)
      BY <1>0, <2>3
    <3>2. PICK y \in Int : y = by * k /\ x + by = y
      BY <1>0, <2>3, <2>8, <3>1
    <3>3. OpenBlocks(us, n + 1) = (OpenBlocks(ts, N) + x) + by
      BY <2>5, <2>7, <3>1
    <3>4. OpenBlocks(us, n + 1) = OpenBlocks(ts, N) + y
      BY <1>0, <1>2, <3>2, <3>3
    <3> QED
      BY <2>6, <3>2, <3>4
  <2> QED
    BY <2>9
<1> QED
  BY <1>a, <1>b, <1>1, <1>3

\* What a step does to the blocks: nothing, ...
Quiet == toks' = toks /\ indents' = indents /\ (at' = "done" => at = "done")
\* ... nothing although it emits a token, ...
Spoken == \E t : toks' = Append(toks, t) /\ t.kind \notin {"INDENT", "DEDENT"} /\ indents' = indents /\ at' = at
\* ... it opens one, ...
Opened == \E k \in Nat : /\ k > Last(indents) /\ indents' = Append(indents, k)
                         /\ toks' = toks \o Layout("INDENT", 1) /\ at' = at
\* ... closes some, ...
Closed == \E stay \in 1..Len(indents) : /\ indents' = SubSeq(indents, 1, stay)
                                        /\ toks' = toks \o Layout("DEDENT", Len(indents) - stay) /\ at' = at
\* ... or all that are open.
AllClosed == /\ indents' = <<0>>
             /\ toks' = (toks \o Layout("DEDENT", Len(indents) - 1)) \o Layout("EOF", 1)

LEMMA RaisedIsQuiet ==
  ASSUME at = "lexing", NEW why \in {"comment", "indentation", "number", "string", "character"}, Raise(why)
  PROVE  Quiet
<1>1. toks' = toks /\ indents' = indents /\ at' = why
  BY DEF Raise
<1> QED
  BY <1>1 DEF Quiet

LEMMA EmittedIsSpoken ==
  ASSUME NEW K, K \notin {"INDENT", "DEDENT"}, NEW to, Emit(K, to)
  PROVE  Spoken
<1>1. PICK t : t = [kind |-> K, from |-> i, to |-> to]
  OBVIOUS
<1>2. t.kind = K
  BY <1>1
<1>3. toks' = Append(toks, t) /\ indents' = indents /\ at' = at
  BY <1>1 DEF Emit
<1> QED
  BY <1>2, <1>3 DEF Spoken

LEMMA LineStartBlocks ==
  ASSUME LexInv, LineStart
  PROVE  Quiet \/ Opened \/ Closed
<1>1. PICK k : k = After(i, {Space}) - i
  OBVIOUS
<1>2. k \in Nat
  <2>1. PICK N \in Nat : N = Len(src)
    BY PeekFacts DEF LexInv
  <2>2. PICK p : p = i
    OBVIOUS
  <2>3. p \in 1..(N + 1) /\ SrcOK
    BY <2>1, <2>2 DEF LexInv
  <2>4. "end" \notin {Space}
    BY Zenon DEF Space
  <2>5. PICK h : h = After(p, {Space})
    OBVIOUS
  <2>6. h \in p..(N + 1)
    BY <2>1, <2>3, <2>4, <2>5, AfterFacts
  <2> QED
    BY <1>1, <2>2, <2>3, <2>5, <2>6
<1>3. PICK j : j = CommentsEnd(i + k)
  OBVIOUS
<1>4. PICK stay : stay = Staying(k)
  OBVIOUS
<1>5. at = "lexing"
  BY DEF LineStart
<1>6. \/ Raise("comment") \/ Raise("indentation")
      \/ indents' = indents /\ toks' = toks /\ at' = at
      \/ /\ ~ k <= Last(indents) /\ indents' = Append(indents, k)
         /\ toks' = toks \o Layout("INDENT", 1) /\ at' = at
      \/ /\ stay # 0 /\ indents' = SubSeq(indents, 1, stay)
         /\ toks' = toks \o Layout("DEDENT", Len(indents) - stay) /\ at' = at
  BY <1>1, <1>3, <1>4 DEF LineStart
<1>7. CASE Raise("comment") \/ Raise("indentation")
  BY <1>5, <1>7, RaisedIsQuiet
<1>8. CASE indents' = indents /\ toks' = toks /\ at' = at
  BY <1>5, <1>8 DEF Quiet
<1>9. CASE /\ ~ k <= Last(indents) /\ indents' = Append(indents, k)
           /\ toks' = toks \o Layout("INDENT", 1) /\ at' = at
  <2>1. Last(indents) \in Nat
    BY DEF LexInv, Last
  <2>2. k > Last(indents)
    BY <1>2, <1>9, <2>1
  <2> QED
    BY <1>2, <1>9, <2>2 DEF Opened
<1>10. CASE /\ stay # 0 /\ indents' = SubSeq(indents, 1, stay)
            /\ toks' = toks \o Layout("DEDENT", Len(indents) - stay) /\ at' = at
  <2>1. stay \in 0..Len(indents)
    BY <1>2, <1>4, StayingRange DEF LexInv
  <2>2. stay \in 1..Len(indents)
    BY <2>1, <1>10 DEF LexInv
  <2> QED
    BY <1>10, <2>2 DEF Closed
<1> QED
  BY <1>6, <1>7, <1>8, <1>9, <1>10

LEMMA StepBlocks ==
  ASSUME LexInv, Next
  PROVE  Quiet \/ Spoken \/ Opened \/ Closed \/ AllClosed
<1>1. CASE LineStart
  BY <1>1, LineStartBlocks
<1>2. CASE Blank
  BY <1>2 DEF Blank, Quiet
<1>3. CASE Comment
  <2>1. at = "lexing" /\ (Raise("comment") \/ (toks' = toks /\ indents' = indents /\ at' = at))
    BY <1>3 DEF Comment, InLine
  <2> QED
    BY <2>1, RaisedIsQuiet DEF Quiet
<1>4. CASE NewLine
  <2>1. PICK t : t = [kind |-> "NL", from |-> i, to |-> i + 1]
    OBVIOUS
  <2>2. indents' = indents /\ at' = at /\ (toks' = toks \/ toks' = Append(toks, t))
    BY <1>4, <2>1 DEF NewLine
  <2>3. t.kind = "NL"
    BY <2>1
  <2> QED
    BY <2>2, <2>3 DEF Quiet, Spoken
<1>5. CASE Word
  <2>1. \E e : Emit("KEYWORD", e) \/ Emit("IDENT", e)
    BY <1>5 DEF Word
  <2> QED
    BY <2>1, EmittedIsSpoken
<1>6. CASE Number
  <2>1. at = "lexing" /\ (Raise("number") \/ \E e : Emit("FLOAT", e) \/ Emit("INT", e))
    BY <1>6 DEF Number, InLine
  <2> QED
    BY <2>1, EmittedIsSpoken, RaisedIsQuiet
<1>7. CASE String
  <2>1. at = "lexing" /\ (Raise("string") \/ \E e : Emit("BYTES", e) \/ Emit("STR", e))
    BY <1>7 DEF String, InLine
  <2> QED
    BY <2>1, EmittedIsSpoken, RaisedIsQuiet
<1>8. CASE Operator
  <2>1. PICK K : K = IF OpLen = 2 THEN "op" ELSE Norm(Here)
    OBVIOUS
  <2>2. OpLen > 0 /\ Emit(K, i + OpLen)
    BY <1>8, <2>1 DEF Operator
  <2>3. K = "op" \/ K \in Ones
    BY <2>1, <2>2 DEF OpLen
  <2>4. K \notin {"INDENT", "DEDENT"}
    <3>1. \A x \in Ones : x \notin {"INDENT", "DEDENT"}
      BY KindFacts DEF Names
    <3> QED
      BY <2>3, <3>1
  <2> QED
    BY <2>2, <2>4, EmittedIsSpoken
<1>9. CASE Unexpected
  <2>1. at = "lexing" /\ Raise("character")
    BY <1>9 DEF Unexpected
  <2> QED
    BY <2>1, RaisedIsQuiet
<1>10. CASE EndOfFile
  BY <1>10 DEF EndOfFile, AllClosed
<1> QED
  BY <1>1, <1>2, <1>3, <1>4, <1>5, <1>6, <1>7, <1>8, <1>9, <1>10 DEF Next

\* One sequence behind another one.
LEMMA Behind ==
  ASSUME NEW S, NEW ts \in Seq(S), NEW ls \in Seq(S), NEW us, us = ts \o ls
  PROVE  /\ us \in Seq(S) /\ Len(us) = Len(ts) + Len(ls)
         /\ \A m \in 1..Len(ts) : us[m] = ts[m]
         /\ \A m \in (Len(ts) + 1)..(Len(ts) + Len(ls)) : us[m] = ls[m - Len(ts)]
  OBVIOUS

LEMMA OverItsRange ==
  ASSUME NEW S, NEW s \in Seq(S)
  PROVE  s \in Seq(Range(s))
<1>1. Len(s) \in Nat /\ DOMAIN s = 1..Len(s) /\ s = [k \in 1..Len(s) |-> s[k]]
  OBVIOUS
<1>2. \A k \in 1..Len(s) : s[k] \in Range(s)
  BY <1>1 DEF Range
<1> QED
  BY <1>1, <1>2

\* Layout tokens behind the others.
LEMMA LaidBehind ==
  ASSUME NEW ts, ts \in Seq(Range(ts)), NEW K, NEW d \in Nat, NEW us, us = ts \o Layout(K, d)
  PROVE  Longer(ts, us, K, d)
<1>1. PICK t : t = [kind |-> K, from |-> i, to |-> i]
  OBVIOUS
<1>2. PICK ls : ls = [m \in 1..d |-> t]
  OBVIOUS
<1>3. PICK T : T = Range(ts) \union {t}
  OBVIOUS
<1>4. ts \in Seq(T) /\ ls \in Seq(T) /\ Len(ls) = d /\ \A m \in 1..d : ls[m] = t
  BY <1>2, <1>3
<1>5. us = ts \o ls
  BY <1>1, <1>2 DEF Layout
<1> HIDE <1>2, <1>3
<1>6. /\ us \in Seq(T) /\ Len(us) = Len(ts) + Len(ls)
      /\ \A m \in 1..Len(ts) : us[m] = ts[m]
      /\ \A m \in (Len(ts) + 1)..(Len(ts) + Len(ls)) : us[m] = ls[m - Len(ts)]
  BY <1>4, <1>5
<1>7. ASSUME NEW m \in (Len(ts) + 1)..(Len(ts) + d) PROVE us[m].kind = K
  <2>1. m - Len(ts) \in 1..d
    BY <1>4
  <2>2. us[m] = t
    BY <1>4, <1>6, <2>1
  <2> QED
    BY <1>1, <2>2
<1>8. us \in Seq(Range(us))
  BY <1>6, OverItsRange
<1> QED
  BY <1>4, <1>6, <1>7, <1>8 DEF Longer

\* One token more.
LEMMA OneBehind ==
  ASSUME NEW ts, ts \in Seq(Range(ts)), NEW t, NEW us, us = Append(ts, t)
  PROVE  Longer(ts, us, t.kind, 1)
<1>1. PICK T : T = Range(ts) \union {t}
  OBVIOUS
<1>2. ts \in Seq(T) /\ t \in T
  BY <1>1
<1>3. us \in Seq(T) /\ Len(us) = Len(ts) + 1 /\ us[Len(ts) + 1] = t /\ \A m \in 1..Len(ts) : us[m] = ts[m]
  BY <1>2
<1>4. us \in Seq(Range(us))
  BY <1>3, OverItsRange
<1>5. \A m \in (Len(ts) + 1)..(Len(ts) + 1) : m = Len(ts) + 1
  BY <1>2
<1>6. us[Len(ts) + 1].kind = t.kind
  BY <1>3
<1> QED
  BY <1>3, <1>4, <1>5, <1>6 DEF Longer

\* What a run of tokens does to the blocks.
LEMMA BlocksBehind ==
  ASSUME NEW ts, NEW b, WellNested(ts, b), NEW us, NEW K, NEW d \in Nat, Longer(ts, us, K, d),
         NEW c \in Nat, c = b + Turn(K) * d
  PROVE  WellNested(us, c)
<1>1. PICK N : N = Len(ts)
  OBVIOUS
<1>2. /\ N \in Nat /\ N \in 0..N /\ b = OpenBlocks(ts, N) /\ b \in Nat
      /\ \A n \in 0..N : OpenBlocks(ts, n) \in Nat
  BY <1>1 DEF WellNested
<1>3. us \in Seq(Range(us)) /\ Len(us) = N + d
  BY <1>1 DEF Longer
<1>4. PICK by \in {0 - 1, 0, 1} : by = Turn(K)
  BY DEF Turn
<1>5. /\ \A n \in 0..N : OpenBlocks(us, n) = OpenBlocks(ts, n)
      /\ \A k \in 0..d : OpenBlocks(us, N + k) = OpenBlocks(ts, N) + by * k
  <2>1. /\ \A n \in 0..Len(ts) : OpenBlocks(us, n) = OpenBlocks(ts, n)
        /\ \A k \in 0..d : OpenBlocks(us, Len(ts) + k) = OpenBlocks(ts, Len(ts)) + Turn(K) * k
    BY <1>1, <1>2, Followed
  <2> QED
    BY <1>1, <1>4, <2>1
<1>6. ASSUME NEW n \in 0..Len(us) PROVE OpenBlocks(us, n) \in Nat
  <2>1. CASE n \in 0..N
    BY <2>1, <1>2, <1>5
  <2>2. CASE n \notin 0..N
    <3>1. PICK k \in 0..d : n = N + k
      <4>1. n - N \in 0..d /\ n = N + (n - N)
        BY <1>2, <1>3, <2>2
      <4> QED
        BY <4>1
    <3>2. OpenBlocks(us, n) = b + by * k
      BY <1>2, <1>5, <3>1
    <3>3. b + by * k \in Nat
      BY <1>2, <1>4
    <3> QED
      BY <3>2, <3>3
  <2> QED
    BY <2>1, <2>2
<1>7. OpenBlocks(us, N + d) = c
  BY <1>2, <1>4, <1>5
<1> QED
  BY <1>3, <1>6, <1>7 DEF WellNested

LEMMA NestFacts ==
  ASSUME NestInv, LexInv
  PROVE  /\ toks \in Seq(Range(toks)) /\ indents \in Seq(Nat) /\ Len(indents) \in Nat \ {0}
         /\ WellNested(toks, Len(indents) - 1) /\ indents[1] = 0
         /\ \A m, n \in DOMAIN indents : m < n => indents[m] < indents[n]
<1>1. indents \in Seq(Nat) /\ Len(indents) \in Nat \ {0}
  BY DEF LexInv
<1> QED
  BY <1>1 DEF NestInv, WellNested

LEMMA NestInit == Init => NestInv
<1> SUFFICES ASSUME Init PROVE NestInv
  OBVIOUS
<1>1. toks = <<>> /\ indents = <<0>> /\ at = "lexing"
  BY DEF Init
<1>2. OpenBlocks(toks, 0) = 0
  BY TallyNothing DEF OpenBlocks
<1>3. toks \in Seq(Range(toks)) /\ Len(toks) = 0
  BY <1>1
<1>4. Len(indents) = 1 /\ indents[1] = 0 /\ DOMAIN indents = {1}
  BY <1>1
<1>5. \A n \in 0..Len(toks) : n = 0
  BY <1>3
<1> QED
  BY <1>1, <1>2, <1>3, <1>4, <1>5 DEF NestInv, WellNested

\* A token that opens and closes nothing.
LEMMA SpokenKeeps ==
  ASSUME LexInv, NestInv, Spoken
  PROVE  NestInv'
<1>1. PICK t : toks' = Append(toks, t) /\ t.kind \notin {"INDENT", "DEDENT"} /\ indents' = indents /\ at' = at
  BY DEF Spoken
<1>2. PICK us : us = Append(toks, t)
  OBVIOUS
<1>3. PICK b \in Nat : b = Len(indents) - 1
  <2>1. Len(indents) \in Nat \ {0}
    BY NestFacts
  <2>2. Len(indents) - 1 \in Nat
    BY <2>1
  <2> QED
    BY <2>2
<1>4. toks \in Seq(Range(toks)) /\ WellNested(toks, b)
  BY <1>3, NestFacts
<1>5. PICK K : K = t.kind
  OBVIOUS
<1>6. Longer(toks, us, K, 1)
  BY <1>2, <1>4, <1>5, OneBehind
<1>7. Turn(K) = 0 /\ b = b + Turn(K) * 1
  BY <1>1, <1>5 DEF Turn
<1>8. WellNested(us, b)
  BY <1>4, <1>6, <1>7, BlocksBehind
<1>9. toks' = us
  BY <1>1, <1>2
<1> QED
  BY <1>1, <1>3, <1>8, <1>9 DEF NestInv

\* A line that is further in opens a block.
LEMMA OpenedKeeps ==
  ASSUME LexInv, NestInv, Opened, at = "lexing"
  PROVE  NestInv'
<1>1. PICK k \in Nat : /\ k > Last(indents) /\ indents' = Append(indents, k)
                       /\ toks' = toks \o Layout("INDENT", 1) /\ at' = at
  BY DEF Opened
<1>2. indents \in Seq(Nat) /\ Len(indents) # 0
  BY DEF LexInv
<1>3. PICK w : w = Append(indents, k)
  OBVIOUS
<1>4. /\ w \in Seq(Nat) /\ Len(w) = Len(indents) + 1 /\ w[Len(indents) + 1] = k
      /\ \A m \in 1..Len(indents) : w[m] = indents[m]
  BY <1>2, <1>3
<1>5. \A m, n \in DOMAIN indents : m < n => indents[m] < indents[n]
  BY DEF NestInv
<1>6. \A m \in 1..Len(indents) : indents[m] < k
  <2> TAKE m \in 1..Len(indents)
  <2>1. Last(indents) = indents[Len(indents)] /\ Len(indents) \in 1..Len(indents) /\ indents[m] \in Nat
    BY <1>2 DEF Last
  <2>2. indents[Len(indents)] < k /\ indents[Len(indents)] \in Nat
    BY <1>1, <1>2, <2>1
  <2>3. m = Len(indents) \/ indents[m] < indents[Len(indents)]
    BY <1>2, <1>5, <2>1
  <2> QED
    BY <2>1, <2>2, <2>3
<1>7. w[1] = 0 /\ \A m, n \in DOMAIN w : m < n => w[m] < w[n]
  <2>1. w[1] = 0
    <3>1. 1 \in 1..Len(indents) /\ indents[1] = 0
      BY <1>2 DEF NestInv
    <3> QED
      BY <1>4, <3>1
  <2>2. DOMAIN w = 1..(Len(indents) + 1)
    BY <1>4
  <2>3. ASSUME NEW m \in DOMAIN w, NEW n \in DOMAIN w, m < n PROVE w[m] < w[n]
    <3>1. PICK L \in Nat : L = Len(indents) /\ DOMAIN indents = 1..L
      BY <1>2
    <3>2. m \in 1..(L + 1) /\ n \in 1..(L + 1)
      BY <2>2, <3>1
    <3>3. m \in 1..L /\ (n \in 1..L \/ n = L + 1)
      BY <2>3, <3>2
    <3>4. w[m] = indents[m] /\ indents[m] < k
      BY <1>4, <1>6, <3>1, <3>3
    <3>5. CASE n \in 1..L
      BY <1>4, <1>5, <2>3, <3>1, <3>3, <3>4, <3>5
    <3>6. CASE n = L + 1
      BY <1>4, <3>1, <3>4, <3>6
    <3> QED
      BY <3>3, <3>5, <3>6
  <2> QED
    BY <2>1, <2>3
<1>8. PICK us : us = toks \o Layout("INDENT", 1)
  OBVIOUS
<1>9. PICK b \in Nat : b = Len(indents) - 1
  <2>1. Len(indents) \in Nat \ {0}
    BY NestFacts
  <2>2. Len(indents) - 1 \in Nat
    BY <2>1
  <2> QED
    BY <2>2
<1>10. toks \in Seq(Range(toks)) /\ WellNested(toks, b)
  BY <1>9, NestFacts
<1>11. Longer(toks, us, "INDENT", 1)
  BY <1>8, <1>10, LaidBehind
<1>12. PICK c \in Nat : c = b + 1
  OBVIOUS
<1>13. c = b + Turn("INDENT") * 1
  BY <1>12 DEF Turn
<1>14. WellNested(us, c)
  BY <1>10, <1>11, <1>13, BlocksBehind
<1>15. c = Len(w) - 1
  BY <1>2, <1>4, <1>9, <1>12
<1>16. toks' = us /\ indents' = w /\ at' # "done"
  BY <1>1, <1>3, <1>8
<1> QED
  BY <1>7, <1>14, <1>15, <1>16 DEF NestInv

\* A line that is less far in closes the blocks it is not in.
LEMMA ClosedKeeps ==
  ASSUME LexInv, NestInv, Closed, at = "lexing"
  PROVE  NestInv'
<1>1. PICK stay \in 1..Len(indents) : /\ indents' = SubSeq(indents, 1, stay)
                                      /\ toks' = toks \o Layout("DEDENT", Len(indents) - stay) /\ at' = at
  BY DEF Closed
<1>2. indents \in Seq(Nat) /\ stay \in Nat /\ Len(indents) - stay \in Nat /\ Len(indents) \in Nat
  BY DEF LexInv
<1>3. PICK w : w = SubSeq(indents, 1, stay)
  OBVIOUS
<1>4. Len(w) = stay /\ \A m \in 1..stay : w[m] = indents[m]
  <2>1. \A m \in 1..stay : indents[m] \in Nat
    BY <1>2
  <2> QED
    BY <1>2, <1>3, <2>1, SubSeqProperties
<1>5. w[1] = 0 /\ \A m, n \in DOMAIN w : m < n => w[m] < w[n]
  <2>1. DOMAIN w = 1..stay /\ 1..stay \subseteq DOMAIN indents /\ 1 \in 1..stay
    <3>1. w \in Seq(Nat)
      BY <1>2, <1>3, SubSeqProperties
    <3> QED
      BY <1>2, <1>4, <3>1
  <2>2. indents[1] = 0 /\ \A m, n \in DOMAIN indents : m < n => indents[m] < indents[n]
    BY DEF NestInv
  <2> QED
    BY <1>4, <2>1, <2>2
<1>6. PICK d \in Nat : d = Len(indents) - stay
  BY <1>2
<1>7. PICK us : us = toks \o Layout("DEDENT", d)
  OBVIOUS
<1>8. PICK b \in Nat : b = Len(indents) - 1
  <2>1. Len(indents) \in Nat \ {0}
    BY NestFacts
  <2>2. Len(indents) - 1 \in Nat
    BY <2>1
  <2> QED
    BY <2>2
<1>9. toks \in Seq(Range(toks)) /\ WellNested(toks, b)
  BY <1>8, NestFacts
<1>10. Longer(toks, us, "DEDENT", d)
  BY <1>7, <1>9, LaidBehind
<1>11. PICK c \in Nat : c = stay - 1
  BY <1>1, <1>2
<1>12. c = b + Turn("DEDENT") * d
  BY <1>2, <1>6, <1>8, <1>11 DEF Turn
<1>13. WellNested(us, c)
  BY <1>9, <1>10, <1>12, BlocksBehind
<1>14. c = Len(w) - 1
  BY <1>4, <1>11
<1>15. toks' = us /\ indents' = w /\ at' # "done"
  BY <1>1, <1>3, <1>6, <1>7
<1> QED
  BY <1>5, <1>13, <1>14, <1>15 DEF NestInv

\* The end of the file closes all blocks.
LEMMA AllClosedKeeps ==
  ASSUME LexInv, NestInv, AllClosed
  PROVE  NestInv'
<1>1. PICK b \in Nat : b = Len(indents) - 1
  <2>1. Len(indents) \in Nat \ {0}
    BY NestFacts
  <2>2. Len(indents) - 1 \in Nat
    BY <2>1
  <2> QED
    BY <2>2
<1>2. toks \in Seq(Range(toks)) /\ WellNested(toks, b)
  BY <1>1, NestFacts
<1>3. PICK closed : closed = toks \o Layout("DEDENT", b)
  OBVIOUS
<1>4. PICK us : us = closed \o Layout("EOF", 1)
  OBVIOUS
<1>5. WellNested(closed, 0)
  <2>1. Longer(toks, closed, "DEDENT", b)
    BY <1>2, <1>3, LaidBehind
  <2>2. 0 = b + Turn("DEDENT") * b
    BY DEF Turn
  <2> QED
    BY <1>2, <2>1, <2>2, BlocksBehind
<1>6. WellNested(us, 0)
  <2>1. closed \in Seq(Range(closed))
    BY <1>5 DEF WellNested
  <2>2. Longer(closed, us, "EOF", 1)
    BY <1>4, <2>1, LaidBehind
  <2>3. 0 = 0 + Turn("EOF") * 1
    BY DEF Turn
  <2> QED
    BY <1>5, <2>2, <2>3, BlocksBehind
<1>7. toks' = us /\ indents' = <<0>>
  BY <1>1, <1>3, <1>4 DEF AllClosed
<1>8. Len(<<0>>) = 1 /\ <<0>>[1] = 0 /\ DOMAIN <<0>> = {1}
  OBVIOUS
<1> QED
  BY <1>6, <1>7, <1>8 DEF NestInv

\* Whatever the source: layout tokens nest, and an accepted file has closed every
\* block it opened. The parser relies on both (lexer.py:123-171, 420-425).
THEOREM BlocksNest == Spec => []LayoutBalanced
<1>1. Init => NestInv
  BY NestInit
<1>2. LexInv /\ NestInv /\ [Next]_vars => NestInv'
  <2> SUFFICES ASSUME LexInv, NestInv, [Next]_vars PROVE NestInv'
    OBVIOUS
  <2>1. CASE Next
    <3>1. at = "lexing"
      BY <2>1 DEF Next, LineStart, Blank, Comment, NewLine, Word, Number, String, Operator, Unexpected, EndOfFile, InLine
    <3>2. CASE Quiet
      BY <3>2 DEF Quiet, NestInv
    <3> QED
      BY <2>1, <3>1, <3>2, StepBlocks, SpokenKeeps, OpenedKeeps, ClosedKeeps, AllClosedKeeps
  <2>2. CASE UNCHANGED vars
    BY <2>2 DEF vars, NestInv
  <2> QED
    BY <2>1, <2>2
<1>3. NestInv => LayoutBalanced
  <2> SUFFICES ASSUME NestInv PROVE LayoutBalanced
    OBVIOUS
  <2>1. \A n \in DOMAIN toks : OpenBlocks(toks, n) >= 0
    <3> TAKE n \in DOMAIN toks
    <3>1. n \in 0..Len(toks)
      BY DEF NestInv, WellNested
    <3> QED
      BY <3>1 DEF NestInv, WellNested
  <2>2. at = "done" => OpenBlocks(toks, Len(toks)) = 0
    <3>1. OpenBlocks(toks, Len(toks)) = Len(indents) - 1
      BY DEF NestInv, WellNested
    <3>2. at = "done" => Len(indents) = 1
      BY DEF NestInv
    <3> QED
      BY <3>1, <3>2
  <2> QED
    BY <2>1, <2>2 DEF LayoutBalanced
<1> QED
  BY <1>1, <1>2, <1>3, Invariant, PTL DEF Spec
=============================================================================
