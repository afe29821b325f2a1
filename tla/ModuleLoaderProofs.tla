-------------------------- MODULE ModuleLoaderProofs --------------------------
(* The expansion of use statements, for all projects: every module comes once *)
(* and behind those it uses, and none is missing.                              *)
EXTENDS ModuleLoader, TLAPS, WellFoundedInduction

-----------------------------------------------------------------------------
(* Least elements.                                                           *)

\* A set of naturals that is not empty has a least element, and Min finds it.
LEMMA MinOf ==
  ASSUME NEW S, S \subseteq Nat, S # {}
  PROVE  Min(S) \in S /\ \A y \in S : Min(S) <= y
<1> DEFINE R == OpToRel(<, Nat)
<1>1. \E x \in S : \A y \in S : ~ (<<y, x>> \in R)
  BY NatLessThanWellFounded, WFMin
<1>2. PICK x \in S : \A y \in S : ~ (<<y, x>> \in R)
  BY <1>1
<1>3. \A y \in S : x <= y
  <2> TAKE y \in S
  <2>1. ~ (<<y, x>> \in R)
    BY <1>2
  <2>2. x \in Nat /\ y \in Nat /\ <<y, x>> \in Nat \X Nat
    OBVIOUS
  <2>3. ~ (y < x)
    BY <2>1, <2>2 DEF OpToRel
  <2> QED
    BY <2>2, <2>3
<1> QED
  BY <1>3 DEF Min

-----------------------------------------------------------------------------
(* The inductive invariant, of any frames fs, visited set vis, order ord,      *)
(* cache g and value a of at, so that it can be stated of the next state too.  *)

Files == DOMAIN P.text
Names == {Main} \union UNION {Requested(P.text[f]) : f \in Files}
Frame == [mod : Names, file : Files \union {Main}, next : Nat]

\* The project is one of those there are.
ProjectOK == \E k \in DOMAIN Projects : project \in Projects[k]

\* The first frame is the program, the others are modules that were read and
\* are not visited, each once.
FramesAt(fs, vis, g) ==
  /\ fs \in Seq(Frame) /\ fs # <<>> /\ fs[1].mod = Main
  /\ \A k \in 2..Len(fs) :
        /\ fs[k].mod # Main /\ fs[k].mod \notin vis /\ fs[k].file \in Files
        /\ fs[k].mod \in DOMAIN g /\ fs[k].file = g[fs[k].mod].file
  /\ \A j, k \in 2..Len(fs) : fs[j].mod = fs[k].mod => j = k

\* What a call has walked past is visited.
WalkedAt(fs, vis) ==
  \A k \in 1..Len(fs) : \A n \in UsesIn(ItemsOf(fs[k])) :
     n < fs[k].next => ItemsOf(fs[k])[n].name \in vis

\* Each call waits for the one above it.
WaitingAt(fs) ==
  \A k \in 1..(Len(fs) - 1) :
     Upcoming(fs[k]) # {} /\ ItemsOf(fs[k])[Position(fs[k])].name = fs[k + 1].mod

\* What was read is visited or being expanded.
GotAt(fs, vis, g) ==
  /\ vis \subseteq DOMAIN g
  /\ \A q \in DOMAIN g : g[q].file \in Files /\ (q \in vis \/ \E k \in 2..Len(fs) : q = fs[k].mod)

\* The modules in out_items are the visited ones, once, behind what they use.
OrderAt(ord, vis, g) ==
  /\ ord \in Seq(Names) /\ vis = Range(ord)
  /\ \A j, k \in 1..Len(ord) : ord[j] = ord[k] => j = k
  /\ \A k \in 1..Len(ord) : \A q \in Requested(P.text[g[ord[k]].file]) : \E j \in 1..(k - 1) : ord[j] = q

\* Each of them was asked for by the program, by a later module or by one that
\* is still being expanded.
ReasonAt(fs, ord, g) ==
  \A k \in 1..Len(ord) :
     \/ ord[k] \in Requested(RootItems)
     \/ \E j \in (k + 1)..Len(ord) : ord[k] \in Requested(P.text[g[ord[j]].file])
     \/ \E j \in 2..Len(fs) : ord[k] \in Requested(ItemsOf(fs[j]))

\* The later passes begin when nothing is left to expand.
EndAt(fs, a) == a \notin {"loading"} \union LoadErrors => Len(fs) = 1 /\ Upcoming(fs[1]) = {}

WalkInv(fs, vis, ord, g, a) ==
  /\ FramesAt(fs, vis, g) /\ WalkedAt(fs, vis) /\ WaitingAt(fs) /\ GotAt(fs, vis, g)
  /\ OrderAt(ord, vis, g) /\ ReasonAt(fs, ord, g) /\ EndAt(fs, a)

LoadInv == ProjectOK /\ WalkInv(frames, visited, order, got, at)

-----------------------------------------------------------------------------
(* Items and positions.                                                      *)

\* The positions of a sequence.
LEMMA SeqDomain ==
  ASSUME NEW S, NEW s \in Seq(S)
  PROVE  DOMAIN s = 1..Len(s) /\ DOMAIN s \subseteq Nat \ {0}
OBVIOUS

\* What the project gives: sequences of items whose uses name a module.
LEMMA ProjectFacts ==
  ASSUME ProjectOK
  PROVE  /\ P.main \in Files
         /\ P.prelude /\ P.main # Prelude => Prelude \in Files
         /\ P.roots \in Seq(Range(P.roots))
         /\ Range(P.path) \subseteq Files
         /\ \A f \in Files : /\ P.text[f] \in Seq(Range(P.text[f]))
                            /\ \A n \in UsesIn(P.text[f]) : P.text[f][n].name # Main
BY ProjectsAssumption DEF ProjectOK, Files, UsesIn, P, Prelude

\* The modules that the items of a file ask for have names.
LEMMA FileFacts ==
  ASSUME ProjectOK, NEW f \in Files
  PROVE  /\ DOMAIN P.text[f] \subseteq Nat \ {0}
         /\ \A n \in UsesIn(P.text[f]) : P.text[f][n].name \in Names \ {Main}
<1>1. P.text[f] \in Seq(Range(P.text[f]))
  BY ProjectFacts
<1>2. DOMAIN P.text[f] \subseteq Nat \ {0}
  BY <1>1, SeqDomain
<1>3. ASSUME NEW n \in UsesIn(P.text[f])
      PROVE  P.text[f][n].name \in Names \ {Main}
  <2>1. P.text[f][n].name # Main
    BY ProjectFacts
  <2>2. P.text[f][n].name \in Requested(P.text[f])
    BY DEF Requested
  <2>3. P.text[f][n].name \in UNION {Requested(P.text[g]) : g \in Files}
    BY <2>2, Zenon
  <2> QED
    BY <2>1, <2>3 DEF Names
<1> QED
  BY <1>2, <1>3

\* The program's items are those of one file, or of two one after the other.
LEMMA RootFacts ==
  ASSUME ProjectOK
  PROVE  /\ DOMAIN RootItems \subseteq Nat \ {0}
         /\ \A n \in UsesIn(RootItems) : RootItems[n].name \in Names \ {Main}
<1>1. CASE P.prelude /\ P.main # Prelude
  <2> DEFINE s == P.text[Prelude]
             t == P.text[P.main]
             S == Range(s) \union Range(t)
  <2>1. s \in Seq(S) /\ t \in Seq(S) /\ RootItems = s \o t
    <3>1. s \in Seq(Range(s)) /\ t \in Seq(Range(t))
      BY ProjectFacts, <1>1
    <3> HIDE DEF s, t
    <3>2. s \in Seq(S) /\ t \in Seq(S)
      BY <3>1
    <3> QED
      BY <3>2, <1>1 DEF RootItems, s, t
  <2>2. /\ \A n \in UsesIn(s) : s[n].name \in Names \ {Main}
        /\ \A n \in UsesIn(t) : t[n].name \in Names \ {Main}
    BY ProjectFacts, FileFacts, <1>1
  <2> HIDE DEF s, t, S
  <2>3. /\ DOMAIN (s \o t) = 1..(Len(s) + Len(t))
        /\ \A n \in 1..Len(s) : (s \o t)[n] = s[n]
        /\ \A n \in (Len(s) + 1)..(Len(s) + Len(t)) : (s \o t)[n] = t[n - Len(s)] /\ n - Len(s) \in 1..Len(t)
    BY <2>1
  <2>4. ASSUME NEW n \in UsesIn(s \o t)
        PROVE  (s \o t)[n].name \in Names \ {Main}
    <3>1. n \in 1..(Len(s) + Len(t)) /\ (s \o t)[n].kind = "use"
      BY <2>3 DEF UsesIn
    <3>2. CASE n <= Len(s)
      <4>1. n \in 1..Len(s) /\ 1..Len(s) = DOMAIN s
        BY <3>1, <3>2, <2>1
      <4> QED
        BY <4>1, <3>1, <2>2, <2>3 DEF UsesIn
    <3>3. CASE ~ n <= Len(s)
      <4>1. n \in (Len(s) + 1)..(Len(s) + Len(t)) /\ 1..Len(t) = DOMAIN t
        BY <3>1, <3>3, <2>1
      <4> QED
        BY <4>1, <3>1, <2>2, <2>3 DEF UsesIn
    <3> QED
      BY <3>2, <3>3
  <2>5. DOMAIN (s \o t) \subseteq Nat \ {0}
    BY <2>3, <2>1
  <2> QED
    BY <2>1, <2>4, <2>5
<1>2. CASE ~ (P.prelude /\ P.main # Prelude)
  <2>1. RootItems = P.text[P.main]
    BY <1>2 DEF RootItems
  <2> QED
    BY <2>1, ProjectFacts, FileFacts
<1> QED
  BY <1>1, <1>2

\* So it is for the items of every call.
LEMMA ItemFacts ==
  ASSUME ProjectOK, NEW fr \in Frame, fr.mod # Main => fr.file \in Files
  PROVE  /\ UsesIn(ItemsOf(fr)) \subseteq Nat \ {0}
         /\ \A n \in UsesIn(ItemsOf(fr)) : ItemsOf(fr)[n].name \in Names \ {Main}
<1>1. CASE fr.mod = Main
  BY <1>1, RootFacts DEF ItemsOf, UsesIn
<1>2. CASE fr.mod # Main
  <2>1. ItemsOf(fr) = P.text[fr.file] /\ fr.file \in Files
    BY <1>2 DEF ItemsOf
  <2> QED
    BY <2>1, FileFacts DEF UsesIn
<1> QED
  BY <1>1, <1>2

\* The next use of a call is the first one that it has not walked past.
LEMMA PositionFacts ==
  ASSUME ProjectOK, NEW fr \in Frame, fr.mod # Main => fr.file \in Files, Upcoming(fr) # {}
  PROVE  /\ Position(fr) \in Upcoming(fr) /\ Position(fr) \in Nat
         /\ \A n \in UsesIn(ItemsOf(fr)) : n < Position(fr) + 1 => n < fr.next \/ n = Position(fr)
<1>1. Upcoming(fr) \subseteq Nat
  BY ItemFacts DEF Upcoming
<1>2. Position(fr) \in Upcoming(fr) /\ \A y \in Upcoming(fr) : Position(fr) <= y
  BY <1>1, MinOf DEF Position
<1>3. ASSUME NEW n \in UsesIn(ItemsOf(fr)), n < Position(fr) + 1, ~ n < fr.next
      PROVE  n = Position(fr)
  <2>1. n \in Nat /\ fr.next \in Nat
    BY ItemFacts DEF Frame
  <2>2. n \in Upcoming(fr)
    BY <2>1, <1>3 DEF Upcoming
  <2> QED
    BY <2>1, <2>2, <1>1, <1>2, <1>3
<1> QED
  BY <1>1, <1>2, <1>3

\* The last of these calls has a next use.
Ready(fs) ==
  /\ fs \in Seq(Frame) /\ fs # <<>> /\ Upcoming(fs[Len(fs)]) # {}
  /\ fs[Len(fs)].mod # Main => fs[Len(fs)].file \in Files

\* Only the position of the last call is another one.
SameCall(fr, gr) == fr.mod = gr.mod /\ fr.file = gr.file /\ ItemsOf(fr) = ItemsOf(gr)
MovedOn(fs, gs) ==
  /\ gs \in Seq(Frame) /\ Len(gs) = Len(fs)
  /\ \A k \in 1..Len(fs) : SameCall(fs[k], gs[k])
  /\ \A k \in 1..(Len(fs) - 1) : gs[k] = fs[k]
  /\ gs[Len(fs)].next = Position(fs[Len(fs)]) + 1

\* Going on changes the position of the last call only.
LEMMA OnwardFacts == ASSUME ProjectOK, NEW fs, Ready(fs) PROVE MovedOn(fs, Onward(fs))
<1> DEFINE top == fs[Len(fs)]
           p == Position(top)
<1>1. fs \in Seq(Frame) /\ fs # <<>> /\ Len(fs) \in 1..Len(fs) /\ top \in Frame
  BY DEF Ready
<1>2. p \in Nat
  BY <1>1, PositionFacts DEF Ready
<1>3. Onward(fs) = [fs EXCEPT ![Len(fs)].next = p + 1]
  BY DEF Onward
<1> HIDE DEF p
<1>4. [top EXCEPT !.next = p + 1] \in Frame
  BY <1>1, <1>2 DEF Frame
<1>5. /\ Onward(fs) \in Seq(Frame) /\ Len(Onward(fs)) = Len(fs)
      /\ \A k \in 1..(Len(fs) - 1) : Onward(fs)[k] = fs[k]
      /\ Onward(fs)[Len(fs)] = [top EXCEPT !.next = p + 1]
  BY <1>1, <1>3, <1>4
<1>6. [top EXCEPT !.next = p + 1].mod = top.mod /\ [top EXCEPT !.next = p + 1].file = top.file
      /\ [top EXCEPT !.next = p + 1].next = p + 1
  BY <1>1 DEF Frame
<1>7. ASSUME NEW k \in 1..Len(fs)
      PROVE  SameCall(fs[k], Onward(fs)[k])
  <2>1. k \in 1..(Len(fs) - 1) \/ k = Len(fs)
    BY <1>1
  <2>2. Onward(fs)[k].mod = fs[k].mod /\ Onward(fs)[k].file = fs[k].file
    BY <2>1, <1>5, <1>6
  <2> QED
    BY <2>2 DEF SameCall, ItemsOf
<1> QED
  BY <1>5, <1>6, <1>7 DEF p, MovedOn

\* A call that moves on past a visited module has walked past visited ones only.
LEMMA WalkedOn ==
  ASSUME ProjectOK, NEW vis, NEW fs, Ready(fs), WalkedAt(fs, vis),
         ItemsOf(fs[Len(fs)])[Position(fs[Len(fs)])].name \in vis
  PROVE  WalkedAt(Onward(fs), vis)
<1> DEFINE gs == Onward(fs)
<1>0. MovedOn(fs, gs)
  BY OnwardFacts
<1> HIDE DEF gs
<1>1. Len(gs) = Len(fs) /\ Len(fs) \in Nat
  BY <1>0 DEF MovedOn, Ready
<1>2. ASSUME NEW k \in 1..Len(fs), NEW n \in UsesIn(ItemsOf(gs[k])), n < gs[k].next
      PROVE  ItemsOf(gs[k])[n].name \in vis
  <2>1. ItemsOf(gs[k]) = ItemsOf(fs[k])
    BY <1>0 DEF MovedOn, SameCall
  <2>2. CASE k \in 1..(Len(fs) - 1)
    <3>1. gs[k] = fs[k]
      BY <1>0, <2>2 DEF MovedOn
    <3> QED
      BY <3>1, <1>2 DEF WalkedAt
  <2>3. CASE k = Len(fs)
    <3> DEFINE fr == fs[k]
    <3>1. fr \in Frame /\ Upcoming(fr) # {} /\ (fr.mod # Main => fr.file \in Files)
      BY <2>3 DEF Ready
    <3>2. n < Position(fr) + 1
      BY <1>0, <1>2, <2>3 DEF MovedOn
    <3>3. n \in UsesIn(ItemsOf(fr))
      BY <2>1, <1>2
    <3>4. ItemsOf(fr)[Position(fr)].name \in vis /\ \A m \in UsesIn(ItemsOf(fr)) : m < fr.next => ItemsOf(fr)[m].name \in vis
      BY <2>3 DEF WalkedAt
    <3> HIDE DEF fr
    <3>5. n < fr.next \/ n = Position(fr)
      BY <3>1, <3>2, <3>3, PositionFacts
    <3>6. ItemsOf(fr)[n].name \in vis
      BY <3>3, <3>4, <3>5
    <3> QED
      BY <3>6, <2>1 DEF fr
  <2> QED
    BY <2>2, <2>3, <1>1
<1> QED
  BY <1>1, <1>2 DEF WalkedAt, gs

-----------------------------------------------------------------------------
(* The steps.                                                                *)

\* A compilation begins with nothing loaded.
LEMMA Begun == ASSUME ProjectOK PROVE WalkInv(<<Root>>, {}, <<>>, <<>>, "loading")
<1>1. Root \in Frame /\ Root.mod = Main /\ Root.next = 1
  BY DEF Root, Frame, Names
<1>2. <<Root>> \in Seq(Frame) /\ Len(<<Root>>) = 1 /\ <<Root>>[1] = Root /\ <<Root>> # <<>>
  BY <1>1
<1>3. FramesAt(<<Root>>, {}, <<>>)
  BY <1>1, <1>2 DEF FramesAt
<1>4. WalkedAt(<<Root>>, {})
  <2>1. \A n \in UsesIn(ItemsOf(Root)) : ~ n < Root.next
    BY <1>1, ItemFacts
  <2> QED
    BY <2>1, <1>2 DEF WalkedAt
<1>5. WaitingAt(<<Root>>)
  BY <1>2 DEF WaitingAt
<1>6. GotAt(<<Root>>, {}, <<>>) /\ OrderAt(<<>>, {}, <<>>) /\ ReasonAt(<<Root>>, <<>>, <<>>) /\ EndAt(<<Root>>, "loading")
  BY DEF GotAt, OrderAt, ReasonAt, EndAt, Range
<1> QED
  BY <1>3, <1>4, <1>5, <1>6 DEF WalkInv

\* The last call of a stack, as one that is ready or done.
LEMMA TopFacts ==
  ASSUME NEW fs, NEW vis, NEW g, FramesAt(fs, vis, g)
  PROVE  /\ fs \in Seq(Frame) /\ Len(fs) \in Nat \ {0} /\ fs[Len(fs)] \in Frame
         /\ \A k \in 1..Len(fs) : fs[k] \in Frame /\ (fs[k].mod # Main => fs[k].file \in Files)
         /\ Upcoming(fs[Len(fs)]) # {} => Ready(fs)
<1>1. fs \in Seq(Frame) /\ Len(fs) \in Nat \ {0} /\ Len(fs) \in 1..Len(fs)
  BY DEF FramesAt
<1>2. ASSUME NEW k \in 1..Len(fs) PROVE fs[k] \in Frame /\ (fs[k].mod # Main => fs[k].file \in Files)
  <2>1. CASE k = 1
    BY <2>1, <1>1 DEF FramesAt
  <2>2. CASE k # 1
    <3>1. k \in 2..Len(fs)
      BY <2>2, <1>1
    <3> QED
      BY <3>1, <1>1 DEF FramesAt
  <2> QED
    BY <2>1, <2>2
<1> QED
  BY <1>1, <1>2 DEF Ready, FramesAt

\* The parts that look at the modules and items of the calls only, after the
\* last call has moved on.
LEMMA StayMovedOn ==
  ASSUME NEW fs, NEW gs, NEW vis, NEW ord, NEW g, MovedOn(fs, gs),
         FramesAt(fs, vis, g), WaitingAt(fs), GotAt(fs, vis, g), ReasonAt(fs, ord, g)
  PROVE  FramesAt(gs, vis, g) /\ WaitingAt(gs) /\ GotAt(gs, vis, g) /\ ReasonAt(gs, ord, g)
<1>1. /\ Len(fs) \in Nat \ {0} /\ Len(gs) = Len(fs) /\ gs \in Seq(Frame)
      /\ \A k \in 1..Len(fs) : /\ gs[k].mod = fs[k].mod /\ gs[k].file = fs[k].file
                              /\ ItemsOf(gs[k]) = ItemsOf(fs[k])
  BY TopFacts DEF MovedOn, SameCall
<1>2. FramesAt(gs, vis, g)
  BY <1>1 DEF FramesAt
<1>3. WaitingAt(gs)
  <2>1. \A k \in 1..(Len(fs) - 1) : gs[k] = fs[k] /\ gs[k + 1].mod = fs[k + 1].mod
    BY <1>1 DEF MovedOn
  <2> QED
    BY <2>1, <1>1 DEF WaitingAt
<1>4. GotAt(gs, vis, g)
  BY <1>1 DEF GotAt
<1>5. ReasonAt(gs, ord, g)
  <2>1. \A j \in 2..Len(fs) : ItemsOf(gs[j]) = ItemsOf(fs[j])
    BY <1>1
  <2> QED
    BY <2>1, <1>1 DEF ReasonAt
<1> QED
  BY <1>2, <1>3, <1>4, <1>5

\* A use of a visited module: the caller goes on.
LEMMA Knew ==
  ASSUME ProjectOK, NEW fs, NEW vis, NEW ord, NEW g, WalkInv(fs, vis, ord, g, "loading"),
         Upcoming(fs[Len(fs)]) # {}, ItemsOf(fs[Len(fs)])[Position(fs[Len(fs)])].name \in vis
  PROVE  WalkInv(Onward(fs), vis, ord, g, "loading")
<1>1. FramesAt(fs, vis, g) /\ WalkedAt(fs, vis) /\ WaitingAt(fs) /\ GotAt(fs, vis, g) /\ OrderAt(ord, vis, g) /\ ReasonAt(fs, ord, g)
  BY DEF WalkInv
<1>2. Ready(fs)
  BY <1>1, TopFacts
<1>3. MovedOn(fs, Onward(fs)) /\ WalkedAt(Onward(fs), vis)
  BY <1>1, <1>2, OnwardFacts, WalkedOn
<1>4. FramesAt(Onward(fs), vis, g) /\ WaitingAt(Onward(fs)) /\ GotAt(Onward(fs), vis, g) /\ ReasonAt(Onward(fs), ord, g)
  BY <1>1, <1>3, StayMovedOn
<1> QED
  BY <1>1, <1>3, <1>4 DEF WalkInv, EndAt

\* A module that is neither visited nor on the stack is read and expanded.
LEMMA Entered ==
  ASSUME ProjectOK, NEW fs, NEW vis, NEW ord, NEW g, WalkInv(fs, vis, ord, g, "loading"),
         Upcoming(fs[Len(fs)]) # {}, NEW q, q = ItemsOf(fs[Len(fs)])[Position(fs[Len(fs)])].name,
         q \notin vis, q \notin {fs[k].mod : k \in DOMAIN fs},
         NEW file \in Files, NEW x, x.file = file
  PROVE  WalkInv(Append(fs, [mod |-> q, file |-> file, next |-> 1]), vis, ord, Adding(g, q, x), "loading")
<1> DEFINE fr == [mod |-> q, file |-> file, next |-> 1]
           gs == Append(fs, fr)
           h == Adding(g, q, x)
           n == Len(fs)
<1>1. FramesAt(fs, vis, g) /\ WalkedAt(fs, vis) /\ WaitingAt(fs) /\ GotAt(fs, vis, g) /\ OrderAt(ord, vis, g) /\ ReasonAt(fs, ord, g)
  BY DEF WalkInv
<1>2. fs \in Seq(Frame) /\ n \in Nat \ {0} /\ fs[n] \in Frame /\ (fs[n].mod # Main => fs[n].file \in Files)
  BY <1>1, TopFacts
<1>3. q \in Names \ {Main}
  <2>1. Position(fs[n]) \in UsesIn(ItemsOf(fs[n]))
    BY <1>2, PositionFacts DEF Upcoming
  <2> QED
    BY <2>1, <1>2, ItemFacts
<1>4. fr \in Frame /\ fr.mod = q /\ fr.file = file /\ fr.next = 1
  BY <1>3 DEF Frame
<1>5. q \notin DOMAIN g
  BY <1>1, <1>2 DEF GotAt
<1>6. DOMAIN h = DOMAIN g \union {q} /\ h[q] = x /\ \A y \in DOMAIN g : h[y] = g[y]
  BY <1>5 DEF Adding
<1> HIDE DEF fr, h
<1>7. /\ gs \in Seq(Frame) /\ Len(gs) = n + 1 /\ gs[n + 1] = fr
      /\ \A k \in 1..n : gs[k] = fs[k]
  BY <1>2, <1>4
<1> HIDE DEF gs, n
<1>8. \A k \in 1..n : fs[k].mod # q
  BY <1>2 DEF n
<1>9. FramesAt(gs, vis, h)
  <2>1. ASSUME NEW k \in 2..n
        PROVE  /\ gs[k].mod # Main /\ gs[k].mod \notin vis /\ gs[k].file \in Files
               /\ gs[k].mod \in DOMAIN h /\ gs[k].file = h[gs[k].mod].file
    BY <1>1, <1>2, <1>6, <1>7 DEF FramesAt, n
  <2>2. /\ gs[n + 1].mod # Main /\ gs[n + 1].mod \notin vis /\ gs[n + 1].file \in Files
        /\ gs[n + 1].mod \in DOMAIN h /\ gs[n + 1].file = h[gs[n + 1].mod].file
    BY <1>3, <1>4, <1>6, <1>7
  <2>3. ASSUME NEW j \in 2..(n + 1), NEW k \in 2..(n + 1), gs[j].mod = gs[k].mod PROVE j = k
    <3>1. j \in 2..n \/ j = n + 1
      BY <1>2
    <3>2. k \in 2..n \/ k = n + 1
      BY <1>2
    <3>3. \A i \in 2..n : gs[i] = fs[i] /\ fs[i].mod # q
      BY <1>2, <1>7, <1>8
    <3> QED
      BY <3>1, <3>2, <3>3, <2>3, <1>1, <1>4, <1>7 DEF FramesAt, n
  <2>4. gs # <<>> /\ gs[1].mod = Main
    BY <1>1, <1>2, <1>7 DEF FramesAt
  <2>5. \A k \in 2..(n + 1) : k \in 2..n \/ k = n + 1
    BY <1>2
  <2> QED
    BY <2>1, <2>2, <2>3, <2>4, <2>5, <1>7 DEF FramesAt
<1>10. WalkedAt(gs, vis)
  <2>1. \A m \in UsesIn(ItemsOf(fr)) : ~ m < fr.next
    BY <1>4, ItemFacts
  <2>2. \A k \in 1..(n + 1) : k \in 1..n \/ k = n + 1
    BY <1>2
  <2> QED
    BY <2>1, <2>2, <1>1, <1>7 DEF WalkedAt, n
<1>11. WaitingAt(gs)
  <2>1. ASSUME NEW k \in 1..n
        PROVE  Upcoming(gs[k]) # {} /\ ItemsOf(gs[k])[Position(gs[k])].name = gs[k + 1].mod
    <3>1. CASE k = n
      BY <3>1, <1>2, <1>4, <1>7 DEF n
    <3>2. CASE k # n
      <4>1. k \in 1..(n - 1) /\ k + 1 \in 1..n
        BY <3>2, <1>2
      <4>2. gs[k] = fs[k] /\ gs[k + 1] = fs[k + 1]
        BY <4>1, <1>7
      <4> QED
        BY <4>1, <4>2, <1>1 DEF WaitingAt, n
    <3> QED
      BY <3>1, <3>2
  <2>2. Len(gs) - 1 = n
    BY <1>2, <1>7
  <2> QED
    BY <2>1, <2>2 DEF WaitingAt
<1>12. GotAt(gs, vis, h)
  <2>1. ASSUME NEW y \in DOMAIN h
        PROVE  h[y].file \in Files /\ (y \in vis \/ \E k \in 2..(n + 1) : y = gs[k].mod)
    <3>1. CASE y = q
      BY <3>1, <1>2, <1>4, <1>6, <1>7
    <3>2. CASE y # q
      <4>1. y \in DOMAIN g /\ h[y] = g[y]
        BY <3>2, <1>6
      <4>2. h[y].file \in Files /\ (y \in vis \/ \E k \in 2..n : y = fs[k].mod)
        BY <4>1, <1>1 DEF GotAt, n
      <4>3. \A k \in 2..n : k \in 2..(n + 1) /\ gs[k] = fs[k]
        BY <1>2, <1>7
      <4> QED
        BY <4>2, <4>3
    <3> QED
      BY <3>1, <3>2
  <2> QED
    BY <2>1, <1>1, <1>6, <1>7 DEF GotAt
<1>13. \A k \in 1..Len(ord) : ord[k] \in DOMAIN g /\ h[ord[k]] = g[ord[k]]
  BY <1>1, <1>6 DEF GotAt, OrderAt, Range
<1>14. OrderAt(ord, vis, h)
  BY <1>1, <1>13 DEF OrderAt
<1>15. ReasonAt(gs, ord, h)
  <2> SUFFICES ASSUME NEW k \in 1..Len(ord)
               PROVE  \/ ord[k] \in Requested(RootItems)
                      \/ \E j \in (k + 1)..Len(ord) : ord[k] \in Requested(P.text[h[ord[j]].file])
                      \/ \E j \in 2..(n + 1) : ord[k] \in Requested(ItemsOf(gs[j]))
    BY <1>7 DEF ReasonAt
  <2>1. \A j \in (k + 1)..Len(ord) : h[ord[j]] = g[ord[j]]
    <3>1. Len(ord) \in Nat
      BY <1>1 DEF OrderAt
    <3> QED
      BY <3>1, <1>13
  <2>2. \A j \in 2..n : j \in 2..(n + 1) /\ gs[j] = fs[j]
    BY <1>2, <1>7
  <2> QED
    BY <2>1, <2>2, <1>1 DEF ReasonAt, n
<1> QED
  BY <1>9, <1>10, <1>11, <1>12, <1>14, <1>15 DEF WalkInv, EndAt, gs, h, fr

\* A module whose uses are expanded is appended behind all of them.
LEMMA Left ==
  ASSUME ProjectOK, NEW fs, NEW vis, NEW ord, NEW g, WalkInv(fs, vis, ord, g, "loading"),
         Upcoming(fs[Len(fs)]) = {}, Len(fs) > 1
  PROVE  WalkInv(Onward(Front(fs)), vis \union {fs[Len(fs)].mod}, Append(ord, fs[Len(fs)].mod), g, "loading")
<1> DEFINE m == Len(fs) - 1
           top == fs[m + 1]
           q == top.mod
           es == Front(fs)
           seen == vis \union {q}
           out == Append(ord, q)
           o == Len(ord)
<1>1. FramesAt(fs, vis, g) /\ WalkedAt(fs, vis) /\ WaitingAt(fs) /\ GotAt(fs, vis, g) /\ OrderAt(ord, vis, g) /\ ReasonAt(fs, ord, g)
  BY DEF WalkInv
<1>2. /\ fs \in Seq(Frame) /\ Len(fs) = m + 1 /\ m \in Nat \ {0}
      /\ \A k \in 1..(m + 1) : fs[k] \in Frame /\ (fs[k].mod # Main => fs[k].file \in Files)
  BY <1>1, TopFacts
<1>3. es \in Seq(Frame) /\ Len(es) = m /\ \A k \in 1..m : es[k] = fs[k]
  BY <1>2 DEF Front
<1> HIDE DEF m, es
<1>4. /\ q # Main /\ q \notin vis /\ q \in DOMAIN g /\ top.file = g[q].file /\ q \in Names
      /\ \A k \in 2..m : fs[k].mod # q
  <2>1. m + 1 \in 2..Len(fs) /\ top \in Frame /\ \A k \in 2..m : k \in 2..Len(fs) /\ k # m + 1
    BY <1>2
  <2> QED
    BY <2>1, <1>1 DEF FramesAt, Frame
<1>5. ItemsOf(top) = P.text[g[q].file]
  BY <1>4 DEF ItemsOf
<1>6. Upcoming(top) = {} /\ Upcoming(fs[m]) # {} /\ ItemsOf(fs[m])[Position(fs[m])].name = q
  BY <1>1, <1>2 DEF WaitingAt
<1>7. Requested(ItemsOf(top)) \subseteq vis
  <2> SUFFICES ASSUME NEW n \in UsesIn(ItemsOf(top)) PROVE ItemsOf(top)[n].name \in vis
    BY DEF Requested
  <2>1. n \in Nat /\ top.next \in Nat
    BY <1>2, ItemFacts DEF Frame
  <2>2. n < top.next
    BY <2>1, <1>6 DEF Upcoming
  <2> QED
    BY <2>2, <1>1, <1>2 DEF WalkedAt
<1> HIDE DEF top, q
<1>8. out \in Seq(Names) /\ Len(out) = o + 1 /\ o \in Nat /\ out[o + 1] = q /\ \A k \in 1..o : out[k] = ord[k]
  BY <1>1, <1>4 DEF OrderAt
<1> HIDE DEF out, o
<1>9. FramesAt(es, seen, g)
  <2>1. es # <<>> /\ es[1].mod = Main
    BY <1>1, <1>2, <1>3 DEF FramesAt
  <2>2. ASSUME NEW k \in 2..m
        PROVE  /\ es[k].mod # Main /\ es[k].mod \notin seen /\ es[k].file \in Files
               /\ es[k].mod \in DOMAIN g /\ es[k].file = g[es[k].mod].file
    <3>1. k \in 2..Len(fs) /\ es[k] = fs[k]
      BY <1>2, <1>3
    <3> QED
      BY <3>1, <1>1, <1>4 DEF FramesAt
  <2>3. ASSUME NEW j \in 2..m, NEW k \in 2..m, es[j].mod = es[k].mod PROVE j = k
    <3>1. j \in 2..Len(fs) /\ k \in 2..Len(fs) /\ es[j] = fs[j] /\ es[k] = fs[k]
      BY <1>2, <1>3
    <3> QED
      BY <3>1, <2>3, <1>1 DEF FramesAt
  <2> QED
    BY <2>1, <2>2, <2>3, <1>3 DEF FramesAt
<1>10. WalkedAt(es, seen)
  <2>1. \A k \in 1..m : k \in 1..Len(fs) /\ es[k] = fs[k]
    BY <1>2, <1>3
  <2> QED
    BY <2>1, <1>1, <1>3 DEF WalkedAt
<1>11. WaitingAt(es)
  <2>1. \A k \in 1..(m - 1) : k \in 1..(Len(fs) - 1) /\ es[k] = fs[k] /\ es[k + 1] = fs[k + 1]
    BY <1>2, <1>3
  <2> QED
    BY <2>1, <1>1, <1>3 DEF WaitingAt
<1>12. GotAt(es, seen, g)
  <2>1. ASSUME NEW y \in DOMAIN g, y \notin seen PROVE \E k \in 2..m : y = es[k].mod
    <3>1. PICK k \in 2..Len(fs) : y = fs[k].mod
      BY <2>1, <1>1 DEF GotAt
    <3>2. k # m + 1
      BY <3>1, <2>1 DEF q, top
    <3>3. k \in 2..m /\ es[k] = fs[k]
      BY <3>2, <1>2, <1>3
    <3> QED
      BY <3>1, <3>3
  <2> QED
    BY <2>1, <1>1, <1>3, <1>4 DEF GotAt
<1>13. \A k \in 1..o : ord[k] \in vis
  BY <1>1 DEF OrderAt, Range, o
<1>14. \A x \in vis : \E k \in 1..o : ord[k] = x
  BY <1>1 DEF OrderAt, Range, o
<1>15. OrderAt(out, seen, g)
  <2>1. seen = Range(out)
    <3>1. DOMAIN out = 1..(o + 1)
      BY <1>8
    <3>2. ASSUME NEW x \in seen PROVE x \in Range(out)
      BY <3>1, <1>8, <1>14 DEF Range
    <3>3. ASSUME NEW x \in Range(out) PROVE x \in seen
      BY <3>1, <1>8, <1>13 DEF Range
    <3> QED
      BY <3>2, <3>3
  <2>2. ASSUME NEW j \in 1..(o + 1), NEW k \in 1..(o + 1), out[j] = out[k] PROVE j = k
    <3>1. (j \in 1..o \/ j = o + 1) /\ (k \in 1..o \/ k = o + 1)
      BY <1>8
    <3>2. \A i \in 1..o : out[i] # q
      BY <1>4, <1>8, <1>13
    <3>3. \A i \in 1..o : \A l \in 1..o : ord[i] = ord[l] => i = l
      BY <1>1 DEF OrderAt, o
    <3> QED
      BY <3>1, <3>2, <3>3, <2>2, <1>8
  <2>3. ASSUME NEW k \in 1..(o + 1), NEW x \in Requested(P.text[g[out[k]].file]) PROVE \E j \in 1..(k - 1) : out[j] = x
    <3>1. CASE k = o + 1
      <4>1. x \in vis
        BY <3>1, <1>5, <1>7, <1>8
      <4> QED
        BY <4>1, <3>1, <1>8, <1>14
    <3>2. CASE k # o + 1
      <4>1. k \in 1..o /\ out[k] = ord[k]
        BY <3>2, <1>8
      <4>2. \E j \in 1..(k - 1) : ord[j] = x
        BY <4>1, <1>1 DEF OrderAt, o
      <4>3. \A j \in 1..(k - 1) : out[j] = ord[j]
        BY <4>1, <1>8
      <4> QED
        BY <4>2, <4>3
    <3> QED
      BY <3>1, <3>2
  <2> QED
    BY <2>1, <2>2, <2>3, <1>8 DEF OrderAt
<1>16. ReasonAt(es, out, g)
  <2> SUFFICES ASSUME NEW k \in 1..(o + 1)
               PROVE  \/ out[k] \in Requested(RootItems)
                      \/ \E j \in (k + 1)..(o + 1) : out[k] \in Requested(P.text[g[out[j]].file])
                      \/ \E j \in 2..m : out[k] \in Requested(ItemsOf(es[j]))
    BY <1>3, <1>8 DEF ReasonAt
  <2>1. CASE k = o + 1
    <3>1. q \in Requested(ItemsOf(fs[m]))
      <4>1. fs[m] \in Frame /\ (fs[m].mod # Main => fs[m].file \in Files)
        BY <1>2
      <4>2. Position(fs[m]) \in UsesIn(ItemsOf(fs[m]))
        BY <4>1, <1>6, PositionFacts DEF Upcoming
      <4> QED
        BY <4>2, <1>6 DEF Requested
    <3>2. CASE m = 1
      <4>1. ItemsOf(fs[m]) = RootItems
        BY <3>2, <1>1 DEF FramesAt, ItemsOf
      <4> QED
        BY <4>1, <3>1, <2>1, <1>8
    <3>3. CASE m # 1
      <4>1. m \in 2..m /\ es[m] = fs[m]
        BY <3>3, <1>2, <1>3
      <4> QED
        BY <4>1, <3>1, <2>1, <1>8
    <3> QED
      BY <3>2, <3>3
  <2>2. CASE k # o + 1
    <3>1. k \in 1..o /\ out[k] = ord[k]
      BY <2>2, <1>8
    <3>2. CASE ord[k] \in Requested(RootItems)
      BY <3>1, <3>2
    <3>3. CASE \E j \in (k + 1)..o : ord[k] \in Requested(P.text[g[ord[j]].file])
      <4>1. \A j \in (k + 1)..o : j \in (k + 1)..(o + 1) /\ out[j] = ord[j]
        BY <3>1, <1>8
      <4> QED
        BY <4>1, <3>1, <3>3
    <3>4. CASE \E j \in 2..Len(fs) : ord[k] \in Requested(ItemsOf(fs[j]))
      <4>1. PICK j \in 2..Len(fs) : ord[k] \in Requested(ItemsOf(fs[j]))
        BY <3>4
      <4>2. CASE j = m + 1
        <5>1. out[k] \in Requested(P.text[g[out[o + 1]].file])
          BY <4>1, <4>2, <3>1, <1>5, <1>8 DEF top
        <5>2. o + 1 \in (k + 1)..(o + 1)
          BY <3>1, <1>8
        <5> QED
          BY <5>1, <5>2
      <4>3. CASE j # m + 1
        <5>1. j \in 2..m /\ es[j] = fs[j]
          BY <4>3, <1>2, <1>3
        <5> QED
          BY <5>1, <4>1, <3>1
      <4> QED
        BY <4>2, <4>3
    <3> QED
      BY <3>1, <3>2, <3>3, <3>4, <1>1 DEF ReasonAt, o
  <2> QED
    BY <2>1, <2>2
<1>17. WalkInv(es, seen, out, g, "loading")
  BY <1>9, <1>10, <1>11, <1>12, <1>15, <1>16 DEF WalkInv, EndAt
<1>18. Upcoming(es[Len(es)]) # {} /\ ItemsOf(es[Len(es)])[Position(es[Len(es)])].name \in seen
  <2>1. es[Len(es)] = fs[m]
    BY <1>2, <1>3
  <2> QED
    BY <2>1, <1>6
<1>19. WalkInv(Onward(es), seen, out, g, "loading")
  BY <1>17, <1>18, Knew
<1>20. fs[Len(fs)] = top
  BY <1>2 DEF top
<1> QED
  BY <1>19, <1>20 DEF es, out, q

-----------------------------------------------------------------------------
(* The specification.                                                        *)

\* The project is never exchanged, so what is said of its items stays true.
LEMMA SameProject ==
  ASSUME project' = project
  PROVE  /\ ProjectOK' <=> ProjectOK
         /\ LoadInv' <=> ProjectOK /\ WalkInv(frames', visited', order', got', at')
<1>1. P' = P /\ RootItems' = RootItems /\ Files' = Files
  BY DEF P, RootItems, Prelude, Files
<1>2. Names' = Names
  BY <1>1 DEF Names, Requested, UsesIn, Main, Files
<1>3. Frame' = Frame
  BY <1>1, <1>2 DEF Frame, Main
<1>4. ProjectOK' <=> ProjectOK
  BY DEF ProjectOK
<1>5. FramesAt(frames, visited, got)' <=> FramesAt(frames', visited', got')
  BY <1>1, <1>3 DEF FramesAt, Main
<1>6. WalkedAt(frames, visited)' <=> WalkedAt(frames', visited')
  BY <1>1 DEF WalkedAt, UsesIn, ItemsOf, Main
<1>7. WaitingAt(frames)' <=> WaitingAt(frames')
  BY <1>1 DEF WaitingAt, Upcoming, Position, UsesIn, ItemsOf, Main
<1>8. GotAt(frames, visited, got)' <=> GotAt(frames', visited', got')
  BY <1>1 DEF GotAt
<1>9. OrderAt(order, visited, got)' <=> OrderAt(order', visited', got')
  BY <1>1, <1>2 DEF OrderAt, Requested, UsesIn, Range
<1>10. ReasonAt(frames, order, got)' <=> ReasonAt(frames', order', got')
  BY <1>1 DEF ReasonAt, Requested, UsesIn, ItemsOf, Main
<1>11. EndAt(frames, at)' <=> EndAt(frames', at')
  BY <1>1 DEF EndAt, Upcoming, UsesIn, ItemsOf, Main, LoadErrors
<1> QED
  BY <1>4, <1>5, <1>6, <1>7, <1>8, <1>9, <1>10, <1>11 DEF LoadInv, WalkInv

\* The place that is taken for a module leads to a file of the project.
LEMMA PlaceFacts ==
  ASSUME ProjectOK, NEW q, Existing(q) # {}
  PROVE  P.path[Place(q)] \in Files
<1>1. Len(P.roots) \in Nat
  BY ProjectFacts
<1>2. DOMAIN Places(q) = 1..(2 * Len(P.roots) + 2)
  BY DEF Places
<1>3. Existing(q) \subseteq Nat
  BY <1>1, <1>2 DEF Existing
<1>4. Min(Existing(q)) \in Existing(q)
  BY <1>3, MinOf
<1>5. Place(q) \in DOMAIN P.path
  BY <1>4 DEF Existing, Place
<1> QED
  BY <1>5, ProjectFacts DEF Range

\* The last call, as the lemmas above name it.
LEMMA TopIsLast == Top = frames[Len(frames)]
BY DEF Top, Last

\* A step of the expansion, or of the passes behind it, keeps the invariant.
LEMMA LoadStep ==
  ASSUME LoadInv, [LoaderNext \/ LaterPass \/ Recompile]_loaderVars
  PROVE  LoadInv'
<1> DEFINE Goal == WalkInv(frames', visited', order', got', at')
<1>1. project' = project
  BY DEF LoaderNext, LaterPass, Recompile, loaderVars, VisitBridge, VisitKnown, VisitCycle, VisitMissing, Enter, Leave, Expanded, Edit, Fail
<1>2. ProjectOK /\ WalkInv(frames, visited, order, got, at)
  BY DEF LoadInv
<1>3. CASE VisitKnown
  <2>1. WalkInv(Onward(frames), visited, order, got, "loading")
    BY <1>2, <1>3, Knew, TopIsLast DEF VisitKnown, Wants, Wanted, Known
  <2> QED
    BY <2>1, <1>2, <1>3, <1>1, SameProject DEF VisitKnown
<1>4. CASE VisitBridge \/ VisitCycle \/ VisitMissing
  <2>1. UNCHANGED <<frames, visited, order, got>> /\ at' \in LoadErrors
    BY <1>4 DEF VisitBridge, VisitCycle, VisitMissing, Fail, LoadErrors
  <2>2. EndAt(frames', at')
    BY <2>1 DEF EndAt
  <2>3. Goal
    BY <2>1, <2>2, <1>2 DEF WalkInv
  <2> QED
    BY <2>3, <1>1, <1>2, SameProject
<1>5. CASE Enter
  <2> DEFINE q == Wanted
             file == P.path[Place(q)]
             x == [file |-> file, edition |-> Edition(q)]
  <2>1. file \in Files /\ x.file = file
    BY <1>2, <1>5, PlaceFacts DEF Enter
  <2>2. q = ItemsOf(frames[Len(frames)])[Position(frames[Len(frames)])].name /\ Upcoming(frames[Len(frames)]) # {}
    BY <1>5, TopIsLast DEF Enter, Wanted, Wants
  <2>3. q \notin visited /\ q \notin {frames[k].mod : k \in DOMAIN frames} /\ at = "loading"
    BY <1>5 DEF Enter, Known
  <2>4. /\ frames' = Append(frames, [mod |-> q, file |-> file, next |-> 1]) /\ got' = Adding(got, q, x)
        /\ visited' = visited /\ order' = order /\ at' = at
    BY <1>5 DEF Enter
  <2> HIDE DEF q, file, x
  <2>5. WalkInv(Append(frames, [mod |-> q, file |-> file, next |-> 1]), visited, order, Adding(got, q, x), "loading")
    BY <1>2, <2>1, <2>2, <2>3, Entered
  <2>6. Goal
    BY <2>3, <2>4, <2>5
  <2> QED
    BY <2>6, <1>1, <1>2, SameProject
<1>6. CASE Leave
  <2>1. WalkInv(Onward(Front(frames)), visited \union {frames[Len(frames)].mod}, Append(order, frames[Len(frames)].mod), got, "loading")
    BY <1>2, <1>6, Left, TopIsLast DEF Leave, Wants
  <2> QED
    BY <2>1, <1>1, <1>2, <1>6, SameProject, TopIsLast DEF Leave
<1>7. CASE Expanded
  <2>1. UNCHANGED <<frames, visited, order, got>> /\ Len(frames) = 1 /\ Upcoming(frames[Len(frames)]) = {}
    BY <1>7, TopIsLast DEF Expanded, Wants
  <2>2. EndAt(frames', at')
    BY <2>1 DEF EndAt
  <2>3. Goal
    BY <2>1, <2>2, <1>2 DEF WalkInv
  <2> QED
    BY <2>3, <1>1, <1>2, SameProject
<1>8. CASE LaterPass
  <2>1. UNCHANGED <<frames, visited, order, got>> /\ at \notin {"loading"} \union LoadErrors
    BY <1>8 DEF LaterPass, Passes, LoadErrors
  <2>2. EndAt(frames', at')
    BY <2>1, <1>2 DEF WalkInv, EndAt
  <2>3. Goal
    BY <2>1, <2>2, <1>2 DEF WalkInv
  <2> QED
    BY <2>3, <1>1, <1>2, SameProject
<1>9. CASE Recompile
  <2>1. Goal
    BY <1>2, <1>9, Begun DEF Recompile
  <2> QED
    BY <2>1, <1>1, <1>2, SameProject
<1>10. CASE Edit \/ UNCHANGED loaderVars
  <2>1. UNCHANGED <<frames, visited, order, got, at>>
    BY <1>10 DEF Edit, loaderVars
  <2> QED
    BY <2>1, <1>1, <1>2, SameProject
<1> QED
  BY <1>3, <1>4, <1>5, <1>6, <1>7, <1>8, <1>9, <1>10 DEF LoaderNext

\* For every project, the stack of calls, the visited set and the order of the
\* modules agree with the use statements (resolve.py:1472-1510).
THEOREM LoadInvariant == LoaderSpec => []LoadInv
<1>1. LoaderInit => LoadInv
  <2> SUFFICES ASSUME LoaderInit PROVE LoadInv
    OBVIOUS
  <2>1. ProjectOK
    BY DEF LoaderInit, ProjectOK
  <2> QED
    BY <2>1, Begun DEF LoaderInit, LoadInv
<1>2. LoadInv /\ [LoaderNext \/ LaterPass \/ Recompile]_loaderVars => LoadInv'
  BY LoadStep
<1> QED
  BY <1>1, <1>2, PTL DEF LoaderSpec

\* Every module comes once, behind those it uses and for a reason, and when the
\* expansion is over nothing that is used is missing.
THEOREM ExpandsInOrder == LoaderSpec => []ModulesInOrder
<1>1. LoadInv => ModulesInOrder
  <2> SUFFICES ASSUME LoadInv PROVE ModulesInOrder
    OBVIOUS
  <2> DEFINE uses(q) == Requested(P.text[got[q].file])
             root == Requested(RootItems)
  <2>1. /\ ProjectOK /\ FramesAt(frames, visited, got) /\ WalkedAt(frames, visited)
        /\ OrderAt(order, visited, got) /\ ReasonAt(frames, order, got) /\ EndAt(frames, at)
    BY DEF LoadInv, WalkInv
  <2>2. order \in Seq(Names) /\ DOMAIN order = 1..Len(order) /\ Len(order) \in Nat
    BY <2>1 DEF OrderAt
  <2>3. IsInjective(order)
    BY <2>1, <2>2 DEF OrderAt, IsInjective
  <2>4. ASSUME NEW k \in DOMAIN order, NEW q \in uses(order[k])
        PROVE  q \in {order[j] : j \in 1..(k - 1)}
    <3>1. \E j \in 1..(k - 1) : order[j] = q
      BY <2>1, <2>2 DEF OrderAt
    <3> QED
      BY <3>1
  <2>5. ASSUME at \notin {"loading"} \union LoadErrors
        PROVE  /\ root \subseteq Range(order)
               /\ \A k \in DOMAIN order : order[k] \in root \/ \E j \in (k + 1)..Len(order) : order[k] \in uses(order[j])
    <3>1. Len(frames) = 1 /\ Upcoming(frames[1]) = {} /\ frames[1] \in Frame /\ ItemsOf(frames[1]) = RootItems /\ frames[1].mod = Main
      BY <2>1, <2>5, TopFacts DEF EndAt, FramesAt, ItemsOf
    <3>2. ASSUME NEW n \in UsesIn(RootItems) PROVE RootItems[n].name \in visited
      <4>1. n \in Nat /\ frames[1].next \in Nat
        BY <3>1, <2>1, ItemFacts DEF Frame
      <4>2. n < frames[1].next
        BY <3>1, <4>1 DEF Upcoming
      <4> QED
        BY <4>2, <3>1, <2>1 DEF WalkedAt
    <3>3. root \subseteq visited
      BY <3>2 DEF Requested
    <3>4. 2..Len(frames) = {}
      BY <3>1
    <3> QED
      BY <3>3, <3>4, <2>1, <2>2 DEF OrderAt, ReasonAt
  <2> QED
    BY <2>3, <2>4, <2>5 DEF ModulesInOrder
<1> QED
  BY <1>1, LoadInvariant, PTL

\* What was read of the project's own files is what was on the disk during this
\* compilation; the editions only grow.
ReadInv ==
  /\ disk \in [Files -> Nat] /\ since \in [Files -> Nat]
  /\ \A f \in Files : since[f] <= disk[f]
  /\ ReadAfresh

\* A step reads the present edition of a file, or none.
LEMMA ReadStep ==
  ASSUME LoadInv, LoadInv', ReadInv, [LoaderNext \/ LaterPass \/ Recompile]_loaderVars
  PROVE  ReadInv'
<1>1. project' = project
  BY DEF LoaderNext, LaterPass, Recompile, loaderVars, VisitBridge, VisitKnown, VisitCycle, VisitMissing, Enter, Leave, Expanded, Edit, Fail
<1>2. Files' = Files /\ \A q : FromStdlib(q)' <=> FromStdlib(q)
  BY <1>1 DEF Files, P, FromStdlib, Place, Places, Existing, Range
<1>3. \A q \in DOMAIN got : got[q].file \in Files
  BY DEF LoadInv, WalkInv, GotAt
<1>4. CASE UNCHANGED <<disk, since, got>>
  BY <1>2, <1>4 DEF ReadInv, ReadAfresh
<1>5. CASE Enter
  <2> DEFINE q == Wanted
             file == P.path[Place(q)]
             x == [file |-> file, edition |-> Edition(q)]
  <2>1. ProjectOK /\ file \in Files /\ x.file = file /\ x.edition = Edition(q)
    BY <1>5, PlaceFacts DEF Enter, LoadInv
  <2>2. UNCHANGED <<disk, since>> /\ got' = Adding(got, q, x)
    BY <1>5 DEF Enter
  <2>3. ~ FromStdlib(q) => x.edition = disk[file]
    BY <2>1 DEF Edition, Cached
  <2> HIDE DEF q, file, x
  <2>4. DOMAIN got' = DOMAIN got \union {q} /\ \A y \in DOMAIN got' : IF y \in DOMAIN got THEN got'[y] = got[y] ELSE y = q /\ got'[y] = x
    BY <2>2 DEF Adding
  <2>5. ~ FromStdlib(q) => x.edition \in since[x.file]..disk[x.file]
    BY <2>1, <2>3 DEF ReadInv
  <2>6. ASSUME NEW y \in DOMAIN got', ~ FromStdlib(y)
        PROVE  got'[y].edition \in since[got'[y].file]..disk[got'[y].file]
    BY <2>4, <2>5, <2>6 DEF ReadInv, ReadAfresh
  <2>7. ReadAfresh'
    BY <2>2, <2>6, <1>2 DEF ReadAfresh
  <2> QED
    BY <2>2, <2>7, <1>2 DEF ReadInv
<1>6. CASE Edit
  <2>1. UNCHANGED <<since, got>>
    BY <1>6 DEF Edit
  <2>2. PICK f \in DOMAIN disk : disk' = [disk EXCEPT ![f] = @ + 1]
    BY <1>6 DEF Edit
  <2>3. disk' \in [Files -> Nat] /\ \A g \in Files : disk[g] <= disk'[g]
    BY <2>2 DEF ReadInv
  <2>4. \A g \in Files : /\ since[g] \in Nat /\ disk[g] \in Nat /\ disk'[g] \in Nat
                        /\ since[g] <= disk[g] /\ disk[g] <= disk'[g]
    BY <2>3 DEF ReadInv
  <2>5. ASSUME NEW q \in DOMAIN got, ~ FromStdlib(q)
        PROVE  got[q].edition \in since[got[q].file]..disk'[got[q].file]
    <3>1. got[q].edition \in since[got[q].file]..disk[got[q].file]
      BY <2>5 DEF ReadInv, ReadAfresh
    <3> QED
      BY <3>1, <2>4, <1>3
  <2>6. ReadAfresh'
    BY <2>1, <2>5, <1>2 DEF ReadAfresh
  <2>7. \A g \in Files : since[g] <= disk'[g]
    BY <2>4
  <2> QED
    BY <2>1, <2>3, <2>6, <2>7, <1>2 DEF ReadInv
<1>7. CASE Recompile
  <2>1. since' = disk /\ disk' = disk /\ got' = <<>>
    BY <1>7 DEF Recompile
  <2> QED
    BY <2>1, <1>2 DEF ReadInv, ReadAfresh
<1> QED
  BY <1>4, <1>5, <1>6, <1>7 DEF LoaderNext, LaterPass, loaderVars, VisitBridge, VisitKnown, VisitCycle, VisitMissing, Leave, Expanded, Fail

\* A module of the project is compiled as it was on the disk in this
\* compilation, whatever the process compiled before (resolve.py:1437-1470).
THEOREM ReadsAfresh == LoaderSpec => []ReadAfresh
<1>1. LoaderInit => ReadInv
  BY DEF LoaderInit, ReadInv, ReadAfresh, Files
<1>2. LoadInv /\ LoadInv' /\ ReadInv /\ [LoaderNext \/ LaterPass \/ Recompile]_loaderVars => ReadInv'
  BY ReadStep
<1>3. ReadInv => ReadAfresh
  BY DEF ReadInv
<1> QED
  BY <1>1, <1>2, <1>3, LoadInvariant, PTL DEF LoaderSpec

-----------------------------------------------------------------------------
(* The items of the program.                                                 *)

\* The items of a file that are no uses, with the file.
OwnOf(f) == {[file |-> f, it |-> P.text[f][n]] : n \in DOMAIN P.text[f] \ UsesIn(P.text[f])}

\* The loop over the items of a file keeps those that are no uses.
LEMMA OwnItems == ASSUME ProjectOK, NEW f \in Files PROVE Own(f) \in Seq(OwnOf(f))
<1> DEFINE its == P.text[f]
           X == OwnOf(f)
           Loop(g, k) ==
               IF k = 0 THEN <<>>
               ELSE IF its[k].kind = "use" THEN g[k - 1] ELSE Append(g[k - 1], [file |-> f, it |-> its[k]])
           kept == CHOOSE g : g = [k \in 0..Len(its) |-> Loop(g, k)]
<1>1. its \in Seq(Range(its)) /\ DOMAIN its = 1..Len(its) /\ Len(its) \in Nat
  BY ProjectFacts
<1>2. Own(f) = kept[Len(its)]
  BY DEF Own
<1>3. ASSUME NEW k \in 1..Len(its), its[k].kind # "use"
      PROVE  [file |-> f, it |-> its[k]] \in X
  BY <1>1, <1>3 DEF OwnOf, UsesIn
<1> HIDE DEF its, X
<1>4. ASSUME NEW m \in 0..Len(its), NEW g, g = [k \in 0..m |-> Loop(g, k)]
      PROVE  \A k \in 0..m : g[k] \in Seq(X)
  <2> DEFINE Wrong == {k \in 0..m : g[k] \notin Seq(X)}
  <2>1. SUFFICES ASSUME Wrong # {} PROVE FALSE
    OBVIOUS
  <2>2. PICK k \in Wrong : \A j \in Wrong : k <= j
    <3> Wrong \subseteq Nat
      BY <1>1
    <3> HIDE DEF Wrong
    <3> QED
      BY <2>1, MinOf
  <2>3. k \in 0..m /\ k \in Int /\ g[k] = Loop(g, k)
    <3>1. k \in 0..m /\ k \in Int
      BY <1>1
    <3> HIDE DEF Loop
    <3> QED
      BY <3>1, <1>4
  <2>4. k # 0
    <3>1. ASSUME k = 0 PROVE Loop(g, k) \in Seq(X)
      BY <3>1
    <3> HIDE DEF Loop
    <3> QED
      BY <2>2, <2>3, <3>1
  <2>5. k - 1 \in 0..m /\ g[k - 1] \in Seq(X) /\ k \in 1..Len(its)
    BY <2>2, <2>3, <2>4, <1>1
  <2>6. Loop(g, k) \in Seq(X)
    BY <2>4, <2>5, <1>3
  <2> QED
    BY <2>2, <2>3, <2>6
<1>5. ASSUME NEW m \in 0..Len(its)
      PROVE  \E g : g = [k \in 0..m |-> Loop(g, k)]
  <2> DEFINE Have(n) == \E g : g = [k \in 0..n |-> Loop(g, k)]
             Wrong == {n \in 0..Len(its) : ~ Have(n)}
  <2>1. SUFFICES ASSUME Wrong # {} PROVE FALSE
    OBVIOUS
  <2>2. PICK n \in Wrong : \A j \in Wrong : n <= j
    <3> Wrong \subseteq Nat
      BY <1>1
    <3> HIDE DEF Wrong
    <3> QED
      BY <2>1, MinOf
  <2>3. n # 0
    <3> DEFINE g == [k \in 0..0 |-> <<>>]
    <3>1. g = [k \in 0..0 |-> Loop(g, k)]
      OBVIOUS
    <3>2. Have(0)
      BY <3>1
    <3> QED
      BY <3>2, <2>2
  <2>4. n \in 0..Len(its) /\ n - 1 \in 0..Len(its) /\ n \in Int
    BY <2>2, <2>3, <1>1
  <2>5. n - 1 \notin Wrong
    <3> HIDE DEF Wrong
    <3> QED
      BY <2>2, <2>4
  <2>6. PICK h : h = [k \in 0..(n - 1) |-> Loop(h, k)]
    BY <2>4, <2>5
  <2> DEFINE g == [k \in 0..n |-> IF k = n THEN Loop(h, n) ELSE h[k]]
  <2>7. ASSUME NEW k \in 0..n PROVE g[k] = Loop(g, k)
    <3>1. CASE k = n
      <4>1. g[k] = Loop(h, n) /\ g[n - 1] = h[n - 1]
        BY <3>1, <2>4, <2>3
      <4> QED
        BY <4>1, <3>1 DEF Loop
    <3>2. CASE k # n
      <4>0. k \in 0..(n - 1) /\ g[k] = h[k]
        BY <3>2, <2>4
      <4>1. k \in 0..(n - 1) /\ g[k] = h[k] /\ h[k] = Loop(h, k)
        <5> HIDE DEF Loop
        <5>1. h[k] = Loop(h, k)
          BY <2>6, <4>0
        <5> QED
          BY <4>0, <5>1
      <4>2. CASE k = 0
        BY <4>1, <4>2
      <4>3. CASE k # 0
        <5>1. k - 1 \in 0..n /\ k - 1 # n /\ g[k - 1] = h[k - 1]
          BY <4>1, <4>3, <2>4
        <5> QED
          BY <4>1, <5>1
      <4> QED
        BY <4>2, <4>3
    <3> QED
      BY <3>1, <3>2
  <2>8. g = [k \in 0..n |-> g[k]]
    OBVIOUS
  <2>9. g = [k \in 0..n |-> Loop(g, k)]
    <3> HIDE DEF g, Loop
    <3> QED
      BY <2>7, <2>8
  <2>10. Have(n)
    BY <2>9
  <2> QED
    BY <2>2, <2>10
<1>6. kept = [k \in 0..Len(its) |-> Loop(kept, k)]
  <2>1. \E g : g = [k \in 0..Len(its) |-> Loop(g, k)]
    BY <1>5, <1>1
  <2> HIDE DEF Loop
  <2> QED
    BY <2>1
<1>7. kept[Len(its)] \in Seq(X)
  <2> HIDE DEF kept, Loop
  <2> QED
    BY <1>4, <1>6, <1>1
<1> QED
  BY <1>2, <1>7 DEF X

\* What out_items may hold.
ProgramItem == UNION {OwnOf(f) : f \in Files}
ItemsInv == items \in Seq(ProgramItem)

\* What is appended to out_items are items of a file.
LEMMA ItemsStep ==
  ASSUME LoadInv, ItemsInv, [LoaderNext \/ LaterPass \/ Recompile]_loaderVars
  PROVE  ItemsInv'
<1>1. project' = project
  BY DEF LoaderNext, LaterPass, Recompile, loaderVars, VisitBridge, VisitKnown, VisitCycle, VisitMissing, Enter, Leave, Expanded, Edit, Fail
<1>2. ProgramItem' = ProgramItem
  BY <1>1 DEF ProgramItem, OwnOf, Files, P, UsesIn
<1>3. ASSUME NEW f \in Files PROVE Own(f) \in Seq(ProgramItem)
  <2>1. Own(f) \in Seq(OwnOf(f)) /\ OwnOf(f) \subseteq ProgramItem
    BY OwnItems DEF LoadInv, ProgramItem
  <2> QED
    BY <2>1
<1>4. CASE Leave
  <2>1. Top \in Frame /\ Top.mod # Main /\ Top.file \in Files
    BY <1>4, TopIsLast DEF Leave, LoadInv, WalkInv, FramesAt
  <2>2. items' = items \o Own(Top.file)
    BY <1>4 DEF Leave
  <2> QED
    BY <1>2, <1>3, <2>1, <2>2 DEF ItemsInv
<1>5. CASE Expanded
  <2>1. P.main \in Files /\ (Len(RootFiles) = 2 => Prelude \in Files)
    <3>1. (P.prelude /\ P.main # Prelude) \/ RootFiles = <<P.main>>
      BY DEF RootFiles
    <3>2. Len(<<P.main>>) # 2
      OBVIOUS
    <3> QED
      BY <3>1, <3>2, ProjectFacts DEF LoadInv
  <2>2. items' = items \o (IF Len(RootFiles) = 2 THEN Own(Prelude) ELSE <<>>) \o Own(P.main)
    BY <1>5 DEF Expanded
  <2>3. Own(P.main) \in Seq(ProgramItem) /\ (IF Len(RootFiles) = 2 THEN Own(Prelude) ELSE <<>>) \in Seq(ProgramItem)
    BY <2>1, <1>3
  <2> QED
    BY <1>2, <2>2, <2>3 DEF ItemsInv
<1>6. CASE Recompile
  BY <1>6, <1>2 DEF Recompile, ItemsInv
<1>7. CASE UNCHANGED items
  BY <1>7, <1>2 DEF ItemsInv
<1> QED
  BY <1>4, <1>5, <1>6, <1>7 DEF LoaderNext, LaterPass, loaderVars, VisitBridge, VisitKnown, VisitCycle, VisitMissing, Enter, Edit, Fail

\* The program consists of items of the project's files, and no use is left in
\* it (resolve.py:1495-1517).
THEOREM ItemsFromFiles == LoaderSpec => []ItemsInv
<1>1. LoaderInit => ItemsInv
  BY DEF LoaderInit, ItemsInv
<1>2. LoadInv /\ ItemsInv /\ [LoaderNext \/ LaterPass \/ Recompile]_loaderVars => ItemsInv'
  BY ItemsStep
<1> QED
  BY <1>1, <1>2, LoadInvariant, PTL DEF LoaderSpec
=============================================================================
