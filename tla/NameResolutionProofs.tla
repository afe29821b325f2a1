------------------------- MODULE NameResolutionProofs -------------------------
(* Every use refers to what the scoping rules say, for all programs.          *)
EXTENDS NameResolution, ModuleLoaderProofs, FiniteSetTheorems

-----------------------------------------------------------------------------
(* The passes behind the loader only read what it loaded.                    *)

\* A step of resolving that reports nothing stays in that pass.
LEMMA ResolvedIsLater ==
  ASSUME at = "resolving", Resolved
  PROVE  LaterPass
BY DEF Resolved, LaterPass, Passes, LoadErrors

\* An error of the later passes is none of the loader's.
LEMMA RejectIsLater ==
  ASSUME at \in {"collecting", "resolving"}, NEW why, Reject(why), why \notin {"loading"} \union LoadErrors
  PROVE  LaterPass
BY DEF Reject, LaterPass, Passes, LoadErrors

\* A declaration that is collected changes nothing of the loader.
LEMMA CollectedIsLater ==
  ASSUME at = "collecting", Collected
  PROVE  LaterPass
BY DEF Collected, LaterPass, Passes, LoadErrors

\* The steps of the two passes.
CollectStep ==
  \/ CollectMain \/ CollectType \/ CollectNamed \/ CollectValue \/ CollectHandler \/ CollectOther
ResolveStep ==
  \/ ResolveDecl \/ ResolveAlias \/ ResolveMember \/ ResolveName \/ ResolveType \/ ResolveSectorCall \/ Bind \/ OpenScope
  \/ MatchWild \/ MatchVar \/ MatchCtor \/ MatchAlias \/ TooDeep

\* What the two passes report.
CollectErrors == {"duplicate type", "duplicate sector", "duplicate mixin", "unknown sector", "duplicate name"}

\* What a step of collecting does: it fails, or it goes on.
LEMMA CollectAlternatives ==
  ASSUME CollectStep
  PROVE  /\ at = "collecting"
         /\ Collected \/ \E why \in CollectErrors : Reject(why)
<1>1. CASE CollectMain
  BY <1>1 DEF CollectMain
<1>2. CASE CollectType
  BY <1>2 DEF CollectType, Collecting, CollectErrors
<1>3. CASE CollectNamed
  <2>1. Reject("duplicate sector") \/ Reject("duplicate mixin") \/ Collected
    BY <1>3 DEF CollectNamed
  <2> QED
    BY <2>1, <1>3 DEF CollectNamed, Collecting, CollectErrors
<1>4. CASE CollectValue
  BY <1>4 DEF CollectValue, Collecting, CollectErrors
<1>5. CASE CollectHandler \/ CollectOther
  BY <1>5 DEF CollectHandler, CollectOther, Collecting
<1> QED
  BY <1>1, <1>2, <1>3, <1>4, <1>5 DEF CollectStep

\* What resolving reports: an ambiguous or unknown name, a clash, a bad pattern.
ResolveErrors ==
  {"duplicate pattern", "alias binds", "ambiguous", "not found", "unknown type", "unknown sector", "duplicate name",
   "unknown constructor", "cyclic alias", "recursion"}

\* A use that is resolved, and a name that is defined, end no pass.
LEMMA ReferIsResolved == ASSUME NEW uses, Refer(uses) PROVE Resolved
BY DEF Refer

\* Neither does a definition.
LEMMA DefineIsResolved == ASSUME NEW outer, NEW x, NEW l, Define(outer, x, l) PROVE Resolved
BY DEF Define

\* What a step of resolving does: it fails, or it goes on.
LEMMA ResolveAlternatives ==
  ASSUME ResolveStep
  PROVE  /\ at = "resolving"
         /\ Resolved \/ \E why \in ResolveErrors : Reject(why)
<1>1. CASE ResolveDecl \/ OpenScope \/ MatchWild
  BY <1>1 DEF ResolveDecl, OpenScope, MatchWild, Resolving, Matching
<1>2. CASE ResolveAlias
  BY <1>2 DEF ResolveAlias, ResolveErrors
<1>3. CASE ResolveMember
  <2>1. Reject("ambiguous") \/ Resolved
    BY <1>3, ReferIsResolved DEF ResolveMember
  <2> QED
    BY <2>1, <1>3 DEF ResolveMember, Resolving, ResolveErrors
<1>4. CASE ResolveName
  <2>1. Reject("ambiguous") \/ Reject("not found") \/ Resolved
    BY <1>4, ReferIsResolved DEF ResolveName
  <2> QED
    BY <2>1, <1>4 DEF ResolveName, Resolving, ResolveErrors
<1>5. CASE ResolveType
  <2>1. Reject("unknown type") \/ Resolved
    BY <1>5, ReferIsResolved DEF ResolveType
  <2> QED
    BY <2>1, <1>5 DEF ResolveType, Resolving, ResolveErrors
<1>6. CASE ResolveSectorCall
  <2>1. Reject("unknown sector") \/ Reject("not found") \/ Reject("ambiguous") \/ Resolved
    BY <1>6, ReferIsResolved DEF ResolveSectorCall
  <2> QED
    BY <2>1, <1>6 DEF ResolveSectorCall, Resolving, ResolveErrors
<1>7. CASE Bind
  <2>1. Reject("duplicate name") \/ Resolved
    BY <1>7, DefineIsResolved DEF Bind
  <2> QED
    BY <2>1, <1>7 DEF Bind, Resolving, ResolveErrors
<1>8. CASE MatchVar
  <2>1. Reject("duplicate name") \/ Resolved
    BY <1>8, DefineIsResolved DEF MatchVar
  <2> QED
    BY <2>1, <1>8 DEF MatchVar, Matching, ResolveErrors
<1>9. CASE MatchCtor
  BY <1>9 DEF MatchCtor, Matching, ResolveErrors
<1>10. CASE MatchAlias
  BY <1>10 DEF MatchAlias, Matching, ResolveErrors
<1>11. CASE TooDeep
  BY <1>11 DEF TooDeep, ResolveErrors
<1> QED
  BY <1>1, <1>2, <1>3, <1>4, <1>5, <1>6, <1>7, <1>8, <1>9, <1>10, <1>11 DEF ResolveStep

\* A step of the whole front end is one of the loader as it was proved about.
LEMMA StepOfLoader == [Next]_vars => [LoaderNext \/ LaterPass \/ Recompile]_loaderVars
<1> SUFFICES ASSUME [Next]_vars PROVE [LoaderNext \/ LaterPass \/ Recompile]_loaderVars
  OBVIOUS
<1>1. CASE CollectStep
  <2>1. CASE Collected
    BY <1>1, <2>1, CollectAlternatives, CollectedIsLater
  <2>2. CASE ~ Collected
    <3>1. PICK why \in CollectErrors : Reject(why)
      BY <1>1, <2>2, CollectAlternatives
    <3>2. why \notin {"loading"} \union LoadErrors
      BY DEF LoadErrors, CollectErrors
    <3> QED
      BY <1>1, <3>1, <3>2, CollectAlternatives, RejectIsLater
  <2> QED
    BY <2>1, <2>2
<1>2. CASE ResolveStep
  <2>1. CASE Resolved
    BY <1>2, <2>1, ResolveAlternatives, ResolvedIsLater
  <2>2. CASE ~ Resolved
    <3>1. PICK why \in ResolveErrors : Reject(why)
      BY <1>2, <2>2, ResolveAlternatives
    <3>2. why \notin {"loading"} \union LoadErrors
      BY DEF LoadErrors, ResolveErrors
    <3> QED
      BY <1>2, <3>1, <3>2, ResolveAlternatives, RejectIsLater
  <2> QED
    BY <2>1, <2>2
<1>3. CASE BeginCollect \/ CollectDone \/ Done
  BY <1>3 DEF BeginCollect, CollectDone, Done, LaterPass, Passes, LoadErrors
<1>4. CASE LoaderNext \/ Recompile
  BY <1>4
<1>5. CASE UNCHANGED vars
  BY <1>5 DEF vars, loaderVars
<1> QED
  BY <1>1, <1>2, <1>3, <1>4, <1>5 DEF Next, CollectStep, ResolveStep

\* The whole front end implements the loader, so what was proved of the loader
\* holds while names are collected and resolved (resolve.py:1557-1603).
THEOREM FrontEndIsLoader == Spec => LoaderSpec
<1>1. Init => LoaderInit
  BY DEF Init
<1> QED
  BY <1>1, StepOfLoader, PTL DEF Spec, LoaderSpec
-----------------------------------------------------------------------------
(* Places.                                                                   *)

\* What the items are, in every state of the two passes.
ProgramOK == ProjectOK /\ ItemsInv

\* The places of the program are pairs of numbers; a sector comes from one file
\* and holds variables, needs, functions and handlers.
PlaceOK(p) ==
  /\ p = <<p[1], p[2]>> /\ p[1] \in Nat \ {0} /\ p[2] \in Nat
  /\ <<p[1], 0>> \in Everywhere /\ FileOf(p) = items[p[1]].file
  /\ p[2] = 0 => Item(p) = items[p[1]].it
  /\ p[2] > 0 => /\ items[p[1]].it.kind = "sector" /\ Item(p) = items[p[1]].it.items[p[2]]
                 /\ Item(p).kind \in {"var", "need", "fn", "on"}
  /\ ParsedItem(Item(p))

\* What the program holds is what the parser returns.
LEMMA ItemParsed ==
  ASSUME ProgramOK, NEW n \in DOMAIN items
  PROVE  /\ n \in Nat \ {0}
         /\ ParsedItem(items[n].it)
         /\ \A m \in DOMAIN items[n].it.items :
               ParsedItem(items[n].it.items[m]) /\ items[n].it.items[m].kind \in {"var", "need", "fn", "on"}
<1>1. items[n] \in ProgramItem /\ n \in Nat \ {0}
  BY DEF ProgramOK, ItemsInv
<1>2. PICK f \in Files : items[n] \in OwnOf(f)
  BY <1>1 DEF ProgramItem
<1>3. PICK k \in DOMAIN P.text[f] : items[n].it = P.text[f][k]
  BY <1>2 DEF OwnOf
<1> QED
  BY <1>1, <1>3, ParsedAssumption DEF ProgramOK, ProjectOK, P, Files

\* What a place of the program is, and what is said there.
LEMMA PlaceFacts2 ==
  ASSUME ProgramOK, NEW p \in Everywhere
  PROVE  PlaceOK(p)
<1>1. PICK n \in DOMAIN items : p \in {n} \X ({0} \union Inside(n))
  BY DEF Everywhere
<1>2. p = <<p[1], p[2]>> /\ p[1] = n /\ p[2] \in {0} \union Inside(n)
  BY <1>1
<1>3. n \in Nat \ {0} /\ ParsedItem(items[n].it)
  BY ItemParsed
<1>4. <<n, 0>> \in Everywhere
  BY DEF Everywhere
<1>5. CASE p[2] = 0
  BY <1>2, <1>3, <1>4, <1>5 DEF PlaceOK, Item, FileOf
<1>6. CASE p[2] # 0
  <2>1. items[n].it.kind = "sector" /\ p[2] \in DOMAIN items[n].it.items
    BY <1>2, <1>6 DEF Inside
  <2>2. p[2] \in Nat \ {0}
    BY <2>1, <1>3 DEF ParsedItem
  <2>3. Item(p) = items[n].it.items[p[2]] /\ FileOf(p) = items[n].file
    BY <1>2, <1>3, <1>6 DEF Item, FileOf
  <2> QED
    BY <1>2, <1>3, <1>4, <2>1, <2>2, <2>3, ItemParsed DEF PlaceOK
<1> QED
  BY <1>5, <1>6

\* First finds the first of some places.
Pairs(ps) == \A p \in ps : p = <<p[1], p[2]>> /\ p[1] \in Nat /\ p[2] \in Nat

\* The first of some places is one of them, and none is before it.
LEMMA FirstFacts ==
  ASSUME NEW ps, ps # {}, Pairs(ps)
  PROVE  /\ First(ps) \in ps
         /\ \A q \in ps : First(ps)[1] < q[1] \/ (First(ps)[1] = q[1] /\ First(ps)[2] <= q[2])
<1> DEFINE S == {p[1] : p \in ps}
           n == Min(S)
           T == {p[2] : p \in {q \in ps : q[1] = n}}
<1>1. S # {} /\ S \subseteq Nat
  BY DEF Pairs
<1>2. n \in S /\ \A y \in S : n <= y
  <2> HIDE DEF S
  <2> QED
    BY <1>1, MinOf
<1>3. T # {} /\ T \subseteq Nat
  <2>1. PICK p \in ps : p[1] = n
    BY <1>2
  <2>2. p[2] \in T
    BY <2>1
  <2>3. T \subseteq Nat
    BY DEF Pairs
  <2> QED
    BY <2>2, <2>3
<1> HIDE DEF n
<1>4. Min(T) \in T /\ \A y \in T : Min(T) <= y
  <2> HIDE DEF T
  <2> QED
    BY <1>3, MinOf
<1>5. First(ps) = <<n, Min(T)>>
  BY DEF First, n
<1>6. PICK p \in ps : p[1] = n /\ p[2] = Min(T)
  BY <1>4
<1>7. First(ps) = p
  BY <1>5, <1>6 DEF Pairs
<1>8. ASSUME NEW q \in ps PROVE n < q[1] \/ (n = q[1] /\ Min(T) <= q[2])
  <2>1. q[1] \in S /\ n <= q[1] /\ n \in Nat /\ q[1] \in Nat
    BY <1>1, <1>2
  <2>2. ASSUME q[1] = n PROVE Min(T) <= q[2]
    <3>1. q[2] \in T
      BY <2>2
    <3> HIDE DEF T
    <3> QED
      BY <3>1, <1>4
  <2> QED
    BY <2>1, <2>2
<1> QED
  BY <1>5, <1>6, <1>7, <1>8

-----------------------------------------------------------------------------
(* Tables: the symbols that stand for some places under one name.            *)

OfIn(syms, ids, kinds, x) == {s \in ids : syms[s].kind \in kinds /\ syms[s].name = x}
\* The symbol is that of the declaration at p.
Denotes(sym, p) == sym.decl = <<p[1], p[2], 0>> /\ sym.file = FileOf(p)

\* The symbols called x among ids stand for ps, one for each.
Table(syms, ids, kinds, x, ps) ==
  /\ \A s \in OfIn(syms, ids, kinds, x) : \E p \in ps : Denotes(syms[s], p)
  /\ \A p \in ps : \E s \in OfIn(syms, ids, kinds, x) : Denotes(syms[s], p)
  /\ \A s, t \in OfIn(syms, ids, kinds, x) : syms[s].decl = syms[t].decl => s = t

\* Symbols are only added.
Grows(syms, more) == DOMAIN syms \subseteq DOMAIN more /\ \A s \in DOMAIN syms : more[s] = syms[s]

\* New symbols that are of another name or kind change no table.
LEMMA TableKept ==
  ASSUME NEW syms, NEW more, Grows(syms, more), NEW ids \in SUBSET DOMAIN syms, NEW new, NEW kinds, NEW x, NEW ps,
         Table(syms, ids, kinds, x, ps), OfIn(more, new, kinds, x) = {}
  PROVE  Table(more, ids \union new, kinds, x, ps)
<1>1. OfIn(more, ids \union new, kinds, x) = OfIn(syms, ids, kinds, x)
  BY DEF OfIn, Grows
<1>2. \A s \in OfIn(syms, ids, kinds, x) : more[s] = syms[s]
  BY DEF OfIn, Grows
<1> QED
  BY <1>1, <1>2 DEF Table

\* One that is of this name stands for one more place.
LEMMA TableAdded ==
  ASSUME NEW syms, NEW more, Grows(syms, more), NEW ids \in SUBSET DOMAIN syms, NEW new, NEW kinds, NEW x, NEW ps,
         Table(syms, ids, kinds, x, ps), NEW n, OfIn(more, new, kinds, x) = {n},
         NEW p, Denotes(more[n], p), p \notin ps, Pairs(ps \union {p})
  PROVE  Table(more, ids \union new, kinds, x, ps \union {p})
<1>1. OfIn(more, ids \union new, kinds, x) = OfIn(syms, ids, kinds, x) \union {n}
  BY DEF OfIn, Grows
<1>2. \A s \in OfIn(syms, ids, kinds, x) : more[s] = syms[s]
  BY DEF OfIn, Grows
<1>3. ASSUME NEW s \in OfIn(syms, ids, kinds, x) PROVE more[s].decl # more[n].decl
  <2>1. PICK q \in ps : Denotes(syms[s], q)
    BY DEF Table
  <2>2. q # p /\ q = <<q[1], q[2]>> /\ p = <<p[1], p[2]>>
    BY DEF Pairs
  <2>3. <<q[1], q[2], 0>> # <<p[1], p[2], 0>>
    BY <2>2
  <2> QED
    BY <2>1, <2>3, <1>2 DEF Denotes
<1>4. \A s \in OfIn(syms, ids, kinds, x) \union {n} : \E q \in ps \union {p} : Denotes(more[s], q)
  BY <1>2 DEF Table
<1>5. \A q \in ps \union {p} : \E s \in OfIn(syms, ids, kinds, x) \union {n} : Denotes(more[s], q)
  BY <1>2 DEF Table
<1>6. \A s, t \in OfIn(syms, ids, kinds, x) \union {n} : more[s].decl = more[t].decl => s = t
  BY <1>2, <1>3 DEF Table
<1> QED
  BY <1>1, <1>4, <1>5, <1>6 DEF Table

-----------------------------------------------------------------------------
(* What has been collected, when the declarations of rest are still to come. *)

\* The declarations that bind x outside of all sectors, and those that may.
ValuesOf(x) == {p \in Named(Members \union {"const"}, x) : p[2] = 0 /\ Binds(p)}
\* The types that have a constructor of this name.
SumsOf(x) == {p \in Kinds({"type"}) : x \in Range(Item(p).ctors)}
\* The sectors called x; <<0, 0>> is the one that is made for the handlers.
SectorsOf(x) == Named({"sector"}, x) \union (IF x = "main" /\ HasTopOn /\ ~ HasMain THEN {<<0, 0>>} ELSE {})
\* What binds x in sector n.
MembersOf(n, x) == {q \in Named(Members, x) : q[2] > 0 /\ q[1] = n /\ Binds(q)}

\* The symbols and the sets of them are of the right type.
SymbolsOK(syms, globs, secs) ==
  /\ syms \in Seq(Range(syms)) /\ globs \subseteq DOMAIN syms
  /\ DOMAIN secs = {s \in globs : syms[s].kind = "sector"}
  /\ \A s \in DOMAIN secs : secs[s] \subseteq DOMAIN syms
\* The global scope stands for the global declarations, and where several
\* declare a name at least one of them is known.
GlobalsOK(syms, globs, rest) ==
  \A x : /\ Table(syms, globs, Values, x, Global(x) \ rest)
         /\ (ValuesOf(x) \union SumsOf(x)) \ rest # {} => OfIn(syms, globs, Values, x) # {}
\* The sectors have names of their own.
SectorsOK(syms, globs, rest) ==
  \A x : /\ Table(syms, globs, {"sector"}, x, SectorsOf(x) \ rest)
         /\ \A s, t \in OfIn(syms, globs, {"sector"}, x) : s = t
\* The scope of a sector stands for its members, each name once.
MembersOK(syms, secs, rest) ==
  \A s \in DOMAIN secs : \A x :
     /\ Table(syms, secs[s], Values, x, MembersOf(syms[s].decl[1], x) \ rest)
     /\ \A t, u \in OfIn(syms, secs[s], Values, x) : t = u

\* The tables are those of the declarations that are no longer to come.
Collection(syms, globs, secs, rest) ==
  /\ SymbolsOK(syms, globs, secs) /\ GlobalsOK(syms, globs, rest)
  /\ SectorsOK(syms, globs, rest) /\ MembersOK(syms, secs, rest)

\* The agenda of collecting: of the declarations outside of the main sector the
\* first are collected, and a sector before its members.
AgendaOK(rest) ==
  /\ rest \subseteq CollectOrder
  /\ \A p \in Everywhere : <<p[1], 0>> \in rest => p \in rest
  /\ \A p \in Everywhere \ rest, q \in rest : p[2] = 0 /\ ~ IsMain(p[1]) => p[1] <= q[1]

\* The next declaration is one of those to come; behind it the agenda is still
\* in order.
LEMMA HereFacts ==
  ASSUME ProgramOK, at = "collecting", agenda # {}, AgendaOK(agenda)
  PROVE  /\ Here \in agenda /\ AgendaOK(agenda \ {Here})
         /\ Here[1] > 0 /\ ~ IsMain(Here[1]) => \A q \in agenda : Here[1] <= q[1]
         /\ Here[2] > 0 => <<Here[1], 0>> \notin agenda
<1> DEFINE M == InMain(agenda)
           S == IF M # {} THEN M ELSE agenda
<1>1. Here = First(S) /\ S # {} /\ S \subseteq agenda
  BY DEF Here, InMain
<1>2. \A p \in Everywhere : p = <<p[1], p[2]>> /\ p[1] \in Nat \ {0} /\ p[2] \in Nat
  BY PlaceFacts2 DEF PlaceOK
<1>3. CollectOrder \subseteq Everywhere \union {<<0, 0>>}
  BY DEF CollectOrder
<1>4. Pairs(agenda)
  BY <1>2, <1>3 DEF AgendaOK, Pairs
<1>5. Pairs(S)
  BY <1>1, <1>4 DEF Pairs
<1>6. Here \in S /\ \A q \in S : Here[1] < q[1] \/ (Here[1] = q[1] /\ Here[2] <= q[2])
  BY <1>1, <1>5, FirstFacts
<1>7. Here \in agenda /\ Here = <<Here[1], Here[2]>> /\ Here[1] \in Nat /\ Here[2] \in Nat
  BY <1>1, <1>4, <1>6 DEF Pairs
<1>8. \A q \in agenda : q = <<q[1], q[2]>> /\ q[1] \in Nat /\ q[2] \in Nat
  BY <1>4 DEF Pairs
<1>9. ASSUME Here[1] > 0, ~ IsMain(Here[1]), NEW q \in agenda
      PROVE  Here[1] <= q[1]
  <2>1. S = agenda
    BY <1>6, <1>9 DEF InMain
  <2> HIDE DEF S
  <2> QED
    BY <2>1, <1>6, <1>7, <1>8
<1>10. ASSUME Here[2] > 0, <<Here[1], 0>> \in agenda
       PROVE  FALSE
  <2>1. <<Here[1], 0>> \in S
    <3>1. CASE M = {}
      BY <3>1, <1>10
    <3>2. CASE M # {}
      <4>1. Here[1] > 0 /\ IsMain(Here[1])
        BY <3>2, <1>6 DEF InMain
      <4> QED
        BY <4>1, <3>2, <1>10 DEF InMain
    <3> QED
      BY <3>1, <3>2
  <2> HIDE DEF S
  <2> QED
    BY <2>1, <1>6, <1>7, <1>10
<1> HIDE DEF S
<1>11. ASSUME NEW p \in Everywhere, <<p[1], 0>> \in agenda \ {Here}
       PROVE  p \in agenda \ {Here}
  BY <1>2, <1>7, <1>10, <1>11 DEF AgendaOK
<1>12. ASSUME NEW p \in Everywhere \ (agenda \ {Here}), NEW q \in agenda \ {Here}, p[2] = 0, ~ IsMain(p[1])
       PROVE  p[1] <= q[1]
  <2>1. CASE p = Here
    BY <2>1, <1>2, <1>9, <1>12
  <2>2. CASE p # Here
    BY <2>2, <1>12 DEF AgendaOK
  <2> QED
    BY <2>1, <2>2
<1>13. agenda \ {Here} \subseteq CollectOrder
  BY DEF AgendaOK
<1>14. AgendaOK(agenda \ {Here})
  BY <1>11, <1>12, <1>13 DEF AgendaOK
<1> QED
  BY <1>7, <1>9, <1>10, <1>14

\* Without h among what is to come, a set has h more behind it.
LEMMA Uncovered ==
  ASSUME NEW S, NEW rest, NEW h \in rest
  PROVE  S \ (rest \ {h}) = IF h \in S THEN (S \ rest) \union {h} ELSE S \ rest
OBVIOUS

\* The places of a table are places of the program.
LEMMA PlacesOfTables ==
  ASSUME ProgramOK, NEW x
  PROVE  /\ ValuesOf(x) \union SumsOf(x) \subseteq Everywhere
         /\ Global(x) \subseteq ValuesOf(x) \union SumsOf(x)
         /\ \A p \in ValuesOf(x) \union SumsOf(x) : p[2] = 0 /\ Item(p).kind \in Members \union {"const", "type"}
         /\ \A p \in SectorsOf(x) : p[2] = 0 /\ (p = <<0, 0>> \/ (p \in Everywhere /\ Item(p).kind = "sector"))
         /\ \A n : MembersOf(n, x) \subseteq Everywhere
         /\ Pairs(Global(x)) /\ Pairs(SectorsOf(x)) /\ \A n : Pairs(MembersOf(n, x))
<1>1. \A p \in Everywhere : p = <<p[1], p[2]>> /\ p[1] \in Nat /\ p[2] \in Nat
  BY PlaceFacts2 DEF PlaceOK
<1>2. \A p \in Everywhere : p[2] > 0 => Item(p).kind \in {"var", "need", "fn", "on"}
  BY PlaceFacts2 DEF PlaceOK
<1>3. ValuesOf(x) \union SumsOf(x) \subseteq Everywhere
  BY DEF ValuesOf, SumsOf, Named, Kinds
<1>4. Global(x) \subseteq ValuesOf(x) \union SumsOf(x)
  BY DEF Global, ValuesOf, SumsOf
<1>5. ASSUME NEW p \in ValuesOf(x) \union SumsOf(x)
      PROVE  p[2] = 0 /\ Item(p).kind \in Members \union {"const", "type"}
  <2>1. CASE p \in ValuesOf(x)
    BY <2>1 DEF ValuesOf, Named, Kinds
  <2>2. CASE p \in SumsOf(x)
    <3>1. p \in Everywhere /\ Item(p).kind = "type"
      BY <2>2 DEF SumsOf, Kinds
    <3>2. ~ p[2] > 0 /\ p[2] \in Nat
      BY <3>1, <1>1, <1>2
    <3> QED
      BY <3>1, <3>2
  <2> QED
    BY <2>1, <2>2
<1>6. ASSUME NEW p \in SectorsOf(x)
      PROVE  p[2] = 0 /\ (p = <<0, 0>> \/ (p \in Everywhere /\ Item(p).kind = "sector")) /\ p = <<p[1], p[2]>> /\ p[1] \in Nat
  <2>1. CASE p = <<0, 0>>
    BY <2>1
  <2>2. CASE p # <<0, 0>>
    <3>1. p \in Everywhere /\ Item(p).kind = "sector"
      BY <2>2 DEF SectorsOf, Named, Kinds
    <3>2. ~ p[2] > 0 /\ p[2] \in Nat
      BY <3>1, <1>1, <1>2
    <3> QED
      BY <3>1, <3>2, <1>1
  <2> QED
    BY <2>1, <2>2
<1>7. \A n : MembersOf(n, x) \subseteq Everywhere
  BY DEF MembersOf, Named, Kinds
<1> QED
  BY <1>1, <1>3, <1>4, <1>5, <1>6, <1>7 DEF Pairs

\* A declaration outside of all sectors is collected, with the symbols new for
\* the names it declares first.
LEMMA CollectionWidened ==
  ASSUME ProgramOK, NEW syms, NEW globs, NEW secs, NEW rest, Collection(syms, globs, secs, rest),
         NEW more, Grows(syms, more), more \in Seq(Range(more)), NEW h \in rest,
         NEW new \in SUBSET DOMAIN more, \A n \in new : more[n].kind # "sector",
         \A x : h \notin SectorsOf(x), \A n, x : h \notin MembersOf(n, x),
         \A x : \/ /\ OfIn(more, new, Values, x) = {} /\ h \notin Global(x)
                   /\ h \in ValuesOf(x) \union SumsOf(x) => OfIn(syms, globs, Values, x) # {}
                \/ \E n : OfIn(more, new, Values, x) = {n} /\ Denotes(more[n], h) /\ h \in Global(x)
  PROVE  Collection(more, globs \union new, secs, rest \ {h})
<1>1. globs \subseteq DOMAIN syms
  BY DEF Collection, SymbolsOK
<1>2. SymbolsOK(more, globs \union new, secs)
  BY DEF Collection, SymbolsOK, Grows
<1>3. ASSUME NEW x
      PROVE  /\ Table(more, globs \union new, Values, x, Global(x) \ (rest \ {h}))
             /\ (ValuesOf(x) \union SumsOf(x)) \ (rest \ {h}) # {} => OfIn(more, globs \union new, Values, x) # {}
  <2>1. /\ Table(syms, globs, Values, x, Global(x) \ rest)
        /\ (ValuesOf(x) \union SumsOf(x)) \ rest # {} => OfIn(syms, globs, Values, x) # {}
    BY DEF Collection, GlobalsOK
  <2>2. OfIn(syms, globs, Values, x) \subseteq OfIn(more, globs \union new, Values, x)
    BY <1>1 DEF OfIn, Grows
  <2>3. CASE /\ OfIn(more, new, Values, x) = {} /\ h \notin Global(x)
             /\ h \in ValuesOf(x) \union SumsOf(x) => OfIn(syms, globs, Values, x) # {}
    <3>1. Global(x) \ (rest \ {h}) = Global(x) \ rest
      BY <2>3, Uncovered
    <3> QED
      BY <3>1, <1>1, <2>1, <2>2, <2>3, TableKept
  <2>4. CASE \E n : OfIn(more, new, Values, x) = {n} /\ Denotes(more[n], h) /\ h \in Global(x)
    <3>1. PICK n : OfIn(more, new, Values, x) = {n} /\ Denotes(more[n], h) /\ h \in Global(x)
      BY <2>4
    <3>2. Global(x) \ (rest \ {h}) = (Global(x) \ rest) \union {h}
      BY <3>1, Uncovered
    <3>3. Pairs((Global(x) \ rest) \union {h})
      BY <3>1, PlacesOfTables DEF Pairs
    <3>4. n \in OfIn(more, globs \union new, Values, x)
      <4>1. n \in OfIn(more, new, Values, x)
        BY <3>1
      <4> QED
        BY <4>1 DEF OfIn
    <3>5. Table(more, globs \union new, Values, x, (Global(x) \ rest) \union {h})
      BY <3>1, <3>3, <1>1, <2>1, TableAdded
    <3> QED
      BY <3>2, <3>4, <3>5
  <2> QED
    BY <2>3, <2>4
<1>4. ASSUME NEW x
      PROVE  /\ Table(more, globs \union new, {"sector"}, x, SectorsOf(x) \ (rest \ {h}))
             /\ \A s, t \in OfIn(more, globs \union new, {"sector"}, x) : s = t
  <2>1. /\ Table(syms, globs, {"sector"}, x, SectorsOf(x) \ rest)
        /\ \A s, t \in OfIn(syms, globs, {"sector"}, x) : s = t
    BY DEF Collection, SectorsOK
  <2>2. OfIn(more, new, {"sector"}, x) = {}
    BY DEF OfIn
  <2>3. SectorsOf(x) \ (rest \ {h}) = SectorsOf(x) \ rest
    BY Uncovered
  <2>4. OfIn(more, globs \union new, {"sector"}, x) = OfIn(syms, globs, {"sector"}, x)
    BY <1>1, <2>2 DEF OfIn, Grows
  <2> QED
    BY <1>1, <2>1, <2>2, <2>3, <2>4, TableKept
<1>5. ASSUME NEW s \in DOMAIN secs, NEW x
      PROVE  /\ Table(more, secs[s], Values, x, MembersOf(more[s].decl[1], x) \ (rest \ {h}))
             /\ \A t, u \in OfIn(more, secs[s], Values, x) : t = u
  <2>1. secs[s] \subseteq DOMAIN syms /\ more[s] = syms[s]
    BY DEF Collection, SymbolsOK, Grows
  <2>2. MembersOf(syms[s].decl[1], x) \ (rest \ {h}) = MembersOf(syms[s].decl[1], x) \ rest
    BY Uncovered
  <2>3. /\ Table(syms, secs[s], Values, x, MembersOf(syms[s].decl[1], x) \ rest)
        /\ \A t, u \in OfIn(syms, secs[s], Values, x) : t = u
    BY DEF Collection, MembersOK
  <2>4. OfIn(more, {}, Values, x) = {} /\ secs[s] \union {} = secs[s]
    BY DEF OfIn
  <2>5. Table(more, secs[s], Values, x, MembersOf(syms[s].decl[1], x) \ rest)
    BY <2>1, <2>3, <2>4, TableKept
  <2>6. OfIn(more, secs[s], Values, x) = OfIn(syms, secs[s], Values, x)
    BY <2>1 DEF OfIn, Grows
  <2> QED
    BY <2>1, <2>2, <2>3, <2>5, <2>6
<1> QED
  BY <1>2, <1>3, <1>4, <1>5 DEF Collection, GlobalsOK, SectorsOK, MembersOK

\* A sector is collected: nobody had its name, its scope is empty, and its
\* members come later.
LEMMA CollectionSector ==
  ASSUME ProgramOK, NEW syms, NEW globs, NEW secs, NEW rest, Collection(syms, globs, secs, rest),
         NEW more, Grows(syms, more), more \in Seq(Range(more)), NEW h \in rest,
         NEW n \in DOMAIN more, n \notin DOMAIN syms, NEW y, more[n].kind = "sector", more[n].name = y,
         Denotes(more[n], h), h \in SectorsOf(y), OfIn(syms, globs, {"sector"}, y) = {},
         \A x : MembersOf(h[1], x) \subseteq rest \ {h}
  PROVE  Collection(more, globs \union {n}, Adding(secs, n, {}), rest \ {h})
<1> DEFINE secs2 == Adding(secs, n, {})
<1>1. globs \subseteq DOMAIN syms /\ DOMAIN secs = {s \in globs : syms[s].kind = "sector"} /\ \A s \in DOMAIN secs : secs[s] \subseteq DOMAIN syms
  BY DEF Collection, SymbolsOK
<1>2. n \notin DOMAIN secs /\ DOMAIN secs2 = DOMAIN secs \union {n} /\ secs2[n] = {} /\ \A s \in DOMAIN secs : secs2[s] = secs[s]
  BY <1>1 DEF Adding
<1>3. more[n].decl[1] = h[1]
  BY DEF Denotes
<1>4. h[2] = 0 /\ (h = <<0, 0>> \/ (h \in Everywhere /\ Item(h).kind = "sector")) /\ h = <<h[1], h[2]>> /\ Pairs({h})
  BY PlacesOfTables DEF Pairs
<1>5. ASSUME NEW x PROVE h \notin ValuesOf(x) \union SumsOf(x)
  <2>1. CASE h = <<0, 0>>
    <3>1. h \notin Everywhere
      BY <2>1, PlaceFacts2 DEF PlaceOK
    <3> QED
      BY <3>1, PlacesOfTables
  <2>2. CASE h \in Everywhere /\ Item(h).kind = "sector"
    BY <2>2, PlacesOfTables DEF Members
  <2> QED
    BY <1>4, <2>1, <2>2
<1>6. ASSUME NEW x, NEW m PROVE h \notin MembersOf(m, x)
  BY <1>4 DEF MembersOf
<1> HIDE DEF secs2
<1>7. SymbolsOK(more, globs \union {n}, secs2)
  <2>1. DOMAIN secs2 = {s \in globs \union {n} : more[s].kind = "sector"}
    BY <1>1, <1>2 DEF Grows
  <2>2. \A s \in DOMAIN secs2 : secs2[s] \subseteq DOMAIN more
    BY <1>1, <1>2 DEF Grows
  <2> QED
    BY <1>1, <2>1, <2>2 DEF SymbolsOK, Grows
<1>8. ASSUME NEW x
      PROVE  /\ Table(more, globs \union {n}, Values, x, Global(x) \ (rest \ {h}))
             /\ (ValuesOf(x) \union SumsOf(x)) \ (rest \ {h}) # {} => OfIn(more, globs \union {n}, Values, x) # {}
  <2>1. /\ Table(syms, globs, Values, x, Global(x) \ rest)
        /\ (ValuesOf(x) \union SumsOf(x)) \ rest # {} => OfIn(syms, globs, Values, x) # {}
    BY DEF Collection, GlobalsOK
  <2>2. OfIn(more, {n}, Values, x) = {}
    BY DEF OfIn, Values
  <2>3. OfIn(syms, globs, Values, x) \subseteq OfIn(more, globs \union {n}, Values, x)
    BY <1>1 DEF OfIn, Grows
  <2>4. Global(x) \ (rest \ {h}) = Global(x) \ rest /\ (ValuesOf(x) \union SumsOf(x)) \ (rest \ {h}) = (ValuesOf(x) \union SumsOf(x)) \ rest
    BY <1>5, PlacesOfTables, Uncovered
  <2> QED
    BY <1>1, <2>1, <2>2, <2>3, <2>4, TableKept
<1>9. ASSUME NEW x
      PROVE  /\ Table(more, globs \union {n}, {"sector"}, x, SectorsOf(x) \ (rest \ {h}))
             /\ \A s, t \in OfIn(more, globs \union {n}, {"sector"}, x) : s = t
  <2>1. /\ Table(syms, globs, {"sector"}, x, SectorsOf(x) \ rest)
        /\ \A s, t \in OfIn(syms, globs, {"sector"}, x) : s = t
    BY DEF Collection, SectorsOK
  <2>2. CASE x = y
    <3>1. OfIn(more, {n}, {"sector"}, x) = {n}
      BY <2>2 DEF OfIn
    <3>2. SectorsOf(x) \ (rest \ {h}) = (SectorsOf(x) \ rest) \union {h}
      BY <2>2, Uncovered
    <3>3. Pairs((SectorsOf(x) \ rest) \union {h})
      BY <1>4, PlacesOfTables DEF Pairs
    <3>4. Table(more, globs \union {n}, {"sector"}, x, (SectorsOf(x) \ rest) \union {h})
      BY <1>1, <2>1, <3>1, <3>3, TableAdded
    <3>5. OfIn(more, globs \union {n}, {"sector"}, x) = OfIn(syms, globs, {"sector"}, x) \union {n}
      BY <1>1, <3>1 DEF OfIn, Grows
    <3> QED
      BY <2>2, <3>2, <3>4, <3>5
  <2>3. CASE x # y
    <3>1. OfIn(more, {n}, {"sector"}, x) = {}
      BY <2>3 DEF OfIn
    <3>2. h \notin SectorsOf(x)
      <4>1. CASE h = <<0, 0>>
        <5>1. h \notin Everywhere
          BY <4>1, PlaceFacts2 DEF PlaceOK
        <5>2. y = "main"
          BY <5>1 DEF SectorsOf, Named, Kinds
        <5> QED
          BY <2>3, <5>1, <5>2 DEF SectorsOf, Named, Kinds
      <4>2. CASE h \in Everywhere
        <5>1. h # <<0, 0>>
          BY <4>2, PlaceFacts2 DEF PlaceOK
        <5> QED
          BY <2>3, <5>1 DEF SectorsOf, Named
      <4> QED
        BY <1>4, <4>1, <4>2
    <3>3. SectorsOf(x) \ (rest \ {h}) = SectorsOf(x) \ rest
      BY <3>2, Uncovered
    <3>4. Table(more, globs \union {n}, {"sector"}, x, SectorsOf(x) \ rest)
      BY <1>1, <2>1, <3>1, TableKept
    <3>5. OfIn(more, globs \union {n}, {"sector"}, x) = OfIn(syms, globs, {"sector"}, x)
      BY <1>1, <3>1 DEF OfIn, Grows
    <3> QED
      BY <2>1, <3>3, <3>4, <3>5
  <2> QED
    BY <2>2, <2>3
<1>10. ASSUME NEW s \in DOMAIN secs2, NEW x
       PROVE  /\ Table(more, secs2[s], Values, x, MembersOf(more[s].decl[1], x) \ (rest \ {h}))
              /\ \A t, u \in OfIn(more, secs2[s], Values, x) : t = u
  <2>1. CASE s = n
    <3>1. OfIn(more, secs2[s], Values, x) = {}
      BY <2>1, <1>2 DEF OfIn
    <3>2. MembersOf(more[s].decl[1], x) \ (rest \ {h}) = {}
      BY <2>1, <1>3
    <3> QED
      BY <3>1, <3>2 DEF Table
  <2>2. CASE s # n
    <3>1. s \in DOMAIN secs /\ secs2[s] = secs[s] /\ secs[s] \subseteq DOMAIN syms /\ more[s] = syms[s]
      BY <2>2, <1>1, <1>2 DEF Grows
    <3>2. MembersOf(syms[s].decl[1], x) \ (rest \ {h}) = MembersOf(syms[s].decl[1], x) \ rest
      BY <1>6, Uncovered
    <3>3. /\ Table(syms, secs[s], Values, x, MembersOf(syms[s].decl[1], x) \ rest)
          /\ \A t, u \in OfIn(syms, secs[s], Values, x) : t = u
      BY <3>1 DEF Collection, MembersOK
    <3>4. OfIn(more, {}, Values, x) = {} /\ secs[s] \union {} = secs[s]
      BY DEF OfIn
    <3>5. Table(more, secs[s], Values, x, MembersOf(syms[s].decl[1], x) \ rest)
      BY <3>1, <3>3, <3>4, TableKept
    <3>6. OfIn(more, secs[s], Values, x) = OfIn(syms, secs[s], Values, x)
      BY <3>1 DEF OfIn, Grows
    <3> QED
      BY <3>1, <3>2, <3>3, <3>5, <3>6
  <2> QED
    BY <2>1, <2>2
<1> QED
  BY <1>7, <1>8, <1>9, <1>10 DEF Collection, GlobalsOK, SectorsOK, MembersOK, secs2

\* A member of a sector is collected: no other member of the sector has its name.
LEMMA CollectionMember ==
  ASSUME ProgramOK, NEW syms, NEW globs, NEW secs, NEW rest, Collection(syms, globs, secs, rest),
         NEW more, Grows(syms, more), more \in Seq(Range(more)), NEW h \in rest,
         NEW n \in DOMAIN more, n \notin DOMAIN syms, NEW y, more[n].kind \in Values, more[n].name = y,
         Denotes(more[n], h), NEW o \in DOMAIN secs, syms[o].decl[1] = h[1],
         h \in MembersOf(h[1], y), OfIn(syms, secs[o], Values, y) = {}
  PROVE  Collection(more, globs, [secs EXCEPT ![o] = @ \union {n}], rest \ {h})
<1> DEFINE secs2 == [secs EXCEPT ![o] = @ \union {n}]
<1>1. globs \subseteq DOMAIN syms /\ DOMAIN secs = {s \in globs : syms[s].kind = "sector"} /\ \A s \in DOMAIN secs : secs[s] \subseteq DOMAIN syms
  BY DEF Collection, SymbolsOK
<1>2. DOMAIN secs2 = DOMAIN secs /\ secs2[o] = secs[o] \union {n} /\ \A s \in DOMAIN secs \ {o} : secs2[s] = secs[s]
  OBVIOUS
<1>3. h[2] > 0 /\ h[2] \in Nat /\ h \in Everywhere /\ Item(h).name = y /\ Pairs({h})
  <2>1. h \in Everywhere /\ Item(h).name = y /\ h[2] > 0
    BY DEF MembersOf, Named, Kinds
  <2> QED
    BY <2>1, PlaceFacts2 DEF PlaceOK, Pairs
<1> HIDE DEF secs2
<1>4. SymbolsOK(more, globs, secs2)
  <2>1. DOMAIN secs2 = {s \in globs : more[s].kind = "sector"}
    BY <1>1, <1>2 DEF Grows
  <2>2. \A s \in DOMAIN secs2 : secs2[s] \subseteq DOMAIN more
    BY <1>1, <1>2 DEF Grows
  <2> QED
    BY <1>1, <2>1, <2>2 DEF SymbolsOK, Grows
<1>5. ASSUME NEW x
      PROVE  /\ Table(more, globs, Values, x, Global(x) \ (rest \ {h}))
             /\ (ValuesOf(x) \union SumsOf(x)) \ (rest \ {h}) # {} => OfIn(more, globs, Values, x) # {}
  <2>1. /\ Table(syms, globs, Values, x, Global(x) \ rest)
        /\ (ValuesOf(x) \union SumsOf(x)) \ rest # {} => OfIn(syms, globs, Values, x) # {}
    BY DEF Collection, GlobalsOK
  <2>2. OfIn(more, {}, Values, x) = {} /\ globs \union {} = globs
    BY DEF OfIn
  <2>3. OfIn(syms, globs, Values, x) \subseteq OfIn(more, globs, Values, x)
    BY <1>1 DEF OfIn, Grows
  <2>4. h \notin ValuesOf(x) \union SumsOf(x)
    BY <1>3, PlacesOfTables
  <2>5. Global(x) \ (rest \ {h}) = Global(x) \ rest /\ (ValuesOf(x) \union SumsOf(x)) \ (rest \ {h}) = (ValuesOf(x) \union SumsOf(x)) \ rest
    BY <2>4, PlacesOfTables, Uncovered
  <2>6. Table(more, globs, Values, x, Global(x) \ rest)
    BY <1>1, <2>1, <2>2, TableKept
  <2> QED
    BY <2>1, <2>3, <2>5, <2>6
<1>6. ASSUME NEW x
      PROVE  /\ Table(more, globs, {"sector"}, x, SectorsOf(x) \ (rest \ {h}))
             /\ \A s, t \in OfIn(more, globs, {"sector"}, x) : s = t
  <2>1. /\ Table(syms, globs, {"sector"}, x, SectorsOf(x) \ rest)
        /\ \A s, t \in OfIn(syms, globs, {"sector"}, x) : s = t
    BY DEF Collection, SectorsOK
  <2>2. OfIn(more, {}, {"sector"}, x) = {} /\ globs \union {} = globs
    BY DEF OfIn
  <2>3. h \notin SectorsOf(x)
    BY <1>3, PlacesOfTables
  <2>4. SectorsOf(x) \ (rest \ {h}) = SectorsOf(x) \ rest
    BY <2>3, Uncovered
  <2>5. OfIn(more, globs, {"sector"}, x) = OfIn(syms, globs, {"sector"}, x)
    BY <1>1 DEF OfIn, Grows
  <2>6. Table(more, globs, {"sector"}, x, SectorsOf(x) \ rest)
    BY <1>1, <2>1, <2>2, TableKept
  <2> QED
    BY <2>1, <2>4, <2>5, <2>6
<1>7. ASSUME NEW s \in DOMAIN secs2, NEW x
      PROVE  /\ Table(more, secs2[s], Values, x, MembersOf(more[s].decl[1], x) \ (rest \ {h}))
             /\ \A t, u \in OfIn(more, secs2[s], Values, x) : t = u
  <2>1. s \in DOMAIN secs /\ secs[s] \subseteq DOMAIN syms /\ more[s] = syms[s]
    BY <1>1, <1>2 DEF Grows
  <2>2. /\ Table(syms, secs[s], Values, x, MembersOf(syms[s].decl[1], x) \ rest)
        /\ \A t, u \in OfIn(syms, secs[s], Values, x) : t = u
    BY <2>1 DEF Collection, MembersOK
  <2>3. CASE s = o /\ x = y
    <3>1. OfIn(more, {n}, Values, x) = {n}
      BY <2>3 DEF OfIn
    <3>2. MembersOf(syms[s].decl[1], x) \ (rest \ {h}) = (MembersOf(syms[s].decl[1], x) \ rest) \union {h}
      BY <2>3, Uncovered
    <3>3. Pairs((MembersOf(syms[s].decl[1], x) \ rest) \union {h})
      BY <1>3, PlacesOfTables DEF Pairs
    <3>4. Table(more, secs[s] \union {n}, Values, x, (MembersOf(syms[s].decl[1], x) \ rest) \union {h})
      BY <2>1, <2>2, <3>1, <3>3, TableAdded
    <3>5. OfIn(more, secs[s] \union {n}, Values, x) = OfIn(syms, secs[s], Values, x) \union {n}
      BY <2>1, <3>1 DEF OfIn, Grows
    <3>6. OfIn(syms, secs[s], Values, x) = {} /\ secs2[s] = secs[s] \union {n}
      BY <2>3, <1>2
    <3>7. Table(more, secs2[s], Values, x, MembersOf(syms[s].decl[1], x) \ (rest \ {h}))
      BY <3>2, <3>4, <3>6
    <3>8. \A t, u \in OfIn(more, secs2[s], Values, x) : t = u
      BY <3>5, <3>6
    <3> QED
      BY <2>1, <3>7, <3>8
  <2>4. CASE ~ (s = o /\ x = y)
    <3> DEFINE new == IF s = o THEN {n} ELSE {}
    <3>1. OfIn(more, new, Values, x) = {} /\ secs2[s] = secs[s] \union new
      BY <2>4, <1>2 DEF OfIn
    <3>2. h \notin MembersOf(syms[s].decl[1], x)
      <4>1. CASE x # y
        BY <4>1, <1>3 DEF MembersOf, Named
      <4>2. CASE s # o /\ x = y
        <5>1. ASSUME syms[s].decl[1] = h[1] PROVE s = o
          <6>1. PICK z : z = syms[s].name
            OBVIOUS
          <6>2. PICK w : w = syms[o].name
            OBVIOUS
          <6>3. s \in OfIn(syms, globs, {"sector"}, z) /\ o \in OfIn(syms, globs, {"sector"}, w)
            BY <1>1, <2>1, <6>1, <6>2 DEF OfIn
          <6>4. PICK p \in SectorsOf(z) : Denotes(syms[s], p)
            BY <6>3 DEF Collection, SectorsOK, Table
          <6>5. PICK q \in SectorsOf(w) : Denotes(syms[o], q)
            BY <6>3 DEF Collection, SectorsOK, Table
          <6>6. p[1] = h[1] /\ q[1] = h[1] /\ p[2] = 0 /\ q[2] = 0 /\ p = <<p[1], p[2]>> /\ q = <<q[1], q[2]>>
            BY <5>1, <6>4, <6>5, PlacesOfTables DEF Denotes, Pairs
          <6>7. p = q /\ h[1] # 0
            BY <6>6, <1>3, PlaceFacts2 DEF PlaceOK
          <6>8. z = w
            BY <6>4, <6>5, <6>6, <6>7 DEF SectorsOf, Named
          <6> QED
            BY <6>3, <6>8 DEF Collection, SectorsOK
        <5> QED
          BY <4>2, <5>1 DEF MembersOf
      <4> QED
        BY <2>4, <4>1, <4>2
    <3>3. MembersOf(syms[s].decl[1], x) \ (rest \ {h}) = MembersOf(syms[s].decl[1], x) \ rest
      BY <3>2, Uncovered
    <3>4. Table(more, secs[s] \union new, Values, x, MembersOf(syms[s].decl[1], x) \ rest)
      BY <2>1, <2>2, <3>1, TableKept
    <3>5. OfIn(more, secs[s] \union new, Values, x) = OfIn(syms, secs[s], Values, x)
      <4> HIDE DEF new
      <4> QED
        BY <2>1, <3>1 DEF OfIn, Grows
    <3> HIDE DEF new
    <3> QED
      BY <2>1, <2>2, <3>1, <3>3, <3>4, <3>5
  <2> QED
    BY <2>3, <2>4
<1> QED
  BY <1>4, <1>5, <1>6, <1>7 DEF Collection, GlobalsOK, SectorsOK, MembersOK, secs2

-----------------------------------------------------------------------------
(* The tables while the program stays the same.                              *)

\* The text is the same before and after.
SameProgram == items' = items /\ project' = project

\* Neither of the passes changes what the program says.
LEMMA SameText ==
  ASSUME SameProgram
  PROVE  /\ \A p : Item(p)' = Item(p) /\ FileOf(p)' = FileOf(p)
         /\ Everywhere' = Everywhere /\ CollectOrder' = CollectOrder /\ HasMain' = HasMain /\ HasTopOn' = HasTopOn
         /\ \A n : IsMain(n)' = IsMain(n)
         /\ DiscardNames' = DiscardNames
         /\ \A p : Body(p)' = Body(p) /\ Binds(p)' = Binds(p)
         /\ \A kind, x : Discarded(kind, x)' = Discarded(kind, x)
         /\ ProgramOK' = ProgramOK
<1>1. \A p : Item(p)' = Item(p) /\ FileOf(p)' = FileOf(p)
  BY DEF SameProgram, Item, FileOf, P
<1>2. \A n : IsMain(n)' = IsMain(n)
  BY DEF SameProgram, IsMain
<1>3. Everywhere' = Everywhere
  BY DEF SameProgram, Everywhere, Inside
<1>4. HasMain' = HasMain /\ HasTopOn' = HasTopOn
  BY DEF SameProgram, HasMain, IsMain, HasTopOn
<1>5. CollectOrder' = CollectOrder
  BY <1>3, <1>4 DEF CollectOrder
<1>6. DiscardNames' = DiscardNames
  BY DEF SameProgram, DiscardNames, P
<1>7. \A kind, x : Discarded(kind, x)' = Discarded(kind, x)
  BY <1>6 DEF Discarded
<1>8. \A p : Body(p)' = Body(p) /\ Binds(p)' = Binds(p)
  BY <1>3, <1>6 DEF SameProgram, Body, Item, Binds, Discarded
<1>9. ProgramOK' = ProgramOK
  BY DEF SameProgram, ProgramOK, ProjectOK, ItemsInv, ProgramItem, OwnOf, Files, P, UsesIn
<1> QED
  BY <1>1, <1>2, <1>3, <1>4, <1>5, <1>6, <1>7, <1>8, <1>9

\* The names of a program are the same while its text is.
LEMMA SameTables ==
  ASSUME SameProgram
  PROVE  /\ \A x : /\ ValuesOf(x)' = ValuesOf(x) /\ SumsOf(x)' = SumsOf(x) /\ Global(x)' = Global(x) /\ SectorsOf(x)' = SectorsOf(x)
         /\ \A n, x : MembersOf(n, x)' = MembersOf(n, x)
<1>1. \A p : Item(p)' = Item(p) /\ Binds(p)' = Binds(p)
  BY SameText
<1>2. Everywhere' = Everywhere
  BY SameText
<1>3. \A ks : Kinds(ks)' = Kinds(ks)
  BY <1>2 DEF SameProgram, Kinds, Item
<1>4. \A ks, x : Named(ks, x)' = Named(ks, x)
  BY <1>3 DEF SameProgram, Named, Item
<1>5. DiscardNames' = DiscardNames
  BY SameText
<1>6. ASSUME NEW x PROVE ValuesOf(x)' = ValuesOf(x) /\ SumsOf(x)' = SumsOf(x)
  BY <1>3, <1>4, <1>5 DEF SameProgram, ValuesOf, SumsOf, Item, Binds, Discarded
<1>7. ASSUME NEW x PROVE Global(x)' = Global(x)
  BY <1>3, <1>4, <1>5 DEF SameProgram, Global, Item, Binds, Discarded
<1>10. ASSUME NEW x PROVE SectorsOf(x)' = SectorsOf(x)
  <2>1. HasMain' = HasMain /\ HasTopOn' = HasTopOn
    BY SameText
  <2> QED
    BY <2>1, <1>4 DEF SectorsOf
<1>11. ASSUME NEW n, NEW x PROVE MembersOf(n, x)' = MembersOf(n, x)
  BY <1>4, <1>5 DEF SameProgram, MembersOf, Item, Binds, Discarded
<1> QED
  BY <1>6, <1>7, <1>10, <1>11

\* The tables of a state, in words of that state and the program.
LEMMA SameCollection ==
  ASSUME SameProgram
  PROVE  /\ Collection(symbols, globals, sectorScope, agenda)' = Collection(symbols', globals', sectorScope', agenda')
         /\ Collection(symbols, globals, sectorScope, {})' = Collection(symbols', globals', sectorScope', {})
         /\ AgendaOK(agenda)' = AgendaOK(agenda')
<1>1. \A x : Global(x)' = Global(x) /\ SectorsOf(x)' = SectorsOf(x) /\ ValuesOf(x)' = ValuesOf(x) /\ SumsOf(x)' = SumsOf(x)
  BY SameTables
<1>2. \A n, x : MembersOf(n, x)' = MembersOf(n, x)
  BY SameTables
<1>3. SymbolsOK(symbols, globals, sectorScope)' = SymbolsOK(symbols', globals', sectorScope')
  BY DEF SymbolsOK
<1>4. ASSUME NEW x
      PROVE  /\ Table(symbols, globals, Values, x, Global(x) \ agenda)' = Table(symbols', globals', Values, x, Global(x) \ agenda')
             /\ Table(symbols, globals, Values, x, Global(x) \ {})' = Table(symbols', globals', Values, x, Global(x) \ {})
             /\ Table(symbols, globals, {"sector"}, x, SectorsOf(x) \ agenda)' = Table(symbols', globals', {"sector"}, x, SectorsOf(x) \ agenda')
             /\ Table(symbols, globals, {"sector"}, x, SectorsOf(x) \ {})' = Table(symbols', globals', {"sector"}, x, SectorsOf(x) \ {})
  <2> DEFINE G == Global(x)  T == SectorsOf(x)
  <2>1. G' = G /\ T' = T
    BY <1>1
  <2> HIDE DEF G, T
  <2>2. /\ Table(symbols, globals, Values, x, G \ agenda)' = Table(symbols', globals', Values, x, G \ agenda')
        /\ Table(symbols, globals, Values, x, G \ {})' = Table(symbols', globals', Values, x, G \ {})
    BY <2>1 DEF Table, Denotes, OfIn, SameProgram, FileOf, P
  <2>3. /\ Table(symbols, globals, {"sector"}, x, T \ agenda)' = Table(symbols', globals', {"sector"}, x, T \ agenda')
        /\ Table(symbols, globals, {"sector"}, x, T \ {})' = Table(symbols', globals', {"sector"}, x, T \ {})
    BY <2>1 DEF Table, Denotes, OfIn, SameProgram, FileOf, P
  <2> QED
    BY <2>2, <2>3 DEF G, T
<1>5. /\ GlobalsOK(symbols, globals, agenda)' = GlobalsOK(symbols', globals', agenda') 
      /\ GlobalsOK(symbols, globals, {})' = GlobalsOK(symbols', globals', {})
      /\ SectorsOK(symbols, globals, agenda)' = SectorsOK(symbols', globals', agenda')
      /\ SectorsOK(symbols, globals, {})' = SectorsOK(symbols', globals', {})
  BY <1>1, <1>4 DEF GlobalsOK, SectorsOK, OfIn
<1>6. ASSUME NEW s, NEW x
      PROVE  /\ Table(symbols, sectorScope[s], Values, x, MembersOf(symbols[s].decl[1], x) \ agenda)'
                   = Table(symbols', sectorScope'[s], Values, x, MembersOf(symbols'[s].decl[1], x) \ agenda')
             /\ Table(symbols, sectorScope[s], Values, x, MembersOf(symbols[s].decl[1], x) \ {})'
                   = Table(symbols', sectorScope'[s], Values, x, MembersOf(symbols'[s].decl[1], x) \ {})
  <2> DEFINE M == MembersOf(symbols[s].decl[1], x)
             N == MembersOf(symbols'[s].decl[1], x)
  <2>1. M' = N
    <3>1. \A ks : Kinds(ks)' = Kinds(ks)
      BY SameText DEF SameProgram, Kinds, Item
    <3>2. \A ks : Named(ks, x)' = Named(ks, x)
      BY <3>1 DEF SameProgram, Named, Item
    <3>3. DiscardNames' = DiscardNames
      BY SameText
    <3> QED
      BY <3>2, <3>3 DEF SameProgram, MembersOf, Item, Binds, Discarded
  <2> HIDE DEF M, N
  <2>2. /\ Table(symbols, sectorScope[s], Values, x, M \ agenda)' = Table(symbols', sectorScope'[s], Values, x, N \ agenda')
        /\ Table(symbols, sectorScope[s], Values, x, M \ {})' = Table(symbols', sectorScope'[s], Values, x, N \ {})
    BY <2>1 DEF Table, Denotes, OfIn, SameProgram, FileOf, P
  <2> QED
    BY <2>2 DEF M, N
<1>8. \A s, x : OfIn(symbols, sectorScope[s], Values, x)' = OfIn(symbols', sectorScope'[s], Values, x)
  BY DEF OfIn
<1>9. MembersOK(symbols, sectorScope, agenda)' = MembersOK(symbols', sectorScope', agenda')
  BY <1>6, <1>8 DEF MembersOK
<1>10. MembersOK(symbols, sectorScope, {})' = MembersOK(symbols', sectorScope', {})
  BY <1>6, <1>8 DEF MembersOK
<1>7. AgendaOK(agenda)' = AgendaOK(agenda')
  BY SameText DEF AgendaOK, IsMain, SameProgram
<1> QED
  BY <1>3, <1>5, <1>7, <1>9, <1>10 DEF Collection

\* Collecting begins with the builtin types, and all is still to come.
LEMMA CollectionBegun ==
  ASSUME ProgramOK, NEW int, int.kind = "type"
  PROVE  Collection(<<int>>, {1}, <<>>, CollectOrder) /\ AgendaOK(CollectOrder)
<1> DEFINE syms == <<int>>
<1>1. DOMAIN syms = {1} /\ syms[1] = int /\ syms \in Seq(Range(syms))
  BY DEF Range
<1> HIDE DEF syms
<1>2. DOMAIN <<>> = {} /\ \A s \in {1} : syms[s].kind # "sector"
  BY <1>1
<1>3. SymbolsOK(syms, {1}, <<>>)
  BY <1>1, <1>2 DEF SymbolsOK
<1>4. ASSUME NEW x PROVE OfIn(syms, {1}, Values, x) = {} /\ OfIn(syms, {1}, {"sector"}, x) = {}
  BY <1>1 DEF OfIn, Values
<1>5. ASSUME NEW x PROVE Global(x) \ CollectOrder = {} /\ (ValuesOf(x) \union SumsOf(x)) \ CollectOrder = {} /\ SectorsOf(x) \ CollectOrder = {}
  <2>1. Everywhere \subseteq CollectOrder
    BY DEF CollectOrder
  <2>2. SectorsOf(x) \subseteq CollectOrder
    BY DEF SectorsOf, CollectOrder, Named, Kinds
  <2> QED
    BY <2>1, <2>2, PlacesOfTables
<1>6. GlobalsOK(syms, {1}, CollectOrder) /\ SectorsOK(syms, {1}, CollectOrder)
  BY <1>4, <1>5 DEF GlobalsOK, SectorsOK, Table
<1>7. MembersOK(syms, <<>>, CollectOrder)
  BY <1>2 DEF MembersOK
<1>8. AgendaOK(CollectOrder)
  BY DEF AgendaOK, CollectOrder
<1> QED
  BY <1>3, <1>6, <1>7, <1>8 DEF Collection, syms

\* At the end nothing is still to come.
LEMMA CollectionWhole ==
  ASSUME NEW syms, NEW globs, NEW secs, NEW rest, Collection(syms, globs, secs, rest), rest = {}
  PROVE  Collection(syms, globs, secs, {})
OBVIOUS

\* One more symbol.
LEMMA SymbolAdded ==
  ASSUME NEW syms, syms \in Seq(Range(syms)), NEW sym
  PROVE  /\ Grows(syms, Append(syms, sym)) /\ Append(syms, sym) \in Seq(Range(Append(syms, sym)))
         /\ Len(syms) + 1 \notin DOMAIN syms /\ DOMAIN Append(syms, sym) = DOMAIN syms \union {Len(syms) + 1}
         /\ Append(syms, sym)[Len(syms) + 1] = sym
<1> DEFINE more == Append(syms, sym)
<1>1. Len(syms) \in Nat /\ DOMAIN syms = 1..Len(syms)
  OBVIOUS
<1>2. syms \in Seq(Range(syms) \union {sym}) /\ sym \in Range(syms) \union {sym}
  OBVIOUS
<1>3. Len(more) = Len(syms) + 1 /\ DOMAIN more = 1..(Len(syms) + 1) /\ more[Len(syms) + 1] = sym /\ \A s \in 1..Len(syms) : more[s] = syms[s]
  BY <1>2
<1>7. more \in Seq(Range(syms) \union {sym})
  BY <1>2
<1> HIDE DEF more
<1>4. more = [s \in 1..(Len(syms) + 1) |-> more[s]]
  BY <1>3, <1>7
<1>5. \A s \in 1..(Len(syms) + 1) : more[s] \in Range(more)
  BY <1>3 DEF Range
<1>6. more \in Seq(Range(more))
  BY <1>1, <1>4, <1>5
<1> QED
  BY <1>1, <1>3, <1>6 DEF Grows, more

\* Several more symbols.
LEMMA SymbolsAdded ==
  ASSUME NEW syms, syms \in Seq(Range(syms)), NEW ext, ext \in Seq(Range(ext))
  PROVE  /\ Grows(syms, syms \o ext) /\ syms \o ext \in Seq(Range(syms \o ext))
         /\ DOMAIN (syms \o ext) = 1..(Len(syms) + Len(ext)) /\ DOMAIN syms = 1..Len(syms) /\ Len(syms) \in Nat /\ Len(ext) \in Nat
         /\ \A k \in DOMAIN ext : (syms \o ext)[Len(syms) + k] = ext[k]
<1> DEFINE more == syms \o ext
<1>1. Len(syms) \in Nat /\ DOMAIN syms = 1..Len(syms) /\ Len(ext) \in Nat /\ DOMAIN ext = 1..Len(ext)
  OBVIOUS
<1>2. syms \in Seq(Range(syms) \union Range(ext)) /\ ext \in Seq(Range(syms) \union Range(ext))
  OBVIOUS
<1>3. more \in Seq(Range(syms) \union Range(ext)) /\ Len(more) = Len(syms) + Len(ext)
  BY <1>2
<1>4. /\ \A s \in 1..Len(syms) : more[s] = syms[s]
      /\ \A k \in 1..Len(ext) : more[Len(syms) + k] = ext[k]
  BY <1>1, <1>2
<1> HIDE DEF more
<1>5. DOMAIN more = 1..(Len(syms) + Len(ext))
  BY <1>3
<1>6. more = [s \in 1..(Len(syms) + Len(ext)) |-> more[s]]
  BY <1>3
<1>7. \A s \in 1..(Len(syms) + Len(ext)) : more[s] \in Range(more)
  BY <1>5 DEF Range
<1>8. more \in Seq(Range(more))
  BY <1>1, <1>6, <1>7
<1> QED
  BY <1>1, <1>4, <1>5, <1>8 DEF Grows, more

\* A finite set in some order: each of its members once.
LEMMA SetInOrder ==
  ASSUME NEW S, IsFiniteSet(S)
  PROVE  /\ SetToSeq(S) \in Seq(S) /\ Len(SetToSeq(S)) \in Nat
         /\ \A j, k \in DOMAIN SetToSeq(S) : SetToSeq(S)[j] = SetToSeq(S)[k] => j = k
         /\ \A x \in S : \E k \in DOMAIN SetToSeq(S) : SetToSeq(S)[k] = x
<1> DEFINE m == Cardinality(S)
           f == SetToSeq(S)
<1>1. m \in Nat /\ ExistsBijection(1..m, S)
  BY FS_CardinalityType
<1> HIDE DEF m
<1>2. \E g \in [1..m -> S] : IsInjective(g)
  BY <1>1 DEF ExistsBijection, Bijection, Injection
<1>3. f \in [1..m -> S] /\ IsInjective(f)
  BY <1>2 DEF SetToSeq, m
<1> HIDE DEF f
<1>4. IsFiniteSet(1..m) /\ Cardinality(1..m) = m
  BY <1>1, FS_Interval
<1>5. f \in Surjection(1..m, S)
  <2>1. f \in Injection(1..m, S)
    BY <1>3 DEF Injection
  <2> QED
    BY <2>1, <1>4, FS_Injection DEF m
<1>6. f \in Seq(S) /\ Len(f) \in Nat /\ DOMAIN f = 1..m
  BY <1>1, <1>3
<1> QED
  BY <1>3, <1>5, <1>6 DEF IsInjective, Surjection, f

\* A declaration of the text, when it is its turn.
CollectOK == ProgramOK /\ at = "collecting" /\ AgendaOK(agenda) /\ Collection(symbols, globals, sectorScope, agenda)

\* The declaration whose turn it is.
LEMMA TurnFacts ==
  ASSUME CollectOK, NEW kinds, Collecting(kinds)
  PROVE  /\ Here \in Everywhere /\ Here \in agenda /\ AgendaOK(agenda \ {Here}) /\ PlaceOK(Here) /\ Decl = Item(Here)
         /\ Decl.kind \in kinds /\ Here = <<Here[1], Here[2]>> /\ Here[1] \in Nat \ {0} /\ Here[2] \in Nat
         /\ ~ IsMain(Here[1]) => \A q \in agenda : Here[1] <= q[1]
         /\ Here[2] > 0 => <<Here[1], 0>> \in Everywhere \ agenda
         /\ Here[2] > 0 => Decl.kind \in {"var", "need", "fn", "on"}
<1>1. Here \in agenda /\ AgendaOK(agenda \ {Here}) /\ (Here[1] > 0 /\ ~ IsMain(Here[1]) => \A q \in agenda : Here[1] <= q[1]) /\ (Here[2] > 0 => <<Here[1], 0>> \notin agenda)
  BY HereFacts DEF CollectOK, Collecting
<1>2. Here \in Everywhere
  BY <1>1 DEF CollectOK, AgendaOK, CollectOrder, Collecting
<1>3. PlaceOK(Here)
  BY <1>2, PlaceFacts2 DEF CollectOK
<1> QED
  BY <1>1, <1>2, <1>3 DEF PlaceOK, Decl, Collecting

\* A handler or a pattern declares no name.
LEMMA CollectHandlerKeeps ==
  ASSUME CollectOK, CollectHandler \/ CollectOther
  PROVE  Collection(symbols', globals', sectorScope', agenda')
<1>1. Collecting({"on", "pattern"}) /\ agenda' = agenda \ {Here} /\ globals' = globals /\ sectorScope' = sectorScope
  BY DEF CollectHandler, CollectOther, Collecting, Collected
<1>2. symbols \in Seq(Range(symbols))
  BY DEF CollectOK, Collection, SymbolsOK
<1>3. Grows(symbols, symbols') /\ symbols' \in Seq(Range(symbols'))
  <2>1. CASE CollectHandler
    BY <2>1, <1>2, SymbolAdded DEF CollectHandler
  <2>2. CASE CollectOther
    BY <2>2, <1>2 DEF CollectOther, Grows
  <2> QED
    BY <2>1, <2>2
<1>4. Here \in agenda /\ Here \in Everywhere /\ Item(Here).kind \in {"on", "pattern"} /\ Here # <<0, 0>>
  BY <1>1, TurnFacts DEF Collecting
<1>5. \A x : /\ Here \notin SectorsOf(x) /\ Here \notin ValuesOf(x) \union SumsOf(x) /\ Here \notin Global(x)
             /\ \A n : Here \notin MembersOf(n, x)
  <2> TAKE x
  <2>1. Here \notin SectorsOf(x) /\ Here \notin ValuesOf(x) /\ Here \notin SumsOf(x)
    BY <1>4 DEF SectorsOf, ValuesOf, SumsOf, Named, Kinds, Members
  <2>2. \A n : Here \notin MembersOf(n, x)
    BY <1>4 DEF MembersOf, Named, Kinds, Members
  <2>3. Here \notin Global(x)
    BY <2>1, PlacesOfTables DEF CollectOK
  <2> QED
    BY <2>1, <2>2, <2>3
<1>6. \A x : OfIn(symbols', {}, Values, x) = {}
  BY DEF OfIn
<1>7. Collection(symbols', globals \union {}, sectorScope, agenda \ {Here})
  BY <1>3, <1>4, <1>5, <1>6, CollectionWidened DEF CollectOK
<1> QED
  BY <1>1, <1>7

\* The main sector is made, if there is none.
LEMMA CollectMainKeeps ==
  ASSUME CollectOK, CollectMain
  PROVE  Collection(symbols', globals', sectorScope', agenda')
<1>1. Here = <<0, 0>> /\ agenda' = agenda \ {Here} /\ Here \in agenda
  BY HereFacts DEF CollectOK, CollectMain, Collected
<1>2. Here \notin Everywhere /\ HasTopOn /\ ~ HasMain
  <2>1. Here \notin Everywhere
    BY <1>1, PlaceFacts2 DEF PlaceOK, CollectOK
  <2> QED
    BY <1>1, <2>1 DEF CollectOK, AgendaOK, CollectOrder
<1>3. Here \in SectorsOf("main")
  BY <1>1, <1>2 DEF SectorsOf
<1>4. symbols \in Seq(Range(symbols))
  BY DEF CollectOK, Collection, SymbolsOK
<1> DEFINE sym == Sym("sector", "main", Here, 0, 0, 0)
<1>5. /\ symbols' = Append(symbols, sym) /\ globals' = globals \union {Len(symbols) + 1}
      /\ sectorScope' = Adding(sectorScope, Len(symbols) + 1, {})
  BY DEF CollectMain, NextId
<1>6. sym.kind = "sector" /\ sym.name = "main" /\ Denotes(sym, Here)
  BY DEF Sym, Denotes
<1> HIDE DEF sym
<1>7. /\ Grows(symbols, symbols') /\ symbols' \in Seq(Range(symbols')) /\ Len(symbols) + 1 \in DOMAIN symbols'
      /\ Len(symbols) + 1 \notin DOMAIN symbols /\ symbols'[Len(symbols) + 1] = sym
  BY <1>4, <1>5, SymbolAdded
<1>8. OfIn(symbols, globals, {"sector"}, "main") = {}
  <2> SUFFICES ASSUME NEW s \in OfIn(symbols, globals, {"sector"}, "main") PROVE FALSE
    OBVIOUS
  <2>1. PICK p \in SectorsOf("main") \ agenda : Denotes(symbols[s], p)
    BY DEF CollectOK, Collection, SectorsOK, Table
  <2>2. p # <<0, 0>> /\ p \in Named({"sector"}, "main")
    BY <2>1, <1>1 DEF SectorsOf
  <2>3. p \in Everywhere /\ Item(p).kind = "sector" /\ Item(p).name = "main" /\ p[2] = 0
    BY <2>1, <2>2, PlacesOfTables DEF Named, Kinds, CollectOK
  <2>4. IsMain(p[1]) /\ p[1] \in DOMAIN items
    BY <2>3, PlaceFacts2 DEF IsMain, PlaceOK, CollectOK, Everywhere
  <2> QED
    BY <2>4, <1>2 DEF HasMain
<1>9. \A x : MembersOf(Here[1], x) \subseteq agenda \ {Here}
  BY <1>1, PlaceFacts2, PlacesOfTables DEF MembersOf, PlaceOK, CollectOK
<1> QED
  BY <1>1, <1>3, <1>5, <1>6, <1>7, <1>8, <1>9, CollectionSector DEF CollectOK

\* What collecting a type does, in words of the state.
LEMMA CollectTypeSays ==
  ASSUME CollectType, Collected
  PROVE  /\ Collecting({"type"}) /\ agenda' = agenda \ {Here} /\ sectorScope' = sectorScope
         /\ symbols' = Append(symbols, Sym("type", Decl.name, Here, 0, 0, 0))
                       \o [k \in DOMAIN SetToSeq({c \in Range(Decl.ctors) : Of(globals, Values, c) = {}}) |->
                             Sym("ctor", SetToSeq({c \in Range(Decl.ctors) : Of(globals, Values, c) = {}})[k], Here, NextId, 0, 0)]
         /\ globals' = globals \union (NextId..(NextId + Len(SetToSeq({c \in Range(Decl.ctors) : Of(globals, Values, c) = {}}))))
<1>1. Collecting({"type"})
  BY Zenon DEF CollectType
<1>2. ~ Reject("duplicate type")
  BY <1>1 DEF Reject, Collected, Collecting
<1>3. agenda' = agenda \ {Here}
  BY DEF Collected
<1> QED
  BY <1>1, <1>2, <1>3, Zenon DEF CollectType

\* A type and those of its constructors whose names are free.
LEMMA CollectTypeKeeps ==
  ASSUME CollectOK, CollectType, Collected
  PROVE  Collection(symbols', globals', sectorScope', agenda')
<1> DEFINE C == {c \in Range(Decl.ctors) : Of(globals, Values, c) = {}}
           ctors == SetToSeq(C)
           N == Len(symbols)
           ty == Sym("type", Decl.name, Here, 0, 0, 0)
           ctor(k) == Sym("ctor", ctors[k], Here, N + 1, 0, 0)
           ext == [k \in DOMAIN ctors |-> ctor(k)]
           new == (N + 1)..(N + 1 + Len(ctors))
<1>1. Collecting({"type"}) /\ agenda' = agenda \ {Here}
  BY CollectTypeSays
<1>2. symbols' = Append(symbols, ty) \o ext /\ globals' = globals \union new /\ sectorScope' = sectorScope
  BY CollectTypeSays, Zenon DEF NextId
<1>3. /\ Here \in agenda /\ Here \in Everywhere /\ Item(Here).kind = "type" /\ Decl = Item(Here) /\ PlaceOK(Here)
      /\ Here # <<0, 0>> /\ Here = <<Here[1], Here[2]>> /\ Here[1] \in Nat \ {0} /\ Here[2] \in Nat
      /\ ~ IsMain(Here[1]) => \A q \in agenda : Here[1] <= q[1]
  BY <1>1, TurnFacts DEF Collecting
<1>4. Here[2] = 0 /\ \A q \in agenda : Here[1] <= q[1]
  <2>1. Here[2] = 0
    BY <1>1, <1>3, TurnFacts
  <2>2. ~ IsMain(Here[1])
    BY <1>3, <2>1 DEF PlaceOK, IsMain
  <2> QED
    BY <1>3, <2>1, <2>2
<1>5. IsFiniteSet(C)
  <2>1. Decl.ctors \in Seq(Range(Decl.ctors))
    BY <1>3 DEF PlaceOK, ParsedItem
  <2> DEFINE cs == Decl.ctors
  <2>2. IsFiniteSet(1..Len(cs)) /\ Len(cs) \in Nat /\ DOMAIN cs = 1..Len(cs)
    BY <2>1, FS_Interval
  <2>3. cs \in Surjection(1..Len(cs), Range(cs))
    BY <2>1, <2>2 DEF Surjection, Range
  <2>4. IsFiniteSet(Range(cs))
    BY <2>2, <2>3, FS_Surjection
  <2> QED
    BY <2>4, FS_Subset
<1> HIDE DEF C
<1>6. /\ ctors \in Seq(C) /\ Len(ctors) \in Nat
      /\ \A j, k \in DOMAIN ctors : ctors[j] = ctors[k] => j = k
      /\ \A x \in C : \E k \in DOMAIN ctors : ctors[k] = x
  BY <1>5, SetInOrder
<1> HIDE DEF ctors
<1>7. DOMAIN ctors = 1..Len(ctors) /\ \A k \in DOMAIN ctors : ctors[k] \in C
  BY <1>6
<1>8. /\ ty.kind = "type"
      /\ \A k : ctor(k).kind = "ctor" /\ ctor(k).name = ctors[k] /\ Denotes(ctor(k), Here)
  BY DEF Sym, Denotes
<1> HIDE DEF ty, ctor
<1>9. symbols \in Seq(Range(symbols)) /\ N \in Nat /\ DOMAIN symbols = 1..N
  BY DEF CollectOK, Collection, SymbolsOK
<1>10. ext \in Seq(Range(ext)) /\ Len(ext) = Len(ctors) /\ DOMAIN ext = 1..Len(ctors) /\ \A k \in 1..Len(ctors) : ext[k] = ctor(k)
  <2>1. DOMAIN ext = 1..Len(ctors) /\ \A k \in 1..Len(ctors) : ext[k] = ctor(k)
    BY <1>7
  <2>2. \A k \in 1..Len(ctors) : ext[k] \in Range(ext)
    BY <2>1 DEF Range
  <2>3. ext = [k \in 1..Len(ctors) |-> ext[k]]
    BY <1>7
  <2> HIDE DEF ext
  <2> QED
    BY <2>1, <2>2, <2>3, <1>6
<1> HIDE DEF ext
<1> DEFINE one == Append(symbols, ty)
<1>11. Grows(symbols, one) /\ one \in Seq(Range(one)) /\ Len(one) = N + 1 /\ one[N + 1] = ty /\ DOMAIN one = 1..(N + 1)
  <2>1. Grows(symbols, one) /\ one \in Seq(Range(one)) /\ one[N + 1] = ty
    BY <1>9, SymbolAdded
  <2>2. Len(one) = N + 1
    <3>1. symbols \in Seq(Range(symbols) \union {ty})
      BY <1>9
    <3> QED
      BY <3>1
  <2> HIDE DEF one
  <2> QED
    BY <2>1, <2>2
<1> HIDE DEF one
<1>12. /\ Grows(one, symbols') /\ symbols' \in Seq(Range(symbols')) /\ DOMAIN symbols' = 1..(N + 1 + Len(ctors))
       /\ \A k \in 1..Len(ctors) : symbols'[N + 1 + k] = ctor(k)
  <2>1. symbols' = one \o ext
    BY <1>2 DEF one
  <2> HIDE DEF N
  <2>2. /\ Grows(one, one \o ext) /\ one \o ext \in Seq(Range(one \o ext)) /\ DOMAIN (one \o ext) = 1..(Len(one) + Len(ext))
        /\ \A k \in DOMAIN ext : (one \o ext)[Len(one) + k] = ext[k]
    <3>1. one \in Seq(Range(one)) /\ ext \in Seq(Range(ext))
      BY <1>10, <1>11
    <3> QED
      BY <3>1, SymbolsAdded, Zenon
  <2>3. DOMAIN symbols' = 1..(N + 1 + Len(ctors))
    BY <2>1, <2>2, <1>10, <1>11
  <2>4. \A k \in 1..Len(ctors) : symbols'[N + 1 + k] = ctor(k)
    BY <2>1, <2>2, <1>10, <1>11
  <2> QED
    BY <2>1, <2>2, <2>3, <2>4
<1> HIDE DEF N
<1>13. Grows(symbols, symbols') /\ symbols'[N + 1] = ty
  BY <1>9, <1>11, <1>12 DEF Grows
<1>14. \A n \in new : n = N + 1 \/ \E k \in 1..Len(ctors) : n = N + 1 + k
  <2> TAKE n \in new
  <2>1. CASE n # N + 1
    <3>1. n - (N + 1) \in 1..Len(ctors) /\ n = N + 1 + (n - (N + 1))
      BY <2>1, <1>6, <1>9
    <3> QED
      BY <3>1
  <2> QED
    BY <2>1
<1>15. new \subseteq DOMAIN symbols' /\ \A n \in new : symbols'[n].kind # "sector"
  <2>1. new \subseteq DOMAIN symbols'
    BY <1>6, <1>9, <1>12
  <2> HIDE DEF new
  <2> QED
    BY <2>1, <1>8, <1>12, <1>13, <1>14
<1>16. \A x : Here \notin SectorsOf(x) /\ \A n : Here \notin MembersOf(n, x)
  BY <1>3, <1>4 DEF SectorsOf, MembersOf, Named, Kinds
<1>17. ASSUME NEW x
       PROVE  \/ /\ OfIn(symbols', new, Values, x) = {} /\ Here \notin Global(x)
                 /\ Here \in ValuesOf(x) \union SumsOf(x) => OfIn(symbols, globals, Values, x) # {}
              \/ \E n : OfIn(symbols', new, Values, x) = {n} /\ Denotes(symbols'[n], Here) /\ Here \in Global(x)
  <2>1. Here \notin ValuesOf(x) /\ (Here \in SumsOf(x) <=> x \in Range(Decl.ctors))
    BY <1>3 DEF ValuesOf, SumsOf, Named, Kinds, Members
  <2>2. Of(globals, Values, x) = OfIn(symbols, globals, Values, x)
    BY DEF Of, OfIn
  <2>3. \A p \in (ValuesOf(x) \union SumsOf(x)) \ agenda : p[1] <= Here[1] /\ p[2] = 0 /\ p[1] \in Nat /\ p = <<p[1], p[2]>>
    <3> TAKE p \in (ValuesOf(x) \union SumsOf(x)) \ agenda
    <3>1. p \in Everywhere \ agenda /\ p[2] = 0 /\ Item(p).kind \in Members \union {"const", "type"} /\ PlaceOK(p)
      BY PlacesOfTables, PlaceFacts2 DEF CollectOK
    <3>2. ~ IsMain(p[1])
      BY <3>1 DEF PlaceOK, IsMain, Members
    <3> QED
      BY <3>1, <3>2, <1>3 DEF CollectOK, AgendaOK, PlaceOK
  <2>4. CASE x \notin C
    <3>1. OfIn(symbols', new, Values, x) = {}
      <4> HIDE DEF new
      <4> QED
        BY <2>4, <1>7, <1>8, <1>12, <1>13, <1>14 DEF OfIn, Values
    <3>2. Here \in SumsOf(x) => OfIn(symbols, globals, Values, x) # {}
      BY <2>1, <2>2, <2>4 DEF C
    <3>3. Here \notin Global(x)
      <4> SUFFICES ASSUME Here \in Global(x) PROVE FALSE
        OBVIOUS
      <4>1. Here \in SumsOf(x) /\ \A q \in ValuesOf(x) \union SumsOf(x) : q[1] >= Here[1]
        BY <2>1 DEF Global, ValuesOf, SumsOf
      <4>2. PICK s \in OfIn(symbols, globals, Values, x) : TRUE
        BY <4>1, <3>2
      <4>3. PICK p \in Global(x) \ agenda : Denotes(symbols[s], p)
        BY <4>2 DEF CollectOK, Collection, GlobalsOK, Table
      <4>4. p \in (ValuesOf(x) \union SumsOf(x)) \ agenda
        BY <4>3, PlacesOfTables DEF CollectOK
      <4>5. p[1] = Here[1] /\ p[2] = 0 /\ p = <<p[1], p[2]>>
        BY <4>1, <4>4, <2>3, <1>3
      <4>6. p = Here
        BY <4>5, <1>3, <1>4
      <4> QED
        BY <4>3, <4>6, <1>3
    <3> QED
      BY <2>1, <3>1, <3>2, <3>3
  <2>5. CASE x \in C
    <3>1. PICK k \in 1..Len(ctors) : ctors[k] = x
      BY <2>5, <1>6, <1>7
    <3>2. N + 1 + k \in new
      BY <3>1, <1>6, <1>9
    <3>3. OfIn(symbols', new, Values, x) = {N + 1 + k}
      <4> HIDE DEF new
      <4>1. N + 1 + k \in OfIn(symbols', new, Values, x)
        BY <3>1, <3>2, <1>8, <1>12 DEF OfIn, Values
      <4>2. ASSUME NEW n \in OfIn(symbols', new, Values, x) PROVE n = N + 1 + k
        <5>1. n \in new /\ symbols'[n].kind \in Values /\ symbols'[n].name = x
          BY DEF OfIn
        <5>2. n # N + 1
          BY <5>1, <1>8, <1>13 DEF Values
        <5>3. PICK j \in 1..Len(ctors) : n = N + 1 + j
          BY <5>1, <5>2, <1>14
        <5>4. ctors[j] = x
          BY <5>1, <5>3, <1>8, <1>12
        <5>5. j = k
          BY <5>4, <3>1, <1>6, <1>7
        <5> QED
          BY <5>3, <5>5
      <4> QED
        BY <4>1, <4>2
    <3>4. Denotes(symbols'[N + 1 + k], Here)
      BY <3>1, <1>8, <1>12
    <3>5. Here \in SumsOf(x) /\ OfIn(symbols, globals, Values, x) = {}
      BY <2>1, <2>2, <2>5 DEF C
    <3>6. ASSUME NEW q \in ValuesOf(x) \union SumsOf(x) PROVE q[1] >= Here[1]
      <4>1. q \in agenda
        BY <3>5 DEF CollectOK, Collection, GlobalsOK
      <4>2. q[1] \in Nat
        BY PlacesOfTables, PlaceFacts2 DEF CollectOK, PlaceOK
      <4> QED
        BY <4>1, <4>2, <1>3, <1>4
    <3>7. Here \in Global(x)
      BY <3>5, <3>6 DEF Global, ValuesOf, SumsOf
    <3> QED
      BY <3>3, <3>4, <3>7
  <2> QED
    BY <2>4, <2>5
<1> HIDE DEF new
<1>18. Collection(symbols', globals \union new, sectorScope, agenda \ {Here})
  BY <1>3, <1>12, <1>13, <1>15, <1>16, <1>17, CollectionWidened DEF CollectOK
<1> QED
  BY <1>1, <1>2, <1>18

\* A sector, whose members are still to come, or a mixin.
LEMMA CollectNamedKeeps ==
  ASSUME CollectOK, CollectNamed, Collected
  PROVE  Collection(symbols', globals', sectorScope', agenda')
<1> DEFINE n == Len(symbols) + 1
           sym == Sym(Decl.kind, Decl.name, Here, 0, 0, 0)
<1>1. Collecting({"sector", "mixin"}) /\ agenda' = agenda \ {Here} /\ at = "collecting" /\ at' = at
  <2>1. Collecting({"sector", "mixin"})
    BY Zenon DEF CollectNamed
  <2> QED
    BY <2>1 DEF Collected, Collecting
<1>2. Of(globals, {Decl.kind}, Decl.name) = {} /\ symbols' = Append(symbols, sym) /\ globals' = globals \union {n}
      /\ sectorScope' = IF Decl.kind = "sector" THEN Adding(sectorScope, n, {}) ELSE sectorScope
  BY <1>1 DEF CollectNamed, NextId, Reject
<1>3. /\ Here \in agenda /\ Here \in Everywhere /\ Item(Here).kind \in {"sector", "mixin"} /\ Decl = Item(Here) /\ PlaceOK(Here)
      /\ Here # <<0, 0>> /\ Here = <<Here[1], Here[2]>> /\ Here[2] = 0
  <2>1. Here # <<0, 0>> /\ Decl.kind \in {"sector", "mixin"}
    BY <1>1 DEF Collecting
  <2>2. /\ Here \in agenda /\ Here \in Everywhere /\ Decl = Item(Here) /\ PlaceOK(Here)
        /\ Here = <<Here[1], Here[2]>> /\ Here[2] \in Nat
        /\ Here[2] > 0 => Decl.kind \in {"var", "need", "fn", "on"}
    BY <1>1, TurnFacts
  <2> QED
    BY <2>1, <2>2
<1>4. sym.kind = Decl.kind /\ sym.name = Decl.name /\ Denotes(sym, Here)
  BY DEF Sym, Denotes
<1> HIDE DEF sym
<1>5. symbols \in Seq(Range(symbols))
  BY DEF CollectOK, Collection, SymbolsOK
<1>6. /\ Grows(symbols, symbols') /\ symbols' \in Seq(Range(symbols')) /\ n \in DOMAIN symbols' /\ n \notin DOMAIN symbols /\ symbols'[n] = sym
  BY <1>2, <1>5, SymbolAdded
<1> HIDE DEF n
<1>7. CASE Decl.kind = "sector"
  <2>1. Here \in SectorsOf(Decl.name)
    BY <1>3, <1>7 DEF SectorsOf, Named, Kinds
  <2>2. OfIn(symbols, globals, {"sector"}, Decl.name) = {}
    BY <1>2, <1>7 DEF Of, OfIn
  <2>3. ASSUME NEW x PROVE MembersOf(Here[1], x) \subseteq agenda \ {Here}
    <3> SUFFICES ASSUME NEW q \in MembersOf(Here[1], x) PROVE q \in agenda \ {Here}
      OBVIOUS
    <3>1. q \in Everywhere /\ q[1] = Here[1] /\ q[2] > 0
      BY PlacesOfTables DEF MembersOf, CollectOK
    <3>2. <<q[1], 0>> \in agenda
      BY <3>1, <1>3
    <3> QED
      BY <3>1, <3>2, <1>3 DEF CollectOK, AgendaOK
  <2>4. symbols'[n].kind = "sector" /\ symbols'[n].name = Decl.name /\ Denotes(symbols'[n], Here)
    BY <1>4, <1>6, <1>7
  <2>5. Collection(symbols', globals \union {n}, Adding(sectorScope, n, {}), agenda \ {Here})
    BY <1>3, <1>6, <2>1, <2>2, <2>3, <2>4, CollectionSector DEF CollectOK
  <2> QED
    BY <1>1, <1>2, <1>7, <2>5
<1>8. CASE Decl.kind = "mixin"
  <2>1. \A x : Here \notin SectorsOf(x) /\ \A m : Here \notin MembersOf(m, x)
    BY <1>3, <1>8 DEF SectorsOf, MembersOf, Named, Kinds, Members
  <2>2. \A x : Here \notin ValuesOf(x) \union SumsOf(x) /\ Here \notin Global(x)
    <3>1. \A x : Here \notin ValuesOf(x) \union SumsOf(x)
      BY <1>3, <1>8 DEF ValuesOf, SumsOf, Named, Kinds, Members
    <3> QED
      BY <3>1, PlacesOfTables DEF CollectOK
  <2>3. \A x : OfIn(symbols', {n}, Values, x) = {}
    BY <1>4, <1>6, <1>8 DEF OfIn, Values
  <2>4. \A m \in {n} : symbols'[m].kind # "sector"
    BY <1>4, <1>6, <1>8
  <2>5. {n} \in SUBSET DOMAIN symbols'
    BY <1>6
  <2>6. Collection(symbols', globals \union {n}, sectorScope, agenda \ {Here})
    BY <1>3, <1>6, <2>1, <2>2, <2>3, <2>4, <2>5, CollectionWidened DEF CollectOK
  <2> QED
    BY <1>1, <1>2, <1>8, <2>6
<1> QED
  BY <1>3, <1>7, <1>8

\* The symbol of the sector around a place that is in one.
LEMMA SectorFacts ==
  ASSUME ProgramOK, NEW rest, Collection(symbols, globals, sectorScope, rest),
         NEW p \in Everywhere, p[2] > 0, <<p[1], 0>> \notin rest
  PROVE  /\ SectorAt(p) # 0 /\ SectorAt(p) \in DOMAIN sectorScope /\ symbols[SectorAt(p)].decl[1] = p[1]
<1> DEFINE nm == items[p[1]].it.name
           sp == <<p[1], 0>>
           S == Sectors(nm)
<1>1. PlaceOK(p)
  BY PlaceFacts2
<1>2. sp \in Everywhere /\ Item(sp).kind = "sector" /\ Item(sp).name = nm
  BY <1>1 DEF PlaceOK, Item
<1>3. sp \in SectorsOf(nm) \ rest
  BY <1>2 DEF SectorsOf, Named, Kinds
<1>4. S = OfIn(symbols, globals, {"sector"}, nm)
  BY DEF Sectors, Of, OfIn
<1> HIDE DEF S, nm
<1>5. PICK s \in OfIn(symbols, globals, {"sector"}, nm) : Denotes(symbols[s], sp)
  BY <1>3 DEF Collection, SectorsOK, Table
<1>6. S = {s}
  <2>1. \A t, u \in OfIn(symbols, globals, {"sector"}, nm) : t = u
    BY DEF Collection, SectorsOK
  <2> QED
    BY <1>4, <1>5, <2>1
<1>7. s \in Nat \ {0} /\ s \in DOMAIN sectorScope
  <2>1. globals \subseteq DOMAIN symbols /\ symbols \in Seq(Range(symbols)) /\ DOMAIN sectorScope = {t \in globals : symbols[t].kind = "sector"}
    BY DEF Collection, SymbolsOK
  <2> QED
    BY <2>1, <1>5 DEF OfIn
<1>8. Min({s}) = s
  BY <1>7, MinOf
<1>9. SectorAt(p) = s
  <2>1. SectorAt(p) = IF S = {} THEN 0 ELSE Min(S)
    BY DEF SectorAt, S, nm
  <2> QED
    BY <2>1, <1>6, <1>8
<1> QED
  BY <1>5, <1>7, <1>9 DEF Denotes

\* A value: outside of every sector it joins the global scope, in a sector the
\* scope of the sector, unless its name binds nothing.
LEMMA CollectValueKeeps ==
  ASSUME CollectOK, CollectValue, Collected
  PROVE  Collection(symbols', globals', sectorScope', agenda')
<1> DEFINE n == Len(symbols) + 1
           y == Decl.name
           o == SectorAt(Here)
           kept == Binds(Here)
           qualifier == IF Decl.sector = None THEN {} ELSE Sectors(Decl.sector)
           sym == Sym(Decl.kind, y, Here, o, IF qualifier = {} THEN 0 ELSE Min(qualifier), 0)
<1>1. Collecting({"fn", "var", "const", "need"}) /\ agenda' = agenda \ {Here} /\ at = "collecting" /\ at' = at
  <2>1. Collecting({"fn", "var", "const", "need"})
    BY Zenon DEF CollectValue
  <2> QED
    BY <2>1 DEF Collected, Collecting
<1>2. /\ Here \in agenda /\ Here \in Everywhere /\ Decl = Item(Here) /\ PlaceOK(Here)
      /\ Decl.kind \in {"fn", "var", "const", "need"} /\ Here # <<0, 0>>
      /\ Here = <<Here[1], Here[2]>> /\ Here[1] \in Nat \ {0} /\ Here[2] \in Nat
      /\ Here[2] > 0 => <<Here[1], 0>> \in Everywhere \ agenda /\ Decl.kind \in {"var", "need", "fn", "on"}
  <2>1. Here # <<0, 0>>
    BY <1>1 DEF Collecting
  <2> QED
    BY <2>1, <1>1, TurnFacts
<1>3. kept = ~ Discarded(Decl.kind, Decl.name)
  BY <1>2 DEF Binds
<1>4. /\ kept => ~ Taken(IF o = 0 THEN globals ELSE sectorScope[o], y, FileOf(Here))
      /\ symbols' = Append(symbols, sym)
      /\ globals' = IF kept /\ o = 0 THEN globals \union {n} ELSE globals
      /\ sectorScope' = IF kept /\ o # 0 THEN [sectorScope EXCEPT ![o] = @ \union {n}] ELSE sectorScope
  BY <1>1, <1>3 DEF CollectValue, NextId, Reject
<1>5. sym.kind = Decl.kind /\ sym.name = Decl.name /\ Denotes(sym, Here)
  BY DEF Sym, Denotes
<1> HIDE DEF sym, kept
<1>6. symbols \in Seq(Range(symbols))
  BY DEF CollectOK, Collection, SymbolsOK
<1>7. /\ Grows(symbols, symbols') /\ symbols' \in Seq(Range(symbols')) /\ n \in DOMAIN symbols' /\ n \notin DOMAIN symbols /\ symbols'[n] = sym
  BY <1>4, <1>6, SymbolAdded
<1> HIDE DEF n
<1>8. \A x : Here \notin SectorsOf(x)
  BY <1>2 DEF SectorsOf, Named, Kinds
<1>9. \A x : Here \notin SumsOf(x)
  BY <1>2 DEF SumsOf, Kinds
<1>10. CASE Here[2] = 0
  <2>1. o = 0
    BY <1>2, <1>10 DEF SectorAt
  <2>2. \A m, x : Here \notin MembersOf(m, x)
    BY <1>10 DEF MembersOf
  <2>3. \A x : Here \in ValuesOf(x) <=> x = y /\ kept
    BY <1>2, <1>10 DEF ValuesOf, Named, Kinds, Members, kept
  <2>4. \A x : (Here \in Global(x) <=> x = y /\ kept) /\ (Here \in ValuesOf(x) \union SumsOf(x) <=> x = y /\ kept)
    <3> TAKE x
    <3>1. Here \in Global(x) => Here \in ValuesOf(x) \union SumsOf(x)
      BY PlacesOfTables DEF CollectOK
    <3>2. Here \in ValuesOf(x) => Here \in Global(x)
      BY DEF ValuesOf, Global
    <3> QED
      BY <3>1, <3>2, <2>3, <1>9
  <2> DEFINE new == IF kept THEN {n} ELSE {}
  <2>5. \A x : OfIn(symbols', new, Values, x) = IF x = y /\ kept THEN {n} ELSE {}
    BY <1>2, <1>5, <1>7 DEF OfIn, Values
  <2>6. Denotes(symbols'[n], Here) /\ symbols'[n].kind # "sector"
    BY <1>2, <1>5, <1>7
  <2>7. new \in SUBSET DOMAIN symbols' /\ \A m \in new : symbols'[m].kind # "sector"
    BY <1>7, <2>6
  <2> HIDE DEF new
  <2>8. \A x : \/ /\ OfIn(symbols', new, Values, x) = {} /\ Here \notin Global(x)
                  /\ Here \in ValuesOf(x) \union SumsOf(x) => OfIn(symbols, globals, Values, x) # {}
               \/ \E m : OfIn(symbols', new, Values, x) = {m} /\ Denotes(symbols'[m], Here) /\ Here \in Global(x)
    <3> TAKE x
    <3>1. CASE x = y /\ kept
      BY <3>1, <2>4, <2>5, <2>6
    <3>2. CASE ~ (x = y /\ kept)
      BY <3>2, <2>4, <2>5
    <3> QED
      BY <3>1, <3>2
  <2>9. Collection(symbols', globals \union new, sectorScope, agenda \ {Here})
    BY <1>2, <1>7, <1>8, <2>2, <2>7, <2>8, CollectionWidened DEF CollectOK
  <2>10. globals' = globals \union new /\ sectorScope' = sectorScope
    BY <1>4, <2>1 DEF new
  <2> QED
    BY <1>1, <2>9, <2>10
<1>11. CASE Here[2] # 0
  <2>1. Here[2] > 0 /\ <<Here[1], 0>> \notin agenda /\ Decl.kind \in {"var", "need", "fn", "on"}
    BY <1>2, <1>11
  <2>2. o # 0 /\ o \in DOMAIN sectorScope /\ symbols[o].decl[1] = Here[1]
    BY <1>2, <2>1, SectorFacts DEF CollectOK
  <2> HIDE DEF o
  <2>3. \A x : /\ Here \in MembersOf(Here[1], x) <=> x = y /\ kept
               /\ Here \notin ValuesOf(x) \union SumsOf(x) /\ Here \notin Global(x)
    <3> TAKE x
    <3>1. Here \in MembersOf(Here[1], x) <=> x = y /\ kept
      BY <1>2, <2>1 DEF MembersOf, Named, Kinds, Members, kept
    <3>2. Here \notin ValuesOf(x) \union SumsOf(x)
      BY <2>1, <1>9, <1>11 DEF ValuesOf
    <3> QED
      BY <3>1, <3>2, PlacesOfTables DEF CollectOK
  <2>4. CASE kept
    <3>1. OfIn(symbols, sectorScope[o], Values, y) = {}
      <4> SUFFICES ASSUME NEW s \in OfIn(symbols, sectorScope[o], Values, y) PROVE FALSE
        OBVIOUS
      <4>1. PICK p \in MembersOf(symbols[o].decl[1], y) : Denotes(symbols[s], p)
        BY <2>2 DEF CollectOK, Collection, MembersOK, Table
      <4>2. p \in Everywhere /\ p[1] = Here[1]
        BY <4>1, <2>2 DEF MembersOf, Named, Kinds
      <4>3. FileOf(p) = FileOf(Here)
        BY <4>2, <1>2, PlaceFacts2 DEF PlaceOK, CollectOK
      <4>4. s \in Of(sectorScope[o], Values, y) /\ symbols[s].file = FileOf(Here)
        BY <4>1, <4>3 DEF Of, OfIn, Denotes
      <4> QED
        BY <4>4, <2>2, <2>4, <1>4 DEF Taken
    <3>2. symbols'[n].kind \in Values /\ symbols'[n].name = y /\ Denotes(symbols'[n], Here)
      BY <1>2, <1>5, <1>7 DEF Values
    <3>3. Here \in MembersOf(Here[1], y)
      BY <2>3, <2>4
    <3> HIDE DEF y
    <3>4. Collection(symbols', globals, [sectorScope EXCEPT ![o] = @ \union {n}], agenda \ {Here})
      BY <1>2, <1>7, <2>2, <3>1, <3>2, <3>3, CollectionMember DEF CollectOK
    <3> QED
      BY <1>1, <1>4, <2>2, <2>4, <3>4
  <2>5. CASE ~ kept
    <3>1. \A m, x : Here \notin MembersOf(m, x)
      <4> TAKE m, x
      <4>1. Here \in MembersOf(m, x) => Here \in MembersOf(Here[1], x)
        BY DEF MembersOf
      <4> QED
        BY <4>1, <2>3, <2>5
    <3>2. \A x : OfIn(symbols', {}, Values, x) = {}
      BY DEF OfIn
    <3>3. Collection(symbols', globals \union {}, sectorScope, agenda \ {Here})
      BY <1>2, <1>7, <1>8, <2>3, <3>1, <3>2, CollectionWidened DEF CollectOK
    <3> QED
      BY <1>1, <1>4, <2>5, <3>3
  <2> QED
    BY <2>4, <2>5
<1> QED
  BY <1>2, <1>10, <1>11

-----------------------------------------------------------------------------
(* The scopes inside of a body.                                              *)

\* Symbols that are in no table change none.
LEMMA CollectionGrown ==
  ASSUME NEW syms, NEW globs, NEW secs, NEW rest, Collection(syms, globs, secs, rest),
         NEW more, Grows(syms, more), more \in Seq(Range(more))
  PROVE  Collection(more, globs, secs, rest)
<1>1. globs \subseteq DOMAIN syms /\ DOMAIN secs = {s \in globs : syms[s].kind = "sector"} /\ \A s \in DOMAIN secs : secs[s] \subseteq DOMAIN syms
  BY DEF Collection, SymbolsOK
<1>2. SymbolsOK(more, globs, secs)
  BY <1>1 DEF SymbolsOK, Grows
<1>3. \A kinds, x : OfIn(more, globs, kinds, x) = OfIn(syms, globs, kinds, x) /\ OfIn(more, {}, kinds, x) = {} /\ globs \union {} = globs
  BY <1>1 DEF OfIn, Grows
<1>4. \A kinds, x, ps : Table(syms, globs, kinds, x, ps) => Table(more, globs, kinds, x, ps)
  BY <1>1, <1>3, TableKept
<1>5. ASSUME NEW s \in DOMAIN secs
      PROVE  /\ more[s] = syms[s]
             /\ \A x : OfIn(more, secs[s], Values, x) = OfIn(syms, secs[s], Values, x)
             /\ \A x, ps : Table(syms, secs[s], Values, x, ps) => Table(more, secs[s], Values, x, ps)
  <2>1. secs[s] \subseteq DOMAIN syms /\ more[s] = syms[s] /\ secs[s] \union {} = secs[s]
    BY <1>1 DEF Grows
  <2>2. \A x : OfIn(more, secs[s], Values, x) = OfIn(syms, secs[s], Values, x)
    BY <2>1 DEF OfIn, Grows
  <2>3. \A x, ps : Table(syms, secs[s], Values, x, ps) => Table(more, secs[s], Values, x, ps)
    BY <1>3, <2>1, TableKept
  <2> QED
    BY <2>1, <2>2, <2>3
<1>6. GlobalsOK(more, globs, rest)
  BY <1>3, <1>4 DEF Collection, GlobalsOK
<1>7. SectorsOK(more, globs, rest)
  BY <1>3, <1>4 DEF Collection, SectorsOK
<1>8. MembersOK(more, secs, rest)
  BY <1>5 DEF Collection, MembersOK
<1> QED
  BY <1>2, <1>6, <1>7, <1>8 DEF Collection

\* How many scopes are open in front of a line.
DepthAt(p, l) ==
  IF l > 1 THEN DepthBehind(Body(p)[l - 1]) ELSE IF p \in Everywhere /\ Item(p).kind \in {"fn", "on"} THEN 1 ELSE 0

\* The lines before l that bind x in the block of depth k, which is still open.
KnownAt(p, l, k, x) ==
  {j \in 1..(l - 1) : x \in BoundBy(Body(p)[j]) /\ Depth(Body(p)[j]) = k /\ \A i \in (j + 1)..(l - 1) : Body(p)[i].d >= k}

\* A scope has one symbol for each line that binds in it; the names in pending
\* are those of the last line that have not been defined yet.
ScopeOK(syms, ids, p, l, k, pending) ==
  /\ ids \subseteq DOMAIN syms
  /\ \A s \in ids : /\ syms[s].kind = "var" /\ syms[s].file = FileOf(p)
                    /\ \E j \in KnownAt(p, l, k, syms[s].name) : syms[s].decl = <<p[1], p[2], j>>
  /\ \A x : \A j \in KnownAt(p, l, k, x) :
        (j = l - 1 /\ x \in pending) \/ \E s \in ids : syms[s].name = x /\ syms[s].decl = <<p[1], p[2], j>>
  /\ \A s, t \in ids : syms[s].name = syms[t].name => s = t

\* The scopes are the open blocks, and each has the names bound in its block so far.
ScopesOK(syms, scs, p, l, pending) ==
  /\ scs \in Seq(Range(scs)) /\ Len(scs) = DepthAt(p, l)
  /\ \A k \in 1..Len(scs) : ScopeOK(syms, scs[k], p, l, k, pending)

\* The lines of a body.
LEMMA LineFacts ==
  ASSUME ProgramOK, NEW p, NEW l \in 1..Len(Body(p))
  PROVE  /\ p \in Everywhere /\ l \in DOMAIN Body(p) /\ Len(Body(p)) \in Nat /\ Body(p) \in Seq(Range(Body(p)))
         /\ Body(p)[l].d \in Nat /\ Body(p)[l].d <= DepthAt(p, l) /\ DepthAt(p, l) \in Nat
         /\ Body(p)[l].form \in {"let", "use", "member", "type", "await", "rpc", "block", "for", "arm"}
         /\ Body(p)[l].form = "let" => Body(p)[l].d > 0
         /\ Body(p)[l].form = "arm" => Body(p)[l].pat \in Seq(Range(Body(p)[l].pat))
<1> DEFINE body == Body(p)
<1>1. p \in Everywhere
  BY DEF Body
<1> DEFINE base == IF Item(p).kind \in {"fn", "on"} THEN 1 ELSE 0
<1>2. body = Item(p).body /\ ParsedBody(body, base)
  BY <1>1, PlaceFacts2 DEF Body, PlaceOK, ParsedItem
<1>3. base \in Nat
  OBVIOUS
<1> HIDE DEF base, body
<1>4. DOMAIN body = 1..Len(body) /\ Len(body) \in Nat /\ l \in DOMAIN body /\ body \in Seq(Range(body))
  BY <1>2 DEF ParsedBody, body
<1>5. /\ body[l].form \in {"let", "use", "member", "type", "await", "rpc", "block", "for", "arm"}
      /\ body[l].d \in base..(IF l = 1 THEN base ELSE DepthBehind(body[l - 1]))
      /\ body[l].form = "let" => body[l].d > 0
      /\ body[l].form = "arm" => body[l].pat \in Seq(Range(body[l].pat))
  BY <1>2, <1>4 DEF ParsedBody, ParsedPattern
<1>6. DepthAt(p, l) = IF l = 1 THEN base ELSE DepthBehind(body[l - 1])
  BY <1>1, <1>4 DEF DepthAt, base, body
<1>7. \A i \in DOMAIN body : body[i].d \in Nat
  <2> TAKE i \in DOMAIN body
  <2>1. body[i].d \in base..(IF i = 1 THEN base ELSE DepthBehind(body[i - 1]))
    BY <1>2 DEF ParsedBody
  <2> QED
    BY <2>1, <1>3
<1>8. l # 1 => DepthBehind(body[l - 1]) \in Nat
  <2> SUFFICES ASSUME l # 1 PROVE DepthBehind(body[l - 1]) \in Nat
    OBVIOUS
  <2>1. l - 1 \in DOMAIN body
    BY <1>4
  <2>2. body[l - 1].d \in Nat
    BY <2>1, <1>7
  <2> QED
    BY <2>2 DEF DepthBehind
<1>9. body[l].d <= DepthAt(p, l) /\ DepthAt(p, l) \in Nat
  BY <1>3, <1>5, <1>6, <1>8
<1> QED
  BY <1>1, <1>4, <1>5, <1>7, <1>9 DEF body

\* A sequence is one over its own members.
LEMMA OverRange == ASSUME NEW S, NEW s \in Seq(S) PROVE s \in Seq(Range(s))
<1>1. Len(s) \in Nat /\ DOMAIN s = 1..Len(s) /\ s = [k \in 1..Len(s) |-> s[k]]
  OBVIOUS
<1>2. \A k \in 1..Len(s) : s[k] \in Range(s)
  BY <1>1 DEF Range
<1> QED
  BY <1>1, <1>2

\* What a line adds to what is known, and what it closes.
LEMMA KnownFacts ==
  ASSUME ProgramOK, NEW p, NEW l \in 1..Len(Body(p)), NEW k \in Nat, NEW x
  PROVE  LET here == IF x \in BoundBy(Body(p)[l]) /\ Depth(Body(p)[l]) = k THEN {l} ELSE {}
         IN  KnownAt(p, l + 1, k, x) = IF k <= Body(p)[l].d THEN KnownAt(p, l, k, x) \union here ELSE here
<1> DEFINE body == Body(p)
           here == IF x \in BoundBy(body[l]) /\ Depth(body[l]) = k THEN {l} ELSE {}
<1>1. l \in Nat \ {0} /\ body[l].d \in Nat /\ (l + 1) - 1 = l
  BY LineFacts
<1> HIDE DEF body
<1>2. KnownAt(p, l, k, x) = {j \in 1..(l - 1) : x \in BoundBy(body[j]) /\ Depth(body[j]) = k /\ \A i \in (j + 1)..(l - 1) : body[i].d >= k}
  BY DEF KnownAt, body
<1>3. KnownAt(p, l + 1, k, x) = {j \in 1..l : x \in BoundBy(body[j]) /\ Depth(body[j]) = k /\ \A i \in (j + 1)..l : body[i].d >= k}
  BY <1>1 DEF KnownAt, body
<1>4. ASSUME NEW j \in 1..(l - 1)
      PROVE  (\A i \in (j + 1)..l : body[i].d >= k) <=> ((\A i \in (j + 1)..(l - 1) : body[i].d >= k) /\ k <= body[l].d)
  <2>1. \A i \in (j + 1)..l : i = l \/ i \in (j + 1)..(l - 1)
    BY <1>1
  <2>2. l \in (j + 1)..l /\ (j + 1)..(l - 1) \subseteq (j + 1)..l
    BY <1>1
  <2>3. body[l].d >= k <=> k <= body[l].d
    BY <1>1
  <2> QED
    BY <2>1, <2>2, <2>3
<1>5. l \in KnownAt(p, l + 1, k, x) <=> l \in here
  <2>1. l \in 1..l /\ (l + 1)..l = {}
    BY <1>1
  <2> QED
    BY <2>1, <1>3
<1>6. 1..l = 1..(l - 1) \union {l} /\ l \notin 1..(l - 1)
  BY <1>1
<1>7. ASSUME NEW j \in 1..(l - 1)
      PROVE  j \in KnownAt(p, l + 1, k, x) <=> j \in KnownAt(p, l, k, x) /\ k <= body[l].d
  BY <1>2, <1>3, <1>4, <1>6
<1>8. KnownAt(p, l, k, x) \subseteq 1..(l - 1) /\ KnownAt(p, l + 1, k, x) \subseteq 1..l
  BY <1>2, <1>3
<1>9. KnownAt(p, l + 1, k, x) = IF k <= body[l].d THEN KnownAt(p, l, k, x) \union here ELSE here
  BY <1>5, <1>6, <1>7, <1>8
<1> QED
  BY <1>9 DEF body

\* A line leaves the scopes of its block open.
LEMMA OpenScopes ==
  ASSUME ProgramOK, NEW syms, NEW scs, NEW p, NEW l \in 1..Len(Body(p)), NEW pending, ScopesOK(syms, scs, p, l, pending),
         NEW d, d = Body(p)[l].d, NEW open, open = SubSeq(scs, 1, d)
  PROVE  /\ open \in Seq(Range(scs)) /\ Len(open) = d
         /\ \A k \in 1..Len(open) : open[k] = scs[k] /\ ScopeOK(syms, open[k], p, l, k, pending)
<1> DEFINE S == Range(scs)
<1>1. d \in Nat /\ d <= Len(scs) /\ scs \in Seq(S)
  BY LineFacts DEF ScopesOK
<1>2. open \in Seq(S) /\ Len(open) = d /\ \A k \in 1..d : open[k] = scs[k]
  BY <1>1
<1>3. \A k \in 1..d : ScopeOK(syms, open[k], p, l, k, pending)
  BY <1>1, <1>2 DEF ScopesOK
<1> QED
  BY <1>2, <1>3

\* It may open one more.
LEMMA LineScopes ==
  ASSUME ProgramOK, NEW syms, NEW scs, NEW p, NEW l \in 1..Len(Body(p)), ScopesOK(syms, scs, p, l, {}),
         NEW open, open = SubSeq(scs, 1, Body(p)[l].d),
         NEW out, out = IF Body(p)[l].form \in {"block", "for", "arm"} THEN Append(open, {}) ELSE open
  PROVE  ScopesOK(syms, out, p, l + 1, BoundBy(Body(p)[l]))
<1> DEFINE ln == Body(p)[l]
           S == Range(scs)
           opens == ln.form \in {"block", "for", "arm"}
<1>1. ln.d \in Nat /\ ln.d <= Len(scs) /\ l \in Nat \ {0} /\ scs \in Seq(S)
  BY LineFacts DEF ScopesOK
<1>2. open \in Seq(S) /\ Len(open) = ln.d /\ \A k \in 1..ln.d : open[k] = scs[k]
  BY <1>1
<1>3. \A k \in 1..ln.d : ScopeOK(syms, open[k], p, l, k, {}) /\ open[k] \subseteq DOMAIN syms
  BY <1>1, <1>2 DEF ScopesOK, ScopeOK
<1>4. DepthAt(p, l + 1) = DepthBehind(ln) /\ DepthBehind(ln) = IF opens THEN ln.d + 1 ELSE ln.d
  <2>1. l + 1 > 1 /\ (l + 1) - 1 = l
    BY <1>1
  <2> QED
    BY <2>1 DEF DepthAt, DepthBehind
<1>5. /\ out \in Seq(Range(out)) /\ Len(out) = DepthAt(p, l + 1) /\ \A k \in 1..ln.d : out[k] = open[k]
      /\ opens => out[ln.d + 1] = {}
  <2>1. open \in Seq(S \union {{}}) /\ out \in Seq(S \union {{}})
    BY <1>2
  <2>2. Len(out) = DepthAt(p, l + 1) /\ (\A k \in 1..ln.d : out[k] = open[k]) /\ (opens => out[ln.d + 1] = {})
    BY <2>1, <1>2, <1>4
  <2>3. out \in Seq(Range(out))
    BY <2>1, OverRange
  <2> QED
    BY <2>2, <2>3
<1>7. PICK o : o = out
  OBVIOUS
<1>8. /\ o \in Seq(Range(o)) /\ Len(o) = DepthAt(p, l + 1) /\ \A k \in 1..ln.d : o[k] = open[k]
      /\ opens => o[ln.d + 1] = {}
  BY <1>5, <1>7
<1> HIDE DEF opens
<1>6. ASSUME NEW k \in 1..Len(o)
      PROVE  ScopeOK(syms, o[k], p, l + 1, k, BoundBy(ln))
  <2>1. k \in Nat \ {0} /\ (l + 1) - 1 = l
    BY <1>1
  <2> DEFINE here(x) == IF x \in BoundBy(ln) /\ Depth(ln) = k THEN {l} ELSE {}
  <2>2. \A x : KnownAt(p, l + 1, k, x) = IF k <= ln.d THEN KnownAt(p, l, k, x) \union here(x) ELSE here(x)
    BY <2>1, KnownFacts
  <2>3. \A x : here(x) # {} => x \in BoundBy(ln)
    OBVIOUS
  <2>4. \A x : \A j \in here(x) : j = l
    OBVIOUS
  <2> HIDE DEF here, ln
  <2>5. CASE k <= ln.d
    <3>1. k \in 1..ln.d
      BY <2>1, <2>5, <1>1
    <3>2. o[k] = open[k]
      BY <3>1, <1>8
    <3>3. ScopeOK(syms, o[k], p, l, k, {})
      BY <3>1, <3>2, <1>3
    <3>4. \A x : KnownAt(p, l + 1, k, x) = KnownAt(p, l, k, x) \union here(x)
      BY <2>2, <2>5
    <3>5. \A s \in o[k] : \E j \in KnownAt(p, l + 1, k, syms[s].name) : syms[s].decl = <<p[1], p[2], j>>
      BY <3>3, <3>4 DEF ScopeOK
    <3>6. ASSUME NEW x, NEW j \in KnownAt(p, l + 1, k, x)
          PROVE  (j = l /\ x \in BoundBy(ln)) \/ \E s \in o[k] : syms[s].name = x /\ syms[s].decl = <<p[1], p[2], j>>
      <4>1. CASE j \in here(x)
        BY <4>1, <2>3, <2>4
      <4>2. CASE j \in KnownAt(p, l, k, x)
        BY <4>2, <3>3 DEF ScopeOK
      <4> QED
        BY <4>1, <4>2, <3>4
    <3> QED
      BY <2>1, <3>3, <3>5, <3>6 DEF ScopeOK
  <2>6. CASE ~ k <= ln.d
    <3>1. opens /\ k = ln.d + 1
      BY <2>1, <2>6, <1>1, <1>4, <1>8
    <3>2. o[k] = {}
      BY <3>1, <1>8
    <3> QED
      BY <3>2, <2>1, <2>2, <2>3, <2>4, <2>6 DEF ScopeOK
  <2> QED
    BY <2>5, <2>6
<1> QED
  BY <1>2, <1>3, <1>8, <1>6, <1>7 DEF ScopesOK

\* A symbol behind the others changes none of them.
LEMMA OneMore ==
  ASSUME NEW S, NEW s \in Seq(S), NEW e \in S
  PROVE  /\ Append(s, e) \in Seq(S) /\ Len(Append(s, e)) = Len(s) + 1 /\ Append(s, e)[Len(s) + 1] = e
         /\ \A k \in 1..Len(s) : Append(s, e)[k] = s[k]
OBVIOUS

\* More symbols, or more names that are to come, change no scope.
LEMMA ScopesGrown ==
  ASSUME NEW syms, NEW more, Grows(syms, more), NEW scs, NEW p, NEW l, NEW pending, NEW wider, pending \subseteq wider,
         ScopesOK(syms, scs, p, l, pending)
  PROVE  ScopesOK(more, scs, p, l, wider)
<1>1. ASSUME NEW k \in 1..Len(scs) PROVE ScopeOK(more, scs[k], p, l, k, wider)
  <2>1. ScopeOK(syms, scs[k], p, l, k, pending)
    BY DEF ScopesOK
  <2>2. \A s \in scs[k] : s \in DOMAIN more /\ more[s] = syms[s]
    BY <2>1 DEF ScopeOK, Grows
  <2> QED
    BY <2>1, <2>2 DEF ScopeOK
<1> QED
  BY <1>1 DEF ScopesOK

\* A name is defined by the line before l: it joins the innermost scope, unless
\* it binds nothing, and it was not in that scope.
LEMMA NameDefined ==
  ASSUME NEW syms, syms \in Seq(Range(syms)), NEW outer, NEW p, NEW l \in Nat, l > 1, NEW pending, ScopesOK(syms, outer, p, l, pending),
         Len(outer) > 0, Depth(Body(p)[l - 1]) = Len(outer), NEW x, ~ Discarded("var", x) => x \in BoundBy(Body(p)[l - 1]),
         Discarded("var", x) => \A k : KnownAt(p, l, k, x) = {},
         NEW sym, sym.kind = "var", sym.name = x, sym.file = FileOf(p), sym.decl = <<p[1], p[2], l - 1>>,
         ~ Discarded("var", x) => \A s \in OfIn(syms, Last(outer), Values, x) : syms[s].file # FileOf(p),
         NEW scs, scs = IF Discarded("var", x) THEN outer ELSE Append(Front(outer), Last(outer) \union {Len(syms) + 1})
  PROVE  ScopesOK(Append(syms, sym), scs, p, l, pending \ {x}) /\ Len(scs) = Len(outer)
<1> DEFINE more == Append(syms, sym)
           n == Len(syms) + 1
           m == Len(outer)
<1>1. Grows(syms, more) /\ n \in DOMAIN more /\ n \notin DOMAIN syms /\ more[n] = sym
  BY SymbolAdded
<1> HIDE DEF more, n
<1>2. outer \in Seq(Range(outer)) /\ m \in Nat /\ m > 0 /\ m = DepthAt(p, l) /\ m = Len(outer)
  BY DEF ScopesOK
<1>3. ASSUME NEW k \in 1..m, \A z \in KnownAt(p, l, k, x) : FALSE
      PROVE  ScopeOK(more, outer[k], p, l, k, pending \ {x})
  <2>1. ScopeOK(syms, outer[k], p, l, k, pending)
    BY DEF ScopesOK
  <2>2. \A s \in outer[k] : s \in DOMAIN more /\ more[s] = syms[s]
    BY <1>1, <2>1 DEF ScopeOK, Grows
  <2> QED
    BY <1>3, <2>1, <2>2 DEF ScopeOK
<1>4. CASE Discarded("var", x)
  <2>1. \A k \in 1..m : ScopeOK(more, outer[k], p, l, k, pending \ {x})
    BY <1>3, <1>4
  <2> QED
    BY <1>2, <1>4, <2>1 DEF ScopesOK, more
<1>5. CASE ~ Discarded("var", x)
  <2>1. scs = Append(SubSeq(outer, 1, m - 1), outer[m] \union {n})
    BY <1>5 DEF Front, Last, n
  <2>2. scs \in Seq(Range(outer) \union {outer[m] \union {n}}) /\ Len(scs) = m /\ scs[m] = outer[m] \union {n} /\ \A k \in 1..(m - 1) : scs[k] = outer[k]
    <3> DEFINE S == Range(outer) \union {outer[m] \union {n}}
               front == SubSeq(outer, 1, m - 1)
    <3>1. outer \in Seq(S)
      BY <1>2
    <3>2. front \in Seq(S) /\ Len(front) = m - 1 /\ \A k \in 1..(m - 1) : front[k] = outer[k]
      BY <1>2, <3>1
    <3>3. outer[m] \union {n} \in S
      OBVIOUS
    <3> HIDE DEF front, S
    <3> DEFINE last == outer[m] \union {n}
    <3>4. last \in S
      BY <3>3
    <3>5. scs = Append(front, last)
      BY <2>1 DEF front
    <3> HIDE DEF last
    <3>6. scs \in Seq(S) /\ Len(scs) = Len(front) + 1 /\ scs[Len(front) + 1] = last /\ \A k \in 1..Len(front) : scs[k] = front[k]
      <4>1. front \in Seq(S)
        BY <3>2
      <4>2. /\ Append(front, last) \in Seq(S) /\ Len(Append(front, last)) = Len(front) + 1 /\ Append(front, last)[Len(front) + 1] = last
            /\ \A k \in 1..Len(front) : Append(front, last)[k] = front[k]
        BY <4>1, <3>4, OneMore
      <4> QED
        BY <4>2, <3>5, Zenon
    <3>7. Len(front) = m - 1 /\ Len(front) + 1 = m
      BY <3>2, <1>2
    <3>8. Len(scs) = m /\ scs[m] = last /\ \A k \in 1..(m - 1) : scs[k] = front[k]
      BY <3>6, <3>7
    <3> QED
      BY <3>2, <3>6, <3>8 DEF S, last
  <2>3. scs \in Seq(Range(scs))
    BY <2>2, OverRange
  <2>4. ASSUME NEW k \in 1..(m - 1) PROVE ScopeOK(more, scs[k], p, l, k, pending \ {x})
    <3>1. ScopeOK(syms, outer[k], p, l, k, pending) /\ scs[k] = outer[k] /\ k # m /\ k \in Nat
      BY <1>2, <2>2 DEF ScopesOK
    <3>2. \A s \in outer[k] : s \in DOMAIN more /\ more[s] = syms[s]
      BY <1>1, <3>1 DEF ScopeOK, Grows
    <3>3. \A z : l - 1 \notin KnownAt(p, l, k, z)
      BY <3>1 DEF KnownAt
    <3>4. ASSUME NEW z, NEW j \in KnownAt(p, l, k, z)
          PROVE  \E s \in scs[k] : more[s].name = z /\ more[s].decl = <<p[1], p[2], j>>
      <4>1. j # l - 1
        BY <3>3
      <4>2. PICK s \in outer[k] : syms[s].name = z /\ syms[s].decl = <<p[1], p[2], j>>
        BY <4>1, <3>1 DEF ScopeOK
      <4> QED
        BY <4>2, <3>1, <3>2
    <3>5. scs[k] \subseteq DOMAIN more
      BY <3>1, <3>2
    <3>6. ASSUME NEW s \in scs[k]
          PROVE  more[s].kind = "var" /\ more[s].file = FileOf(p) /\ \E j \in KnownAt(p, l, k, more[s].name) : more[s].decl = <<p[1], p[2], j>>
      <4>1. s \in outer[k] /\ more[s] = syms[s]
        BY <3>1, <3>2
      <4>2. syms[s].kind = "var" /\ syms[s].file = FileOf(p) /\ \E j \in KnownAt(p, l, k, syms[s].name) : syms[s].decl = <<p[1], p[2], j>>
        BY <4>1, <3>1 DEF ScopeOK
      <4> QED
        BY <4>1, <4>2
    <3>7. \A s, t \in scs[k] : more[s].name = more[t].name => s = t
      BY <3>1, <3>2 DEF ScopeOK
    <3>8. ASSUME NEW z, NEW j \in KnownAt(p, l, k, z)
          PROVE  (j = l - 1 /\ z \in pending \ {x}) \/ \E s \in scs[k] : more[s].name = z /\ more[s].decl = <<p[1], p[2], j>>
      <4>1. \E s \in scs[k] : more[s].name = z /\ more[s].decl = <<p[1], p[2], j>>
        BY <3>4
      <4> QED
        BY <4>1
    <3> QED
      BY <3>5, <3>6, <3>7, <3>8 DEF ScopeOK
  <2>5. ScopeOK(more, scs[m], p, l, m, pending \ {x})
    <3>1. ScopeOK(syms, outer[m], p, l, m, pending)
      BY <1>2 DEF ScopesOK
    <3>2. \A s \in outer[m] : s \in DOMAIN more /\ more[s] = syms[s] /\ s # n
      BY <1>1, <3>1 DEF ScopeOK, Grows
    <3>3. l - 1 \in KnownAt(p, l, m, x)
      <4>1. (l - 1) \in 1..(l - 1) /\ ((l - 1) + 1)..(l - 1) = {}
        OBVIOUS
      <4> QED
        BY <4>1, <1>5 DEF KnownAt
    <3>4. \A s \in outer[m] : syms[s].name # x
      <4> SUFFICES ASSUME NEW s \in outer[m], syms[s].name = x PROVE FALSE
        OBVIOUS
      <4>1. s \in OfIn(syms, Last(outer), Values, x) /\ syms[s].file = FileOf(p)
        BY <3>1 DEF ScopeOK, OfIn, Last, Values
      <4> QED
        BY <4>1, <1>5
    <3>5. more[n] = sym /\ scs[m] = outer[m] \union {n} /\ n \in DOMAIN more
      BY <1>1, <2>2
    <3>6. scs[m] \subseteq DOMAIN more
      BY <3>2, <3>5
    <3>7. ASSUME NEW s \in scs[m]
          PROVE  /\ more[s].kind = "var" /\ more[s].file = FileOf(p)
                 /\ \E j \in KnownAt(p, l, m, more[s].name) : more[s].decl = <<p[1], p[2], j>>
      <4>1. CASE s = n
        BY <4>1, <3>3, <3>5
      <4>2. CASE s \in outer[m]
        BY <4>2, <3>1, <3>2 DEF ScopeOK
      <4> QED
        BY <4>1, <4>2, <3>5
    <3>8. ASSUME NEW z, NEW j \in KnownAt(p, l, m, z)
          PROVE  (j = l - 1 /\ z \in pending \ {x}) \/ \E s \in scs[m] : more[s].name = z /\ more[s].decl = <<p[1], p[2], j>>
      <4>1. CASE j = l - 1 /\ z = x
        BY <4>1, <3>5
      <4>2. CASE ~ (j = l - 1 /\ z = x)
        <5>1. (j = l - 1 /\ z \in pending) \/ \E s \in outer[m] : syms[s].name = z /\ syms[s].decl = <<p[1], p[2], j>>
          BY <3>1 DEF ScopeOK
        <5>2. CASE j = l - 1 /\ z \in pending
          BY <5>2, <4>2
        <5>3. CASE \E s \in outer[m] : syms[s].name = z /\ syms[s].decl = <<p[1], p[2], j>>
          <6>1. PICK s \in outer[m] : syms[s].name = z /\ syms[s].decl = <<p[1], p[2], j>>
            BY <5>3
          <6> QED
            BY <6>1, <3>2, <3>5
        <5> QED
          BY <5>1, <5>2, <5>3
      <4> QED
        BY <4>1, <4>2
    <3>9. ASSUME NEW s \in scs[m], NEW t \in scs[m], more[s].name = more[t].name PROVE s = t
      <4>1. s = n => t = n
        BY <3>2, <3>4, <3>5, <3>9
      <4>2. t = n => s = n
        BY <3>2, <3>4, <3>5, <3>9
      <4>3. s \in outer[m] /\ t \in outer[m] => s = t
        BY <3>1, <3>2, <3>9 DEF ScopeOK
      <4> QED
        BY <4>1, <4>2, <4>3, <3>5
    <3> QED
      BY <3>6, <3>7, <3>8, <3>9 DEF ScopeOK
  <2>6. \A k \in 1..m : ScopeOK(more, scs[k], p, l, k, pending \ {x})
    <3> TAKE k \in 1..m
    <3>1. k = m \/ k \in 1..(m - 1)
      BY <1>2
    <3> QED
      BY <3>1, <2>4, <2>5
  <2> QED
    BY <1>2, <2>2, <2>3, <2>6 DEF ScopesOK, more
<1> QED
  BY <1>4, <1>5

-----------------------------------------------------------------------------
(* Looking up a name.                                                        *)

\* The greatest of some numbers.
LEMMA MaxOf ==
  ASSUME NEW N \in Nat, NEW S, S # {}, S \subseteq 1..N
  PROVE  Max(S) \in S /\ \A y \in S : y <= Max(S)
<1> DEFINE T == {N - x : x \in S}
<1>1. T # {} /\ T \subseteq Nat
  <2>1. PICK x \in S : TRUE
    OBVIOUS
  <2>2. N - x \in T
    OBVIOUS
  <2>3. T \subseteq Nat
    OBVIOUS
  <2> QED
    BY <2>2, <2>3
<1>2. Min(T) \in T /\ \A y \in T : Min(T) <= y
  <2> HIDE DEF T
  <2> QED
    BY <1>1, MinOf
<1> DEFINE t == Min(T)
<1> HIDE DEF t
<1>3. PICK x \in S : t = N - x
  BY <1>2 DEF t
<1>4. \A y \in S : N - x <= N - y
  BY <1>2, <1>3 DEF t
<1>5. \A y \in S : x >= y
  BY <1>4
<1>6. Max(S) \in S /\ \A y \in S : Max(S) >= y
  BY <1>5 DEF Max
<1> QED
  BY <1>6

\* A lookup finds nothing, or all that the innermost scope with the name has.
LEMMA LookupFacts ==
  ASSUME NEW chain, chain \in Seq(Range(chain)), NEW x
  PROVE  \/ Lookup(chain, x) = {} /\ \A k \in 1..Len(chain) : Of(chain[k], Values, x) = {}
         \/ \E k \in 1..Len(chain) : /\ Lookup(chain, x) = Of(chain[k], Values, x) /\ Of(chain[k], Values, x) # {}
                                     /\ \A j \in 1..Len(chain) : j > k => Of(chain[j], Values, x) = {}
<1> DEFINE having == {k \in DOMAIN chain : Of(chain[k], Values, x) # {}}
<1>1. DOMAIN chain = 1..Len(chain) /\ Len(chain) \in Nat
  OBVIOUS
<1>2. having \subseteq 1..Len(chain) /\ \A k \in 1..Len(chain) : k \in having <=> Of(chain[k], Values, x) # {}
  BY <1>1
<1>3. Lookup(chain, x) = IF having = {} THEN {} ELSE Of(chain[Max(having)], Values, x)
  BY DEF Lookup
<1> HIDE DEF having
<1>4. CASE having = {}
  BY <1>2, <1>3, <1>4
<1>5. CASE having # {}
  <2>1. Max(having) \in having /\ \A y \in having : y <= Max(having)
    BY <1>1, <1>2, <1>5, MaxOf
  <2> DEFINE k == Max(having)
  <2> HIDE DEF k
  <2>2. k \in 1..Len(chain) /\ Of(chain[k], Values, x) # {} /\ Lookup(chain, x) = Of(chain[k], Values, x)
    BY <1>2, <1>3, <1>5, <2>1 DEF k
  <2>3. ASSUME NEW j \in 1..Len(chain), j > k PROVE Of(chain[j], Values, x) = {}
    <3>1. j \notin having
      BY <2>1, <2>2, <2>3, <1>1 DEF k
    <3> QED
      BY <3>1, <1>2
  <2> QED
    BY <2>2, <2>3
<1> QED
  BY <1>4, <1>5

\* One symbol is chosen; of several the one of the file.
LEMMA ChosenFacts ==
  ASSUME NEW found, found \subseteq Nat, IsFiniteSet(found), NEW file, Chosen(found, file) # 0
  PROVE  LET own == {s \in found : symbols[s].file = file}
         IN  \/ found = {Chosen(found, file)}
             \/ Cardinality(found) # 1 /\ own = {Chosen(found, file)}
<1> DEFINE own == {s \in found : symbols[s].file = file}
           s == Chosen(found, file)
<1>1. IsFiniteSet(own) /\ own \subseteq Nat
  BY FS_Subset
<1>2. s = IF Cardinality(found) = 1 THEN Min(found) ELSE IF Cardinality(own) = 1 THEN Min(own) ELSE 0
  BY DEF Chosen
<1> HIDE DEF own, s
<1>3. \A S : S \subseteq Nat /\ IsFiniteSet(S) /\ Cardinality(S) = 1 => S = {Min(S)}
  <2> SUFFICES ASSUME NEW S, S \subseteq Nat, IsFiniteSet(S), Cardinality(S) = 1 PROVE S = {Min(S)}
    OBVIOUS
  <2>1. PICK y : S = {y}
    BY FS_Singleton
  <2>2. Min(S) \in S
    BY <2>1, MinOf
  <2> QED
    BY <2>1, <2>2
<1>4. CASE Cardinality(found) = 1
  BY <1>2, <1>3, <1>4 DEF s
<1>5. CASE Cardinality(found) # 1
  <2>1. Cardinality(own) = 1 /\ s = Min(own)
    BY <1>2, <1>5 DEF s
  <2> QED
    BY <2>1, <1>1, <1>3, <1>5 DEF s, own
<1> QED
  BY <1>4, <1>5

\* What binds x in the blocks around a line is known in one of the open scopes.
LEMMA LocalsFacts ==
  ASSUME ProgramOK, NEW p, NEW l \in 1..Len(Body(p)), NEW x
  PROVE  /\ \A j \in Locals(Body(p), l, x) : Depth(Body(p)[j]) \in 1..Body(p)[l].d /\ j \in KnownAt(p, l, Depth(Body(p)[j]), x)
         /\ \A k \in 1..Body(p)[l].d : \A j \in KnownAt(p, l, k, x) : j \in Locals(Body(p), l, x) /\ Depth(Body(p)[j]) = k
<1> DEFINE body == Body(p)
<1>1. l \in Nat \ {0} /\ body[l].d \in Nat /\ Len(body) \in Nat /\ l <= Len(body)
  BY LineFacts
<1>2. \A i \in 1..l : i \in 1..Len(body) /\ body[i].d \in Nat /\ (body[i].form = "let" => body[i].d > 0)
  <2> TAKE i \in 1..l
  <2>1. i \in 1..Len(body)
    BY <1>1
  <2> QED
    BY <2>1, LineFacts
<1>3. \A j : j \in Locals(body, l, x) <=> j \in 1..(l - 1) /\ x \in BoundBy(body[j]) /\ \A k \in (j + 1)..l : body[k].d >= Depth(body[j])
  BY DEF Locals
<1>4. \A j, k : j \in KnownAt(p, l, k, x) <=> j \in 1..(l - 1) /\ x \in BoundBy(body[j]) /\ Depth(body[j]) = k /\ \A i \in (j + 1)..(l - 1) : body[i].d >= k
  BY DEF KnownAt
<1> HIDE DEF body
<1>5. ASSUME NEW j \in Locals(body, l, x)
      PROVE  Depth(body[j]) \in 1..body[l].d /\ j \in KnownAt(p, l, Depth(body[j]), x)
  <2>1. j \in 1..(l - 1) /\ x \in BoundBy(body[j]) /\ (\A k \in (j + 1)..l : body[k].d >= Depth(body[j])) /\ j \in 1..l
    BY <1>1, <1>3, <1>5
  <2>2. l \in (j + 1)..l /\ (j + 1)..(l - 1) \subseteq (j + 1)..l
    BY <1>1, <2>1
  <2>3. Depth(body[j]) \in Nat \ {0}
    <3>1. body[j].form \in {"let", "for", "arm"}
      BY <2>1 DEF BoundBy
    <3> QED
      BY <3>1, <2>1, <1>2 DEF Depth
  <2>4. body[l].d >= Depth(body[j])
    BY <2>1, <2>2
  <2>5. Depth(body[j]) \in 1..body[l].d
    BY <2>3, <2>4, <1>1
  <2> QED
    BY <2>1, <2>2, <2>5, <1>4
<1>6. ASSUME NEW k \in 1..body[l].d, NEW j \in KnownAt(p, l, k, x)
      PROVE  j \in Locals(body, l, x) /\ Depth(body[j]) = k
  <2>1. j \in 1..(l - 1) /\ x \in BoundBy(body[j]) /\ Depth(body[j]) = k /\ \A i \in (j + 1)..(l - 1) : body[i].d >= k
    BY <1>4, <1>6
  <2>2. \A i \in (j + 1)..l : i = l \/ i \in (j + 1)..(l - 1)
    BY <2>1, <1>1
  <2>3. body[l].d >= k
    BY <1>1
  <2>4. \A i \in (j + 1)..l : body[i].d >= Depth(body[j])
    BY <2>1, <2>2, <2>3
  <2> QED
    BY <2>1, <2>4, <1>3
<1> QED
  BY <1>5, <1>6 DEF body

\* What binds x in the sector around p.
MembersAround(p, x) == {q \in Named(Members, x) : q[2] > 0 /\ q[1] \in SectorOf(p) /\ Binds(q)}

\* The sector of a place is the one a reader sees around it.
LEMMA SectorAround ==
  ASSUME ProgramOK, Collection(symbols, globals, sectorScope, {}), NEW p \in Everywhere, NEW x
  PROVE  \/ SectorAt(p) = 0 /\ MembersAround(p, x) = {}
         \/ /\ SectorAt(p) # 0 /\ SectorAt(p) \in DOMAIN sectorScope
            /\ MembersAround(p, x) = MembersOf(symbols[SectorAt(p)].decl[1], x)
<1>1. PlaceOK(p)
  BY PlaceFacts2
<1>2. \A n : SectorOf(p) = {n} => MembersAround(p, x) = MembersOf(n, x)
  BY DEF MembersAround, MembersOf
<1>3. SectorOf(p) = {} => MembersAround(p, x) = {}
  BY DEF MembersAround
<1>4. CASE p[2] > 0
  <2>1. SectorAt(p) # 0 /\ SectorAt(p) \in DOMAIN sectorScope /\ symbols[SectorAt(p)].decl[1] = p[1]
    <3>1. <<p[1], 0>> \notin {}
      OBVIOUS
    <3> QED
      BY <1>4, <3>1, SectorFacts, Zenon
  <2>2. SectorOf(p) = {p[1]}
    BY <1>4 DEF SectorOf
  <2> QED
    BY <2>1, <2>2, <1>2
<1>5. CASE ~ p[2] > 0 /\ Item(p).kind # "on"
  BY <1>3, <1>5 DEF SectorAt, SectorOf
<1>6. CASE ~ p[2] > 0 /\ Item(p).kind = "on"
  <2> DEFINE S == OfIn(symbols, globals, {"sector"}, "main")
             T == SectorsOf("main")
  <2>1. /\ \A q \in T : \E s \in S : Denotes(symbols[s], q)
        /\ \A s, t \in S : s = t
    <3>1. T \ {} = T
      OBVIOUS
    <3> QED
      BY <3>1 DEF Collection, SectorsOK, Table
  <2>2. \A s \in S : s \in DOMAIN sectorScope /\ s \in Nat \ {0}
    <3>1. globals \subseteq DOMAIN symbols /\ symbols \in Seq(Range(symbols)) /\ DOMAIN sectorScope = {t \in globals : symbols[t].kind = "sector"}
      BY DEF Collection, SymbolsOK
    <3> QED
      BY <3>1 DEF OfIn
  <2>3. Sectors("main") = S
    BY DEF Sectors, Of, OfIn
  <2>4. SectorAt(p) = IF S = {} THEN 0 ELSE Min(S)
    BY <2>3, <1>1, <1>6 DEF SectorAt, PlaceOK
  <2>5. SectorOf(p) = {n \in DOMAIN items : IsMain(n)}
    BY <1>6 DEF SectorOf
  <2>6. HasTopOn
    <3>1. p[1] \in DOMAIN items /\ items[p[1]].it = Item(p)
      BY <1>1, <1>6 DEF PlaceOK, Everywhere
    <3> QED
      BY <3>1, <1>6 DEF HasTopOn
  <2> HIDE DEF S, T
  <2>7. ASSUME NEW s \in S PROVE S = {s} /\ SectorAt(p) = s
    <3>1. S = {s}
      BY <2>1
    <3>2. Min({s}) = s
      BY <2>2, MinOf
    <3> QED
      BY <3>1, <3>2, <2>4
  <2>8. CASE HasMain
    <3>1. PICK m \in DOMAIN items : IsMain(m)
      BY <2>8 DEF HasMain
    <3>2. \A n \in DOMAIN items : IsMain(n) => <<n, 0>> \in T
      <4> TAKE n \in DOMAIN items
      <4>1. <<n, 0>> \in Everywhere /\ Item(<<n, 0>>) = items[n].it
        BY DEF Everywhere, Item
      <4> QED
        BY <4>1 DEF IsMain, T, SectorsOf, Named, Kinds
    <3>3. PICK s \in S : Denotes(symbols[s], <<m, 0>>)
      BY <3>1, <3>2, <2>1
    <3>4. \A n \in DOMAIN items : IsMain(n) => n = m
      <4> SUFFICES ASSUME NEW n \in DOMAIN items, IsMain(n) PROVE n = m
        OBVIOUS
      <4>1. PICK t \in S : Denotes(symbols[t], <<n, 0>>)
        BY <3>2, <2>1
      <4>2. t = s
        BY <2>1
      <4> QED
        BY <3>3, <4>1, <4>2 DEF Denotes
    <3>5. SectorOf(p) = {m}
      BY <2>5, <3>1, <3>4
    <3>6. symbols[s].decl[1] = m
      BY <3>3 DEF Denotes
    <3> QED
      BY <1>2, <2>2, <2>7, <3>5, <3>6
  <2>9. CASE ~ HasMain
    <3>1. <<0, 0>> \in T
      BY <2>6, <2>9 DEF T, SectorsOf
    <3>2. PICK s \in S : Denotes(symbols[s], <<0, 0>>)
      BY <3>1, <2>1
    <3>3. SectorOf(p) = {} /\ symbols[s].decl[1] = 0
      BY <2>5, <2>9, <3>2 DEF HasMain, Denotes
    <3>4. MembersOf(0, x) = {}
      BY PlaceFacts2 DEF MembersOf, Named, Kinds, PlaceOK
    <3> QED
      BY <1>3, <2>2, <2>7, <3>3, <3>4
  <2> QED
    BY <2>8, <2>9
<1> QED
  BY <1>4, <1>5, <1>6

\* What Meaning says, from the innermost block outwards.
LEMMA MeaningFacts ==
  ASSUME NEW p, NEW l, NEW x
  PROVE  /\ \A j \in Locals(Body(p), l, x) :
               (\A i \in Locals(Body(p), l, x) : Depth(Body(p)[i]) <= Depth(Body(p)[j])) => <<p[1], p[2], j>> \in Meaning(p, l, x)
         /\ Locals(Body(p), l, x) = {} =>
               /\ \A q : MembersAround(p, x) = {q} => <<q[1], q[2], 0>> \in Meaning(p, l, x)
               /\ MembersAround(p, x) = {} =>
                     /\ \A q : Global(x) = {q} => <<q[1], q[2], 0>> \in Meaning(p, l, x)
                     /\ \A q : Cardinality(Global(x)) # 1 /\ Same(p, Global(x)) = {q} => <<q[1], q[2], 0>> \in Meaning(p, l, x)
<1> DEFINE locals == Locals(Body(p), l, x)
           G == Global(x)
           M == MembersAround(p, x)
           found == IF M # {} THEN M ELSE IF Cardinality(G) = 1 THEN G ELSE Same(p, G)
<1>1. Meaning(p, l, x) = IF locals # {} THEN {<<p[1], p[2], j>> : j \in {k \in locals : \A j \in locals : Depth(Body(p)[j]) <= Depth(Body(p)[k])}}
                         ELSE IF Cardinality(found) = 1 THEN {<<q[1], q[2], 0>> : q \in found} ELSE {}
  BY DEF Meaning, MembersAround
<1>2. \A q : Cardinality({q}) = 1
  BY FS_Singleton
<1>3. ASSUME NEW j \in locals, \A i \in locals : Depth(Body(p)[i]) <= Depth(Body(p)[j]) PROVE <<p[1], p[2], j>> \in Meaning(p, l, x)
  <2> HIDE DEF locals, found
  <2> QED
    BY <1>1, <1>3
<1>4. ASSUME locals = {}, NEW q, found = {q} PROVE <<q[1], q[2], 0>> \in Meaning(p, l, x)
  <2> HIDE DEF locals, found
  <2> QED
    BY <1>1, <1>2, <1>4
<1> HIDE DEF locals, G, M
<1>5. \A q : M = {q} => found = {q}
  OBVIOUS
<1>6. \A q : M = {} /\ G = {q} => found = {q}
  BY <1>2
<1>7. \A q : M = {} /\ Cardinality(G) # 1 /\ Same(p, G) = {q} => found = {q}
  OBVIOUS
<1> HIDE DEF found
<1>8. locals = {} => /\ \A q : M = {q} => <<q[1], q[2], 0>> \in Meaning(p, l, x)
                     /\ M = {} => /\ \A q : G = {q} => <<q[1], q[2], 0>> \in Meaning(p, l, x)
                                  /\ \A q : Cardinality(G) # 1 /\ Same(p, G) = {q} => <<q[1], q[2], 0>> \in Meaning(p, l, x)
  BY <1>4, <1>5, <1>6, <1>7
<1> QED
  BY <1>3, <1>8 DEF locals, G, M

\* Two sequences of symbols joined: the first keeps its places.
LEMMA Joined ==
  ASSUME NEW S, NEW s \in Seq(S), NEW t \in Seq(S)
  PROVE  /\ s \o t \in Seq(S) /\ Len(s \o t) = Len(s) + Len(t) /\ \A k \in 1..Len(s) : (s \o t)[k] = s[k]
         /\ \A k \in 1..Len(t) : (s \o t)[Len(s) + k] = t[k]
OBVIOUS

\* The places of a sequence that is joined to another.
LEMMA TwoJoined ==
  ASSUME NEW S, NEW a \in S, NEW b \in S
  PROVE  <<a>> \o <<b>> \in Seq(S) /\ Len(<<a>> \o <<b>>) = 2 /\ (<<a>> \o <<b>>)[1] = a /\ (<<a>> \o <<b>>)[2] = b
<1>1. <<a>> \in Seq(S) /\ <<b>> \in Seq(S) /\ Len(<<a>>) = 1 /\ Len(<<b>>) = 1 /\ <<a>>[1] = a /\ <<b>>[1] = b
  OBVIOUS
<1>2. \A s, t \in Seq(S) : Len(s) = 1 /\ Len(t) = 1 => /\ s \o t \in Seq(S) /\ Len(s \o t) = 2 /\ (s \o t)[1] = s[1] /\ (s \o t)[2] = t[1]
  <2> TAKE s, t \in Seq(S)
  <2> HAVE Len(s) = 1 /\ Len(t) = 1
  <2> QED
    BY Joined
<1> QED
  BY <1>1, <1>2, Zenon

\* The scopes that are seen from a line: the global one, the sector's, the open
\* blocks.
LEMMA VisibleFacts ==
  ASSUME ProgramOK, line \in 1..Len(Body(place)), ScopesOK(symbols, scopes, place, line, {})
  PROVE  LET off == IF SectorAt(place) = 0 THEN 1 ELSE 2
         IN  /\ Visible \in Seq(Range(Visible)) /\ Len(Visible) = off + Line.d /\ Visible[1] = globals /\ Line.d \in Nat
             /\ SectorAt(place) # 0 => Visible[2] = sectorScope[SectorAt(place)]
             /\ \A k \in 1..Line.d : Visible[off + k] = Open[k] /\ ScopeOK(symbols, Open[k], place, line, k, {})
<1> DEFINE d == Line.d
           S == Range(scopes)
           outer == <<globals>> \o (IF SectorAt(place) = 0 THEN <<>> ELSE <<sectorScope[SectorAt(place)]>>)
           off == IF SectorAt(place) = 0 THEN 1 ELSE 2
<1>1. Line = Body(place)[line] /\ d \in Nat /\ Open = SubSeq(scopes, 1, d)
  BY LineFacts DEF Line, Open
<1>2. Open \in Seq(S) /\ Len(Open) = d /\ \A k \in 1..Len(Open) : ScopeOK(symbols, Open[k], place, line, k, {})
  <2>1. Open = SubSeq(scopes, 1, d) /\ d = Body(place)[line].d
    BY <1>1
  <2>2. PICK e, open : e = d /\ open = Open
    OBVIOUS
  <2> HIDE DEF d
  <2>3. e = Body(place)[line].d /\ open = SubSeq(scopes, 1, e)
    BY <2>1, <2>2
  <2>4. open \in Seq(Range(scopes)) /\ Len(open) = e
    <3>1. line \in 1..Len(Body(place)) /\ e \in Nat /\ e <= DepthAt(place, line)
      BY <2>3, LineFacts, Zenon
    <3>2. scopes \in Seq(Range(scopes)) /\ e <= Len(scopes)
      BY <3>1 DEF ScopesOK
    <3> QED
      BY <2>3, <3>1, <3>2
  <2>5. \A k \in 1..Len(open) : ScopeOK(symbols, open[k], place, line, k, {})
    BY <2>3, OpenScopes
  <2> QED
    BY <2>2, <2>4, <2>5
<1> DEFINE T == S \union {globals, sectorScope[SectorAt(place)]}
<1>4. outer \in Seq(T) /\ Len(outer) = off /\ outer[1] = globals /\ (SectorAt(place) # 0 => outer[2] = sectorScope[SectorAt(place)])
  <2>1. CASE SectorAt(place) = 0
    <3>1. outer = <<globals>>
      BY <2>1
    <3> QED
      BY <2>1, <3>1
  <2>2. CASE SectorAt(place) # 0
    <3>1. outer = <<globals>> \o <<sectorScope[SectorAt(place)]>>
      BY <2>2
    <3>2. globals \in T /\ sectorScope[SectorAt(place)] \in T
      OBVIOUS
    <3> HIDE DEF outer, T
    <3>3. outer \in Seq(T) /\ Len(outer) = 2 /\ outer[1] = globals /\ outer[2] = sectorScope[SectorAt(place)]
      <4> DEFINE e == sectorScope[SectorAt(place)]
      <4>1. e \in T
        BY <3>2
      <4> HIDE DEF e
      <4>2. <<globals>> \o <<e>> \in Seq(T) /\ Len(<<globals>> \o <<e>>) = 2 /\ (<<globals>> \o <<e>>)[1] = globals /\ (<<globals>> \o <<e>>)[2] = e
        BY <3>2, <4>1, TwoJoined
      <4>3. outer = <<globals>> \o <<e>>
        BY <3>1 DEF e
      <4> QED
        BY <4>2, <4>3, Zenon DEF e
    <3> QED
      BY <2>2, <3>3
  <2> QED
    BY <2>1, <2>2
<1>5. Visible = outer \o Open
  BY DEF Visible
<1>6. Open \in Seq(T)
  BY <1>2
<1>7. off \in 1..2
  OBVIOUS
<1> HIDE DEF outer, T, S, off, d
<1>8. Visible \in Seq(T) /\ Len(Visible) = off + d /\ (\A k \in 1..off : Visible[k] = outer[k]) /\ \A k \in 1..d : Visible[off + k] = Open[k]
  <2>1. /\ Visible \in Seq(T) /\ Len(Visible) = Len(outer) + Len(Open) /\ \A k \in 1..Len(outer) : Visible[k] = outer[k]
        /\ \A k \in 1..Len(Open) : Visible[Len(outer) + k] = Open[k]
    <3>1. outer \in Seq(T)
      BY <1>4
    <3>2. /\ outer \o Open \in Seq(T) /\ Len(outer \o Open) = Len(outer) + Len(Open) /\ \A k \in 1..Len(outer) : (outer \o Open)[k] = outer[k]
          /\ \A k \in 1..Len(Open) : (outer \o Open)[Len(outer) + k] = Open[k]
      BY <3>1, <1>6, Joined
    <3> QED
      BY <3>2, <1>5, Zenon
  <2> QED
    BY <2>1, <1>2, <1>4
<1>9. Visible \in Seq(Range(Visible))
  BY <1>8, OverRange
<1>10. Visible[1] = globals /\ (SectorAt(place) # 0 => Visible[2] = sectorScope[SectorAt(place)])
  BY <1>4, <1>7, <1>8 DEF off
<1> QED
  BY <1>1, <1>2, <1>8, <1>9, <1>10 DEF off, d

\* The symbol s of a table stands for its only place, or for the only one that is
\* in the file of p.
StandsFor(ids, x, ps, p, s) ==
  /\ s \in OfIn(symbols, ids, Values, x) /\ s \in DOMAIN symbols
  /\ \E q \in ps : /\ Denotes(symbols[s], q)
                   /\ ps = {q} \/ (OfIn(symbols, ids, Values, x) # {s} /\ Cardinality(ps) # 1 /\ Same(p, ps) = {q})

\* The symbol that is chosen is such a symbol.
LEMMA TableChosen ==
  ASSUME NEW ids, ids \subseteq DOMAIN symbols, symbols \in Seq(Range(symbols)), NEW x, NEW ps, Pairs(ps), Table(symbols, ids, Values, x, ps),
         NEW p, NEW s, s = Chosen(OfIn(symbols, ids, Values, x), FileOf(p)), s # 0
  PROVE  StandsFor(ids, x, ps, p, s)
<1> DEFINE found == OfIn(symbols, ids, Values, x)
           own == {t \in found : symbols[t].file = FileOf(p)}
<1>1. found \subseteq DOMAIN symbols /\ DOMAIN symbols = 1..Len(symbols) /\ Len(symbols) \in Nat
  BY DEF OfIn
<1>2. IsFiniteSet(found) /\ found \subseteq Nat
  <2>1. IsFiniteSet(1..Len(symbols))
    BY <1>1, FS_Interval
  <2> QED
    BY <1>1, <2>1, FS_Subset
<1>3. found = {s} \/ (Cardinality(found) # 1 /\ own = {s})
  BY <1>2, ChosenFacts
<1>4. s \in found
  BY <1>3
<1>5. PICK q \in ps : Denotes(symbols[s], q)
  BY <1>4 DEF Table
<1>6. \A t \in found : \E r \in ps : Denotes(symbols[t], r)
  BY DEF Table
<1>7. \A r \in ps : \E t \in found : Denotes(symbols[t], r)
  BY DEF Table
<1>8. \A r \in ps : Denotes(symbols[s], r) => r = q
  BY <1>5 DEF Denotes, Pairs
<1>9. CASE found = {s}
  <2>1. \A r \in ps : r = q
    BY <1>7, <1>8, <1>9
  <2> QED
    BY <1>1, <1>4, <1>5, <2>1 DEF StandsFor
<1>10. CASE found # {s}
  <2>1. Cardinality(found) # 1 /\ own = {s}
    BY <1>3, <1>10
  <2>2. symbols[s].file = FileOf(p) /\ FileOf(q) = FileOf(p)
    BY <2>1, <1>5 DEF Denotes
  <2>3. ASSUME NEW r \in ps, FileOf(r) = FileOf(p) PROVE r = q
    <3>1. PICK t \in found : Denotes(symbols[t], r)
      BY <1>7
    <3>2. t = s
      BY <2>1, <2>3, <3>1 DEF Denotes
    <3> QED
      BY <3>1, <3>2, <1>8
  <2>4. Same(p, ps) = {q}
    BY <2>2, <2>3, <1>5 DEF Same
  <2>5. IsFiniteSet(ps)
    <3> DEFINE f == [t \in found |-> CHOOSE r \in ps : Denotes(symbols[t], r)]
    <3>1. \A t \in found : f[t] \in ps /\ Denotes(symbols[t], f[t])
      BY <1>6
    <3>2. \A r \in ps : \E t \in found : f[t] = r
      <4> TAKE r \in ps
      <4>1. PICK t \in found : Denotes(symbols[t], r)
        BY <1>7
      <4>2. Denotes(symbols[t], f[t]) /\ f[t] \in ps
        BY <3>1
      <4>3. f[t] = r
        <5> HIDE DEF f
        <5> QED
          BY <4>1, <4>2 DEF Denotes, Pairs
      <4> QED
        BY <4>3
    <3>3. f \in Surjection(found, ps)
      BY <3>1, <3>2 DEF Surjection
    <3> QED
      BY <3>3, <1>2, FS_Surjection
  <2>6. Cardinality(ps) # 1
    <3> SUFFICES ASSUME Cardinality(ps) = 1 PROVE FALSE
      OBVIOUS
    <3>1. PICK g : ps = {g}
      BY <2>5, FS_Singleton
    <3>2. \A t \in found : symbols[t].decl = symbols[s].decl
      BY <1>4, <1>6, <3>1 DEF Denotes
    <3>3. \A t \in found : t = s
      BY <1>4, <3>2 DEF Table
    <3> QED
      BY <1>4, <1>10, <3>3
  <2> QED
    BY <1>1, <1>4, <1>5, <2>4, <2>6, <1>10 DEF StandsFor
<1> QED
  BY <1>9, <1>10

\* The name that a line uses means what its lookup finds.
LEMMA NameMeans ==
  ASSUME ProgramOK, Collection(symbols, globals, sectorScope, {}), line \in 1..Len(Body(place)),
         ScopesOK(symbols, scopes, place, line, {}), NEW x, NEW s, s = Chosen(Lookup(Visible, x), FileOf(place)), s # 0
  PROVE  s \in DOMAIN symbols /\ symbols[s].decl \in Meaning(place, line, x)
<1> DEFINE off == IF SectorAt(place) = 0 THEN 1 ELSE 2
           d == Line.d
           body == Body(place)
           locals == Locals(body, line, x)
<1>1. /\ Visible \in Seq(Range(Visible)) /\ Len(Visible) = off + d /\ Visible[1] = globals /\ d \in Nat
      /\ SectorAt(place) # 0 => Visible[2] = sectorScope[SectorAt(place)]
      /\ \A k \in 1..d : Visible[off + k] = Open[k] /\ ScopeOK(symbols, Open[k], place, line, k, {})
  BY VisibleFacts
<1>2. place \in Everywhere /\ d = body[line].d
  BY LineFacts DEF Line
<1>3. /\ \A j \in locals : Depth(body[j]) \in 1..d /\ j \in KnownAt(place, line, Depth(body[j]), x)
      /\ \A k \in 1..d : \A j \in KnownAt(place, line, k, x) : j \in locals /\ Depth(body[j]) = k
  BY <1>2, LocalsFacts
<1>4. /\ \A j \in locals : (\A i \in locals : Depth(body[i]) <= Depth(body[j])) => <<place[1], place[2], j>> \in Meaning(place, line, x)
      /\ locals = {} =>
            /\ \A q : MembersAround(place, x) = {q} => <<q[1], q[2], 0>> \in Meaning(place, line, x)
            /\ MembersAround(place, x) = {} =>
                  /\ \A q : Global(x) = {q} => <<q[1], q[2], 0>> \in Meaning(place, line, x)
                  /\ \A q : Cardinality(Global(x)) # 1 /\ Same(place, Global(x)) = {q} => <<q[1], q[2], 0>> \in Meaning(place, line, x)
  BY MeaningFacts
<1>5. symbols \in Seq(Range(symbols)) /\ globals \subseteq DOMAIN symbols /\ \A t \in DOMAIN sectorScope : sectorScope[t] \subseteq DOMAIN symbols
  BY DEF Collection, SymbolsOK
<1>6. \A ids : Of(ids, Values, x) = OfIn(symbols, ids, Values, x)
  BY DEF Of, OfIn
<1>7. Lookup(Visible, x) # {}
  <2> SUFFICES ASSUME Lookup(Visible, x) = {} PROVE FALSE
    OBVIOUS
  <2>1. Chosen({}, FileOf(place)) = 0
    BY FS_EmptySet DEF Chosen
  <2> QED
    BY <2>1
<1>8. PICK k \in 1..Len(Visible) : /\ Lookup(Visible, x) = Of(Visible[k], Values, x) /\ Of(Visible[k], Values, x) # {}
                                   /\ \A j \in 1..Len(Visible) : j > k => Of(Visible[j], Values, x) = {}
  <2>1. Visible \in Seq(Range(Visible))
    BY <1>1
  <2> QED
    BY <1>7, <2>1, LookupFacts
<1> DEFINE found == Lookup(Visible, x)
<1>9. off \in 1..2
  OBVIOUS
<1> HIDE DEF d, off, body, locals
<1>10. \A j \in locals : LET e == Depth(body[j]) IN e \in 1..d /\ off + e \in 1..Len(Visible) /\ \E t \in Open[e] : symbols[t].kind \in Values /\ symbols[t].name = x
  <2> TAKE j \in locals
  <2> DEFINE e == Depth(body[j])
  <2>1. e \in 1..d /\ j \in KnownAt(place, line, e, x)
    BY <1>3
  <2> HIDE DEF e
  <2>2. ScopeOK(symbols, Open[e], place, line, e, {})
    BY <1>1, <2>1
  <2>3. PICK t \in Open[e] : symbols[t].name = x
    BY <2>1, <2>2 DEF ScopeOK
  <2>4. symbols[t].kind \in Values
    BY <2>2, <2>3 DEF ScopeOK, Values
  <2>5. off + e \in 1..Len(Visible)
    BY <1>1, <1>9, <2>1
  <2> QED
    BY <2>1, <2>3, <2>4, <2>5 DEF e
<1>11. \A j \in locals : off + Depth(body[j]) <= k
  <2> TAKE j \in locals
  <2> DEFINE e == Depth(body[j])
  <2>1. e \in 1..d /\ off + e \in 1..Len(Visible) /\ \E t \in Open[e] : symbols[t].kind \in Values /\ symbols[t].name = x
    BY <1>10
  <2> HIDE DEF e
  <2>2. Visible[off + e] = Open[e]
    BY <1>1, <2>1
  <2>3. Of(Visible[off + e], Values, x) # {}
    BY <2>1, <2>2 DEF Of
  <2>4. ~ off + e > k
    BY <1>8, <2>1, <2>3
  <2>5. off + e <= k
    BY <2>1, <2>4, <1>1, <1>8, <1>9
  <2> QED
    BY <2>5 DEF e
<1>12. CASE k > off
  <2> DEFINE b == k - off
  <2>1. b \in 1..d /\ k = off + b
    BY <1>1, <1>8, <1>9, <1>12
  <2> HIDE DEF b
  <2>2. Visible[k] = Open[b] /\ ScopeOK(symbols, Open[b], place, line, b, {})
    BY <1>1, <2>1
  <2>3. found = Of(Open[b], Values, x) /\ found # {}
    BY <1>8, <2>2
  <2>4. \A t, u \in found : t = u
    BY <2>2, <2>3 DEF Of, ScopeOK
  <2>5. found \subseteq DOMAIN symbols
    BY <2>2, <2>3 DEF Of, ScopeOK
  <2>6. PICK t : found = {t}
    BY <2>3, <2>4
  <2>7. t \in DOMAIN symbols /\ t \in Nat
    BY <1>5, <2>5, <2>6
  <2>8. s = t
    <3>1. Cardinality({t}) = 1 /\ Min({t}) = t
      <4>1. Min({t}) \in {t}
        BY <2>7, MinOf
      <4> QED
        BY <4>1, FS_Singleton
    <3> QED
      BY <2>6, <3>1 DEF Chosen
  <2>9. t \in Open[b] /\ symbols[t].name = x
    BY <2>3, <2>6 DEF Of
  <2>10. PICK j \in KnownAt(place, line, b, x) : symbols[t].decl = <<place[1], place[2], j>>
    BY <2>2, <2>9 DEF ScopeOK
  <2>11. j \in locals /\ Depth(body[j]) = b
    BY <1>3, <2>1, <2>10
  <2>12. \A i \in locals : Depth(body[i]) <= Depth(body[j])
    <3> TAKE i \in locals
    <3>1. off + Depth(body[i]) <= k /\ Depth(body[i]) \in 1..d
      BY <1>10, <1>11
    <3> QED
      BY <3>1, <2>1, <2>11, <1>1, <1>9
  <2> QED
    BY <2>7, <2>8, <2>10, <2>11, <2>12, <1>4
<1>13. CASE ~ k > off
  <2>1. locals = {}
    <3> SUFFICES ASSUME NEW j \in locals PROVE FALSE
      OBVIOUS
    <3>1. off + Depth(body[j]) <= k /\ Depth(body[j]) \in 1..d
      BY <1>10, <1>11
    <3> QED
      BY <3>1, <1>1, <1>8, <1>9, <1>13
  <2>2. \/ SectorAt(place) = 0 /\ MembersAround(place, x) = {}
        \/ /\ SectorAt(place) # 0 /\ SectorAt(place) \in DOMAIN sectorScope
           /\ MembersAround(place, x) = MembersOf(symbols[SectorAt(place)].decl[1], x)
    BY <1>2, SectorAround
  <2> DEFINE S == SectorAt(place)
             M == MembersOf(symbols[S].decl[1], x)
             ids == sectorScope[S]
  <2>3. SectorAt(place) # 0 => ids \subseteq DOMAIN symbols /\ Table(symbols, ids, Values, x, M) /\ Pairs(M) /\ \A t, u \in OfIn(symbols, ids, Values, x) : t = u
    <3>1. M \ {} = M
      OBVIOUS
    <3>2. S \in DOMAIN sectorScope => Table(symbols, ids, Values, x, M \ {}) /\ \A t, u \in OfIn(symbols, ids, Values, x) : t = u
      BY DEF Collection, MembersOK
    <3>3. Pairs(M)
      BY PlacesOfTables
    <3> QED
      BY <3>1, <3>2, <3>3, <2>2, <1>5
  <2>4. Table(symbols, globals, Values, x, Global(x)) /\ Pairs(Global(x))
    <3>1. Global(x) \ {} = Global(x)
      OBVIOUS
    <3>2. Table(symbols, globals, Values, x, Global(x) \ {})
      BY DEF Collection, GlobalsOK
    <3> QED
      BY <3>1, <3>2, PlacesOfTables
  <2>5. k = 1 \/ (k = 2 /\ off = 2 /\ SectorAt(place) # 0)
    BY <1>1, <1>8, <1>9, <1>13 DEF off
  <2>6. CASE k = 2 /\ SectorAt(place) # 0
    <3>1. found = OfIn(symbols, ids, Values, x)
      BY <1>1, <1>6, <1>8, <2>6
    <3>7. s = Chosen(OfIn(symbols, ids, Values, x), FileOf(place))
      BY <3>1
    <3>8. ids \subseteq DOMAIN symbols /\ Table(symbols, ids, Values, x, M) /\ Pairs(M)
      BY <2>3, <2>6
    <3> HIDE DEF M, ids
    <3>9. StandsFor(ids, x, M, place, s)
      BY <3>7, <3>8, <1>5, TableChosen
    <3> HIDE DEF found
    <3>2. s \in found /\ s \in DOMAIN symbols
      BY <3>1, <3>9 DEF StandsFor
    <3>3. \E q \in M : Denotes(symbols[s], q) /\ (M = {q} \/ (found # {s} /\ Cardinality(M) # 1 /\ Same(place, M) = {q}))
      BY <3>1, <3>9 DEF StandsFor
    <3>4. found = {s}
      BY <2>3, <2>6, <3>1, <3>2
    <3>5. PICK q \in M : Denotes(symbols[s], q) /\ M = {q}
      BY <3>3, <3>4
    <3>6. MembersAround(place, x) = {q}
      BY <2>2, <2>6, <3>5 DEF M
    <3> QED
      BY <3>2, <3>5, <3>6, <2>1, <1>4 DEF Denotes
  <2>7. CASE k = 1
    <3>1. found = OfIn(symbols, globals, Values, x)
      BY <1>1, <1>6, <1>8, <2>7
    <3>2. MembersAround(place, x) = {}
      <4>1. CASE SectorAt(place) = 0
        BY <4>1, <2>2
      <4>2. CASE SectorAt(place) # 0
        <5>1. 2 \in 1..Len(Visible) /\ 2 > k
          BY <4>2, <2>7, <1>1, <1>9 DEF off
        <5>2. Of(ids, Values, x) = {}
          BY <5>1, <4>2, <1>1, <1>8
        <5>3. OfIn(symbols, ids, Values, x) = {}
          BY <5>2, <1>6
        <5>4. M = {}
          BY <5>3, <4>2, <2>3 DEF Table
        <5> QED
          BY <5>4, <4>2, <2>2
      <4> QED
        BY <4>1, <4>2
    <3> DEFINE G == Global(x)
    <3>3. s = Chosen(OfIn(symbols, globals, Values, x), FileOf(place)) /\ Table(symbols, globals, Values, x, G) /\ Pairs(G)
      BY <2>4, <3>1
    <3> HIDE DEF G
    <3>8. StandsFor(globals, x, G, place, s)
      BY <3>3, <1>5, TableChosen
    <3> HIDE DEF found
    <3>4. s \in found /\ s \in DOMAIN symbols
      BY <3>1, <3>8 DEF StandsFor
    <3>5. \E q \in G : Denotes(symbols[s], q) /\ (G = {q} \/ (found # {s} /\ Cardinality(G) # 1 /\ Same(place, G) = {q}))
      BY <3>1, <3>8 DEF StandsFor
    <3>6. PICK q \in G : Denotes(symbols[s], q) /\ (G = {q} \/ (Cardinality(G) # 1 /\ Same(place, G) = {q}))
      BY <3>5
    <3>7. <<q[1], q[2], 0>> \in Meaning(place, line, x)
      BY <3>2, <3>6, <2>1, <1>4 DEF G
    <3> QED
      BY <3>4, <3>6, <3>7 DEF Denotes
  <2> QED
    BY <2>5, <2>6, <2>7
<1> QED
  BY <1>12, <1>13

-----------------------------------------------------------------------------
(* The inductive invariant.                                                  *)

\* The uses that have been resolved refer to what the scoping rules give them.
RefsOK(syms, rs) ==
  \A r \in rs : r.form = "use" => r.sym \in DOMAIN syms /\ syms[r.sym].decl \in Meaning(<<r.at[1], r.at[2]>>, r.at[3], r.name)

\* The use at line l of p refers to something.
Referred(rs, p, l) == Body(p)[l].form = "use" => \E r \in rs : r.at = <<p[1], p[2], l>> /\ r.name = Body(p)[l].name

\* Every use is resolved but those of the bodies to come and of the rest of this one.
ReferredOK(rs, rest, pl, ln) ==
  \A p \in Everywhere \ rest : \A l \in DOMAIN Body(p) : (p = pl => l < ln) => Referred(rs, p, l)

\* The walk is in a body that is no longer to come, or in none; what is left of a
\* pattern binds names of the line before only.
PositionOK(rest, pl, ln, ns) ==
  /\ rest \subseteq Everywhere /\ (pl = <<0, 0>> \/ pl \in Everywhere \ rest)
  /\ ln \in 1..(Len(Body(pl)) + 1) /\ ns \in Seq(Range(ns))
  /\ ns # <<>> => /\ ln > 1 /\ Body(pl)[ln - 1].form = "arm" /\ VarsOf(ns) \subseteq VarsOf(Body(pl)[ln - 1].pat)

\* An alias stands for a pattern that binds nothing.
AliasesOK(as) == \A a \in DOMAIN as : ParsedPattern(as[a]) /\ ~ HasVar(as[a])

\* What holds at a point of the walk over the bodies.
ResolvingAt(syms, globs, secs, as, scs, rs, rest, pl, ln, ns) ==
  /\ Collection(syms, globs, secs, {}) /\ PositionOK(rest, pl, ln, ns) /\ AliasesOK(as)
  /\ ScopesOK(syms, scs, pl, ln, VarsOf(ns)) /\ RefsOK(syms, rs) /\ ReferredOK(rs, rest, pl, ln)

ResolvingOK == ResolvingAt(symbols, globals, sectorScope, aliases, scopes, refs, agenda, place, line, nodes)

\* Nothing has been resolved before the walk begins.
Untouched == aliases = <<>> /\ scopes = <<>> /\ refs = {} /\ place = <<0, 0>> /\ line = 1 /\ nodes = <<>>

\* The inductive invariant: before, while and after names are collected and resolved.
NameInv ==
  /\ at \in {"loading", "loaded", "collecting"} => Untouched
  /\ at \in {"loading", "loaded"} => sectorScope = <<>>
  /\ at = "collecting" => AgendaOK(agenda) /\ Collection(symbols, globals, sectorScope, agenda)
  /\ at = "resolving" => ResolvingOK
  /\ RefsOK(symbols, refs)
  /\ at = "done" => \A p \in Everywhere : \A l \in DOMAIN Body(p) : Referred(refs, p, l)

\* What a name means is the same while the program is.
LEMMA SameMeaning ==
  ASSUME SameProgram
  PROVE  \A p, l, x : Meaning(p, l, x)' = Meaning(p, l, x)
<1>1. \A p : Item(p)' = Item(p) /\ FileOf(p)' = FileOf(p) /\ Body(p)' = Body(p)
  BY SameText
<1>2. Everywhere' = Everywhere /\ DiscardNames' = DiscardNames /\ \A n : IsMain(n)' = IsMain(n)
  BY SameText
<1>3. DOMAIN items' = DOMAIN items
  BY DEF SameProgram
<1> TAKE p, l, x
<1>4. Global(x)' = Global(x)
  BY SameTables
<1>5. Named(Members, x)' = Named(Members, x)
  <2>1. \A ks : Kinds(ks)' = Kinds(ks)
    BY <1>2 DEF SameProgram, Kinds, Item
  <2> QED
    BY <2>1 DEF SameProgram, Named, Item
<1>6. SectorOf(p)' = SectorOf(p)
  BY <1>2, <1>3 DEF SameProgram, SectorOf, Item, IsMain
<1>7. MembersAround(p, x)' = MembersAround(p, x)
  BY <1>2, <1>5, <1>6 DEF SameProgram, MembersAround, Binds, Discarded, Item
<1>8. Same(p, Global(x))' = Same(p, Global(x))
  BY <1>4 DEF SameProgram, Same, FileOf, P
<1>9. Locals(Body(p), l, x)' = Locals(Body(p), l, x)
  <2> DEFINE body == Body(p)
  <2>1. body' = body
    BY <1>1
  <2> HIDE DEF body
  <2>2. Locals(body, l, x)' = Locals(body, l, x)
    BY <2>1, <1>2 DEF Locals, BoundBy, Discarded, VarsOf, Depth
  <2> QED
    BY <2>2 DEF body
<1> DEFINE G == Global(x)
           M == MembersAround(p, x)
           S == Same(p, Global(x))
           L == Locals(Body(p), l, x)
           body == Body(p)
<1>10. G' = G /\ M' = M /\ S' = S /\ L' = L /\ body' = body
  BY <1>1, <1>4, <1>7, <1>8, <1>9
<1>11. Meaning(p, l, x) =
         IF L # {} THEN {<<p[1], p[2], j>> : j \in {k \in L : \A j \in L : Depth(body[j]) <= Depth(body[k])}}
         ELSE LET found == IF M # {} THEN M ELSE IF Cardinality(G) = 1 THEN G ELSE S
              IN  IF Cardinality(found) = 1 THEN {<<q[1], q[2], 0>> : q \in found} ELSE {}
  BY DEF Meaning, MembersAround
<1>12. Meaning(p, l, x)' =
         IF L' # {} THEN {<<p[1], p[2], j>> : j \in {k \in L' : \A j \in L' : Depth(body'[j]) <= Depth(body'[k])}}
         ELSE LET found == IF M' # {} THEN M' ELSE IF Cardinality(G') = 1 THEN G' ELSE S'
              IN  IF Cardinality(found) = 1 THEN {<<q[1], q[2], 0>> : q \in found} ELSE {}
  BY DEF Meaning, MembersAround
<1> HIDE DEF G, M, S, L, body
<1> QED
  BY <1>10, <1>11, <1>12, Zenon

\* Resolving, in words of the next state and the program.
LEMMA SameResolving ==
  ASSUME SameProgram
  PROVE  /\ ResolvingOK' = ResolvingAt(symbols', globals', sectorScope', aliases', scopes', refs', agenda', place', line', nodes')
         /\ RefsOK(symbols, refs)' = RefsOK(symbols', refs')
         /\ (\A p \in Everywhere : \A l \in DOMAIN Body(p) : Referred(refs, p, l))'
              = \A p \in Everywhere : \A l \in DOMAIN Body(p) : Referred(refs', p, l)
<1>1. \A p : FileOf(p)' = FileOf(p) /\ Body(p)' = Body(p)
  BY SameText
<1>2. Everywhere' = Everywhere /\ DiscardNames' = DiscardNames
  BY SameText
<1>3. \A p, l, x : Meaning(p, l, x)' = Meaning(p, l, x)
  BY SameMeaning
<1>4. RefsOK(symbols, refs)' = RefsOK(symbols', refs')
  BY <1>3 DEF RefsOK
<1>5. \A p, l : Referred(refs, p, l)' = Referred(refs', p, l)
  BY <1>1 DEF Referred
<1>6. ReferredOK(refs, agenda, place, line)' = ReferredOK(refs', agenda', place', line')
  BY <1>1, <1>2 DEF ReferredOK, Referred, Body, SameProgram, Item
<1>7. PositionOK(agenda, place, line, nodes)' = PositionOK(agenda', place', line', nodes')
  BY <1>2 DEF PositionOK, Body, SameProgram, Item, VarsOf
<1>8. AliasesOK(aliases)' = AliasesOK(aliases')
  BY DEF AliasesOK, HasVar, ParsedPattern
<1>9. ScopesOK(symbols, scopes, place, line, VarsOf(nodes))' = ScopesOK(symbols', scopes', place', line', VarsOf(nodes'))
  <2>1. DepthAt(place, line)' = DepthAt(place', line')
    BY <1>2 DEF DepthAt, Body, DepthBehind, SameProgram, Item
  <2>2. \A k : ScopeOK(symbols, scopes[k], place, line, k, VarsOf(nodes))' = ScopeOK(symbols', scopes'[k], place', line', k, VarsOf(nodes'))
    BY <1>2 DEF ScopeOK, KnownAt, BoundBy, Discarded, VarsOf, Depth, FileOf, Body, SameProgram, Item, P
  <2> QED
    BY <2>1, <2>2 DEF ScopesOK
<1>10. Collection(symbols, globals, sectorScope, {})' = Collection(symbols', globals', sectorScope', {})
  BY SameCollection
<1>11. ResolvingOK' = ResolvingAt(symbols', globals', sectorScope', aliases', scopes', refs', agenda', place', line', nodes')
  BY <1>4, <1>6, <1>7, <1>8, <1>9, <1>10 DEF ResolvingOK, ResolvingAt
<1>12. (\A p \in Everywhere : \A l \in DOMAIN Body(p) : Referred(refs, p, l))'
              = \A p \in Everywhere : \A l \in DOMAIN Body(p) : Referred(refs', p, l)
  BY <1>2 DEF Referred, Body, SameProgram, Item
<1> QED
  BY <1>4, <1>11, <1>12

-----------------------------------------------------------------------------
(* A step of resolving keeps it.                                             *)

\* More symbols change nothing that was resolved.
LEMMA RefsGrown ==
  ASSUME NEW syms, NEW more, Grows(syms, more), NEW rs, RefsOK(syms, rs)
  PROVE  RefsOK(more, rs)
BY DEF RefsOK, Grows

\* The walk goes on to the next line, if it was no use or the use has been resolved.
LEMMA OneLineOn ==
  ASSUME ProgramOK, NEW rs, NEW rest, NEW pl, NEW ln \in 1..Len(Body(pl)), ReferredOK(rs, rest, pl, ln),
         NEW more, rs \subseteq more, Referred(more, pl, ln)
  PROVE  ReferredOK(more, rest, pl, ln + 1)
<1> SUFFICES ASSUME NEW p \in Everywhere \ rest, NEW l \in DOMAIN Body(p), p = pl => l < ln + 1
             PROVE  Referred(more, p, l)
  BY DEF ReferredOK
<1>1. CASE p = pl /\ l = ln
  BY <1>1
<1>2. CASE ~ (p = pl /\ l = ln)
  <2>1. p = pl => l \in Nat /\ ln \in Nat
    BY LineFacts
  <2>2. p = pl => l < ln
    BY <1>2, <2>1
  <2>3. Referred(rs, p, l)
    BY <2>2 DEF ReferredOK
  <2> QED
    BY <2>3 DEF Referred
<1> QED
  BY <1>1, <1>2

\* The next line of the body in which the walk is.
LEMMA LineInBody ==
  ASSUME ProgramOK, ResolvingOK, line <= Len(Body(place))
  PROVE  /\ line \in 1..Len(Body(place)) /\ line + 1 \in 1..(Len(Body(place)) + 1) /\ place \in Everywhere \ agenda
         /\ Line = Body(place)[line] /\ line \in Nat /\ line + 1 > 1 /\ (line + 1) - 1 = line
<1>1. line \in 1..(Len(Body(place)) + 1) /\ (place = <<0, 0>> \/ place \in Everywhere \ agenda)
  BY DEF ResolvingOK, ResolvingAt, PositionOK
<1>2. Len(Body(place)) \in Nat
  <2>1. CASE place \in Everywhere
    <3>1. ParsedItem(Item(place)) /\ Body(place) = Item(place).body
      BY <2>1, PlaceFacts2 DEF PlaceOK, Body
    <3>2. Body(place) \in Seq(Range(Body(place)))
      BY <3>1 DEF ParsedItem, ParsedBody
    <3> QED
      BY <3>2
  <2>2. CASE place \notin Everywhere
    <3>1. Body(place) = <<>>
      BY <2>2 DEF Body
    <3> QED
      BY <3>1
  <2> QED
    BY <2>1, <2>2
<1>3. line \in 1..Len(Body(place)) /\ line + 1 \in 1..(Len(Body(place)) + 1) /\ line \in Nat /\ line + 1 > 1 /\ (line + 1) - 1 = line
  BY <1>1, <1>2
<1>4. place \in Everywhere
  BY <1>3, LineFacts
<1>5. place # <<0, 0>>
  BY <1>4, PlaceFacts2 DEF PlaceOK
<1> QED
  BY <1>1, <1>3, <1>4, <1>5 DEF Line

\* A use is resolved.
LEMMA ReferKeeps ==
  ASSUME ProgramOK, ResolvingOK, nodes = <<>>, line <= Len(Body(place)), Line.form \in {"use", "member", "type", "await", "rpc"},
         NEW uses, Refer(uses),
         \A r \in uses : r.form = "use" => r.sym \in DOMAIN symbols /\ symbols[r.sym].decl \in Meaning(<<r.at[1], r.at[2]>>, r.at[3], r.name),
         Line.form = "use" => \E r \in uses : r.at = <<place[1], place[2], line>> /\ r.name = Line.name
  PROVE  ResolvingAt(symbols', globals', sectorScope', aliases', scopes', refs', agenda', place', line', nodes')
<1>1. /\ line \in 1..Len(Body(place)) /\ line + 1 \in 1..(Len(Body(place)) + 1) /\ place \in Everywhere \ agenda
      /\ Line = Body(place)[line]
  BY LineInBody
<1>2. /\ symbols' = symbols /\ globals' = globals /\ sectorScope' = sectorScope /\ aliases' = aliases /\ scopes' = Open
      /\ refs' = refs \union uses /\ agenda' = agenda /\ place' = place /\ line' = line + 1 /\ nodes' = <<>>
  BY DEF Refer, Resolved
<1>3. VarsOf(<<>>) = {}
  BY DEF VarsOf
<1>4. ScopesOK(symbols, scopes, place, line, {})
  BY <1>3 DEF ResolvingOK, ResolvingAt
<1>5. ScopesOK(symbols, Open, place, line + 1, {})
  <2>1. Open = SubSeq(scopes, 1, Body(place)[line].d) /\ BoundBy(Body(place)[line]) = {} /\ Body(place)[line].form \notin {"block", "for", "arm"}
    BY <1>1 DEF Open, BoundBy
  <2>2. PICK open : open = Open
    OBVIOUS
  <2>3. open = SubSeq(scopes, 1, Body(place)[line].d) /\ open = IF Body(place)[line].form \in {"block", "for", "arm"} THEN Append(open, {}) ELSE open
    BY <2>1, <2>2
  <2>4. ScopesOK(symbols, open, place, line + 1, BoundBy(Body(place)[line]))
    BY <1>1, <1>4, <2>3, LineScopes
  <2> QED
    BY <2>1, <2>2, <2>4
<1>6. PositionOK(agenda, place, line + 1, <<>>)
  BY <1>1 DEF ResolvingOK, ResolvingAt, PositionOK
<1>7. RefsOK(symbols, refs \union uses)
  BY DEF ResolvingOK, ResolvingAt, RefsOK
<1>8. ReferredOK(refs \union uses, agenda, place, line + 1)
  <2>1. Referred(refs \union uses, place, line)
    BY <1>1 DEF Referred
  <2>2. ReferredOK(refs, agenda, place, line)
    BY DEF ResolvingOK, ResolvingAt
  <2>3. \A more : refs \subseteq more /\ Referred(more, place, line) => ReferredOK(more, agenda, place, line + 1)
    BY <1>1, <2>2, OneLineOn
  <2> QED
    BY <2>1, <2>3
<1> QED
  BY <1>2, <1>3, <1>5, <1>6, <1>7, <1>8 DEF ResolvingOK, ResolvingAt

\* What the steps that resolve a use say, when they reject nothing.
LEMMA MemberSays ==
  ASSUME Resolved, at = "resolving", ResolveMember
  PROVE  nodes = <<>> /\ line <= Len(Body(place)) /\ Line.form = "member"
         /\ \E k \in {Max(Modules)} : Refer({Use("member", FieldOf(Line, k), Min(Namespaced(k)))})
BY DEF Resolved, ResolveMember, Resolving, Reject

\* A name that is resolved to a symbol is used, and found, as it is said.
LEMMA NameSays ==
  ASSUME Resolved, at = "resolving", ResolveName
  PROVE  LET x == IF Line.form = "member" THEN Head(Line.of) ELSE Line.name
             s == Chosen(Lookup(Visible, x), FileOf(place))
         IN  nodes = <<>> /\ line <= Len(Body(place)) /\ Line.form \in {"use", "member"} /\ s # 0 /\ Refer({Use("use", x, s)})
BY DEF Resolved, ResolveName, Resolving, Reject

\* A type and the event of an await refer to no value.
LEMMA TypeSays ==
  ASSUME Resolved, at = "resolving", ResolveType
  PROVE  /\ nodes = <<>> /\ line <= Len(Body(place)) /\ Line.form \in {"type", "await"}
         /\ \E uses : Refer(uses) /\ \A r \in uses : r.form # "use"
<1>1. nodes = <<>> /\ line <= Len(Body(place)) /\ Line.form \in {"type", "await"}
  BY Zenon DEF ResolveType, Resolving
<1> DEFINE types == Of(globals, {"type"}, Line.name)
           one == {Use("type", Line.name, tparams[Line.name])}
           two == {Use(Line.form, Line.name, Min(types))}
<1>2. Refer(one) \/ Refer(two) \/ Refer({})
  BY DEF Resolved, ResolveType, Reject
<1>3. \A r \in one \union two \union {} : r.form # "use"
  BY <1>1 DEF Use
<1> HIDE DEF one, two
<1> QED
  BY <1>1, <1>2, <1>3

\* A call of a sector refers to no name of the body.
LEMMA SectorCallSays ==
  ASSUME Resolved, at = "resolving", ResolveSectorCall
  PROVE  /\ nodes = <<>> /\ line <= Len(Body(place)) /\ Line.form = "rpc"
         /\ \E uses : Refer(uses) /\ \A r \in uses : r.form # "use"
<1>1. nodes = <<>> /\ line <= Len(Body(place)) /\ Line.form = "rpc"
  <2>1. Resolving({"rpc"})
    BY Zenon DEF ResolveSectorCall
  <2> QED
    BY <2>1 DEF Resolving
<1> DEFINE S == Min(Sectors(Head(Line.of)))
           found == Lookup(<<globals, sectorScope[S]>>, Line.name)
                    \union {s \in DOMAIN symbols : symbols[s].kind = "fn" /\ symbols[s].name = Line.name /\ symbols[s].sector = S}
           uses == {Use("sector", Head(Line.of), S), Use("rpc", Line.name, Min(found))}
<1>2. Refer(uses)
  BY DEF Resolved, ResolveSectorCall, Reject
<1>3. \A r \in uses : r.form # "use"
  BY DEF Use
<1> HIDE DEF uses
<1> QED
  BY <1>1, <1>2, <1>3

\* The steps that resolve a use.
LEMMA UsesKeep ==
  ASSUME ProgramOK, ResolvingOK, at = "resolving", Resolved, ResolveMember \/ ResolveName \/ ResolveType \/ ResolveSectorCall
  PROVE  ResolvingAt(symbols', globals', sectorScope', aliases', scopes', refs', agenda', place', line', nodes')
<1>1. ASSUME nodes = <<>>, line <= Len(Body(place)), Line.form \in {"member", "type", "await", "rpc"},
             NEW uses, Refer(uses), \A r \in uses : r.form # "use"
      PROVE  ResolvingAt(symbols', globals', sectorScope', aliases', scopes', refs', agenda', place', line', nodes')
  <2>1. Line.form # "use" /\ Line.form \in {"use", "member", "type", "await", "rpc"}
    BY <1>1
  <2> QED
    BY <1>1, <2>1, ReferKeeps
<1>2. CASE ResolveMember
  <2> DEFINE k == Max(Modules)
             uses == {Use("member", FieldOf(Line, k), Min(Namespaced(k)))}
  <2>1. nodes = <<>> /\ line <= Len(Body(place)) /\ Line.form = "member" /\ Refer(uses)
    BY <1>2, MemberSays
  <2>2. \A r \in uses : r.form # "use"
    BY DEF Use
  <2> HIDE DEF uses
  <2> QED
    BY <2>1, <2>2, <1>1
<1>3. CASE ResolveType
  <2>1. nodes = <<>> /\ line <= Len(Body(place)) /\ Line.form \in {"type", "await"} /\ \E uses : Refer(uses) /\ \A r \in uses : r.form # "use"
    BY <1>3, TypeSays
  <2> QED
    BY <2>1, <1>1
<1>4. CASE ResolveSectorCall
  <2>1. nodes = <<>> /\ line <= Len(Body(place)) /\ Line.form = "rpc" /\ \E uses : Refer(uses) /\ \A r \in uses : r.form # "use"
    BY <1>4, SectorCallSays
  <2> QED
    BY <2>1, <1>1
<1>5. CASE ResolveName
  <2> DEFINE x == IF Line.form = "member" THEN Head(Line.of) ELSE Line.name
             s == Chosen(Lookup(Visible, x), FileOf(place))
             uses == {Use("use", x, s)}
  <2>1. nodes = <<>> /\ line <= Len(Body(place)) /\ Line.form \in {"use", "member"} /\ s # 0 /\ Refer(uses)
    BY <1>5, NameSays
  <2>2. Collection(symbols, globals, sectorScope, {}) /\ ScopesOK(symbols, scopes, place, line, {}) /\ line \in 1..Len(Body(place)) /\ place = <<place[1], place[2]>>
    <3>1. VarsOf(<<>>) = {}
      BY DEF VarsOf
    <3>2. place \in Everywhere /\ line \in 1..Len(Body(place))
      BY <2>1, LineInBody
    <3>3. place = <<place[1], place[2]>>
      BY <3>2, PlaceFacts2 DEF PlaceOK
    <3> QED
      BY <2>1, <3>1, <3>2, <3>3 DEF ResolvingOK, ResolvingAt
  <2>3. Line.form = "use" => x = Line.name
    BY DEF x
  <2> HIDE DEF x
  <2>4. PICK t : t = Chosen(Lookup(Visible, x), FileOf(place)) /\ t # 0 /\ t = s
    BY <2>1
  <2> HIDE DEF s
  <2>5. t \in DOMAIN symbols /\ symbols[t].decl \in Meaning(place, line, x)
    BY <2>2, <2>4, NameMeans
  <2>6. \A r \in uses : r.sym = t /\ r.at = <<place[1], place[2], line>> /\ r.name = x
    BY <2>4 DEF Use
  <2>7. Use("use", x, s) \in uses
    OBVIOUS
  <2> HIDE DEF uses
  <2>8. \A r \in uses : r.sym \in DOMAIN symbols /\ symbols[r.sym].decl \in Meaning(<<r.at[1], r.at[2]>>, r.at[3], r.name)
    <3> SUFFICES ASSUME NEW r \in uses PROVE r.sym \in DOMAIN symbols /\ symbols[r.sym].decl \in Meaning(<<r.at[1], r.at[2]>>, r.at[3], r.name)
      BY Zenon
    <3>1. r.at[1] = place[1] /\ r.at[2] = place[2] /\ r.at[3] = line /\ r.sym = t /\ r.name = x
      BY <2>6
    <3>2. <<r.at[1], r.at[2]>> = place
      BY <3>1, <2>2
    <3> QED
      BY <3>1, <3>2, <2>5
  <2>9. Line.form = "use" => \E r \in uses : r.at = <<place[1], place[2], line>> /\ r.name = Line.name
    BY <2>3, <2>6, <2>7
  <2>10. Line.form \in {"use", "member", "type", "await", "rpc"}
    BY <2>1
  <2> QED
    BY <2>1, <2>8, <2>9, <2>10, ReferKeeps
<1> QED
  BY <1>2, <1>3, <1>4, <1>5

\* A name is defined in the innermost scope.
LEMMA DefineKeeps ==
  ASSUME ProgramOK, symbols \in Seq(Range(symbols)), NEW outer, NEW x, NEW l \in 1..Len(Body(place)), Define(outer, x, l),
         ~ Clashes(outer, x), NEW pending, NEW n, n = l + 1, ScopesOK(symbols, outer, place, n, pending),
         Len(outer) > 0, Depth(Body(place)[l]) = Len(outer), ~ Discarded("var", x) => x \in BoundBy(Body(place)[l])
  PROVE  /\ Grows(symbols, symbols') /\ symbols' \in Seq(Range(symbols'))
         /\ ScopesOK(symbols', scopes', place, n, pending \ {x})
<1> DEFINE sym == Sym("var", x, place, 0, 0, l)
           more == Append(symbols, sym)
           out == IF Discarded("var", x) THEN outer ELSE Append(Front(outer), Last(outer) \union {Len(symbols) + 1})
<1>1. symbols' = more /\ scopes' = out
  BY DEF Define, NextId
<1>2. l \in Nat /\ n \in Nat /\ n > 1 /\ n - 1 = l
  BY LineFacts
<1>3. sym.kind = "var" /\ sym.name = x /\ sym.file = FileOf(place) /\ sym.decl = <<place[1], place[2], n - 1>>
  BY <1>2 DEF Sym
<1>4. ~ Discarded("var", x) => \A s \in OfIn(symbols, Last(outer), Values, x) : symbols[s].file # FileOf(place)
  BY DEF Clashes, Taken, Of, OfIn
<1>5. Discarded("var", x) => \A k : KnownAt(place, n, k, x) = {}
  BY DEF KnownAt, BoundBy
<1>6. Grows(symbols, more) /\ more \in Seq(Range(more))
  BY SymbolAdded
<1>7. Depth(Body(place)[n - 1]) = Len(outer) /\ (~ Discarded("var", x) => x \in BoundBy(Body(place)[n - 1]))
  BY <1>2
<1>8. PICK s, o : s = sym /\ o = out
  OBVIOUS
<1> HIDE DEF sym, out
<1>9. /\ s.kind = "var" /\ s.name = x /\ s.file = FileOf(place) /\ s.decl = <<place[1], place[2], n - 1>>
      /\ o = IF Discarded("var", x) THEN outer ELSE Append(Front(outer), Last(outer) \union {Len(symbols) + 1})
  BY <1>3, <1>8 DEF out
<1>10. ScopesOK(Append(symbols, s), o, place, n, pending \ {x})
  BY <1>2, <1>4, <1>5, <1>7, <1>9, NameDefined
<1>11. more = Append(symbols, s)
  BY <1>8
<1> HIDE DEF more
<1> QED
  BY <1>1, <1>6, <1>8, <1>10, <1>11, Zenon

\* What the rest of resolving needs of a step that defines symbols.
LEMMA SymbolsGrown ==
  ASSUME ResolvingOK, Grows(symbols, symbols'), symbols' \in Seq(Range(symbols')), globals' = globals, sectorScope' = sectorScope
  PROVE  Collection(symbols', globals', sectorScope', {}) /\ RefsOK(symbols', refs)
<1>1. Collection(symbols, globals, sectorScope, {}) /\ RefsOK(symbols, refs)
  BY DEF ResolvingOK, ResolvingAt
<1>2. PICK more : more = symbols'
  OBVIOUS
<1>3. Collection(more, globals, sectorScope, {}) /\ RefsOK(more, refs)
  BY <1>1, <1>2, CollectionGrown, RefsGrown
<1> QED
  BY <1>2, <1>3

\* The scopes behind a line that opens no block or one.
LEMMA ScopesBehind ==
  ASSUME ProgramOK, ResolvingOK, nodes = <<>>, line <= Len(Body(place)),
         NEW out, out = IF Line.form \in {"block", "for", "arm"} THEN Append(Open, {}) ELSE Open
  PROVE  ScopesOK(symbols, out, place, line + 1, BoundBy(Line)) /\ Len(out) = DepthBehind(Line) /\ Line.d \in Nat
<1>1. line \in 1..Len(Body(place)) /\ Line = Body(place)[line] /\ line + 1 > 1 /\ (line + 1) - 1 = line
  BY LineInBody
<1>2. ScopesOK(symbols, scopes, place, line, {})
  <2>1. VarsOf(<<>>) = {}
    BY DEF VarsOf
  <2> QED
    BY <2>1 DEF ResolvingOK, ResolvingAt
<1>3. PICK open : open = Open
  OBVIOUS
<1>4. open = SubSeq(scopes, 1, Body(place)[line].d) /\ out = IF Body(place)[line].form \in {"block", "for", "arm"} THEN Append(open, {}) ELSE open
  BY <1>1, <1>3 DEF Open
<1>5. ScopesOK(symbols, out, place, line + 1, BoundBy(Body(place)[line]))
  BY <1>1, <1>2, <1>4, LineScopes
<1>6. Len(out) = DepthAt(place, line + 1) /\ DepthAt(place, line + 1) = DepthBehind(Body(place)[line])
  BY <1>1, <1>5 DEF ScopesOK, DepthAt
<1>7. Body(place)[line].d \in Nat
  BY <1>1, LineFacts
<1> QED
  BY <1>1, <1>5, <1>6, <1>7

\* The walk goes on behind a line that is no use.
LEMMA WalkOn ==
  ASSUME ProgramOK, ResolvingOK, line <= Len(Body(place)), Line.form # "use", NEW ns, ns \in Seq(Range(ns)),
         ns # <<>> => Line.form = "arm" /\ VarsOf(ns) \subseteq VarsOf(Line.pat)
  PROVE  PositionOK(agenda, place, line + 1, ns) /\ ReferredOK(refs, agenda, place, line + 1)
<1>1. /\ line \in 1..Len(Body(place)) /\ line + 1 \in 1..(Len(Body(place)) + 1) /\ Line = Body(place)[line] /\ line + 1 > 1 /\ (line + 1) - 1 = line
  BY LineInBody
<1>2. PositionOK(agenda, place, line + 1, ns)
  BY <1>1 DEF ResolvingOK, ResolvingAt, PositionOK
<1>3. Referred(refs, place, line)
  BY <1>1 DEF Referred
<1>4. ReferredOK(refs, agenda, place, line)
  BY DEF ResolvingOK, ResolvingAt
<1>5. \A more : refs \subseteq more /\ Referred(more, place, line) => ReferredOK(more, agenda, place, line + 1)
  BY <1>1, <1>4, OneLineOn
<1> QED
  BY <1>2, <1>3, <1>5

\* A let or a for binds its name in the block behind it.
LEMMA BindKeeps ==
  ASSUME ProgramOK, ResolvingOK, at = "resolving", Resolved, Bind
  PROVE  ResolvingAt(symbols', globals', sectorScope', aliases', scopes', refs', agenda', place', line', nodes')
<1> DEFINE outer == IF Line.form = "for" THEN Append(Open, {}) ELSE Open
           x == Line.name
<1>1. nodes = <<>> /\ line <= Len(Body(place)) /\ Line.form \in {"let", "for"}
  <2>1. Resolving({"let", "for"})
    BY Zenon DEF Bind
  <2> QED
    BY <2>1 DEF Resolving
<1>2. ~ Clashes(outer, x) /\ Define(outer, x, line) /\ line' = line + 1 /\ nodes' = nodes
  BY DEF Bind, Reject, Resolved
<1>3. /\ line \in 1..Len(Body(place)) /\ Line = Body(place)[line]
  BY <1>1, LineInBody
<1>4. PICK out : out = outer
  OBVIOUS
<1>5. out = IF Line.form \in {"block", "for", "arm"} THEN Append(Open, {}) ELSE Open
  BY <1>1, <1>4
<1> HIDE DEF outer
<1>6. ScopesOK(symbols, out, place, line + 1, BoundBy(Line)) /\ Len(out) = DepthBehind(Line) /\ Line.d \in Nat
  BY <1>1, <1>5, ScopesBehind
<1>7. Len(out) > 0 /\ Depth(Line) = Len(out)
  <2>1. Line.form = "let" => Line.d > 0
    BY <1>3, LineFacts
  <2> QED
    BY <1>1, <1>6, <2>1 DEF DepthBehind, Depth
<1>8. (~ Discarded("var", x) => x \in BoundBy(Line)) /\ BoundBy(Line) \ {x} = {}
  BY <1>1 DEF BoundBy
<1>9. symbols \in Seq(Range(symbols))
  BY DEF ResolvingOK, ResolvingAt, Collection, SymbolsOK
<1>10. PICK n : n = line + 1
  OBVIOUS
<1>11. Grows(symbols, symbols') /\ symbols' \in Seq(Range(symbols')) /\ ScopesOK(symbols', scopes', place, n, BoundBy(Line) \ {x})
  <2>1. Define(out, x, line) /\ ~ Clashes(out, x)
    BY <1>2, <1>4
  <2>2. ScopesOK(symbols, out, place, n, BoundBy(Line)) /\ Len(out) > 0 /\ Depth(Body(place)[line]) = Len(out)
    BY <1>3, <1>6, <1>7, <1>10
  <2>3. ~ Discarded("var", x) => x \in BoundBy(Body(place)[line])
    BY <1>3, <1>8
  <2> HIDE DEF x
  <2>4. line \in 1..Len(Body(place)) /\ n = line + 1
    BY <1>3, <1>10
  <2> QED
    BY <1>9, <2>1, <2>2, <2>3, <2>4, DefineKeeps
<1>12. PositionOK(agenda, place, line + 1, <<>>) /\ ReferredOK(refs, agenda, place, line + 1)
  <2>1. Line.form # "use" /\ <<>> \in Seq(Range(<<>>))
    BY <1>1
  <2> QED
    BY <1>1, <2>1, WalkOn
<1>13. /\ globals' = globals /\ sectorScope' = sectorScope /\ aliases' = aliases /\ refs' = refs /\ agenda' = agenda /\ place' = place
       /\ line' = line + 1 /\ nodes' = <<>>
  BY <1>1, <1>2 DEF Define, Resolved
<1>14. Collection(symbols', globals', sectorScope', {}) /\ RefsOK(symbols', refs)
  BY <1>11, <1>13, SymbolsGrown
<1>15. ScopesOK(symbols', scopes', place, line + 1, VarsOf(<<>>))
  <2>1. VarsOf(<<>>) = {}
    BY DEF VarsOf
  <2>2. BoundBy(Line) \ {x} = VarsOf(<<>>)
    BY <1>8, <2>1
  <2> QED
    BY <2>2, <1>10, <1>11, Zenon
<1>16. AliasesOK(aliases)
  BY DEF ResolvingOK, ResolvingAt
<1> QED
  BY <1>12, <1>13, <1>14, <1>15, <1>16 DEF ResolvingAt

\* A block or an arm opens a scope; the pattern of an arm is still to be matched.
LEMMA OpenScopeKeeps ==
  ASSUME ProgramOK, ResolvingOK, at = "resolving", OpenScope
  PROVE  ResolvingAt(symbols', globals', sectorScope', aliases', scopes', refs', agenda', place', line', nodes')
<1> DEFINE ns == IF Line.form = "arm" THEN Line.pat ELSE <<>>
           out == Append(Open, {})
<1>1. nodes = <<>> /\ line <= Len(Body(place)) /\ Line.form \in {"block", "arm"}
  BY DEF OpenScope, Resolving
<1>2. /\ symbols' = symbols /\ globals' = globals /\ sectorScope' = sectorScope /\ aliases' = aliases /\ scopes' = out
      /\ refs' = refs /\ agenda' = agenda /\ place' = place /\ line' = line + 1 /\ nodes' = ns
  BY DEF OpenScope, Resolved
<1>3. line \in 1..Len(Body(place)) /\ Line = Body(place)[line]
  BY <1>1, LineInBody
<1>4. ns \in Seq(Range(ns)) /\ (ns # <<>> => Line.form = "arm" /\ VarsOf(ns) \subseteq VarsOf(Line.pat))
  <2>1. CASE Line.form = "arm"
    <3>1. Line.pat \in Seq(Range(Line.pat)) /\ ns = Line.pat
      BY <2>1, <1>3, LineFacts
    <3> QED
      BY <2>1, <3>1
  <2>2. CASE Line.form # "arm"
    BY <2>2
  <2> QED
    BY <2>1, <2>2
<1>5. BoundBy(Line) \subseteq VarsOf(ns)
  BY <1>1 DEF BoundBy
<1> HIDE DEF ns
<1>6. ScopesOK(symbols, out, place, line + 1, BoundBy(Line))
  <2>1. PICK o : o = out
    OBVIOUS
  <2>2. o = IF Line.form \in {"block", "for", "arm"} THEN Append(Open, {}) ELSE Open
    BY <1>1, <2>1
  <2> HIDE DEF out
  <2>3. ScopesOK(symbols, o, place, line + 1, BoundBy(Line))
    BY <1>1, <2>2, ScopesBehind
  <2> QED
    BY <2>1, <2>3
<1> HIDE DEF out
<1>7. ScopesOK(symbols, out, place, line + 1, VarsOf(ns))
  <2>1. Grows(symbols, symbols)
    BY DEF Grows
  <2>2. PICK n, w, v : n = line + 1 /\ w = BoundBy(Line) /\ v = VarsOf(ns)
    OBVIOUS
  <2>3. w \subseteq v /\ ScopesOK(symbols, out, place, n, w)
    BY <1>5, <1>6, <2>2
  <2>4. ScopesOK(symbols, out, place, n, v)
    BY <2>1, <2>3, ScopesGrown
  <2> QED
    BY <2>2, <2>4
<1>8. PositionOK(agenda, place, line + 1, ns) /\ ReferredOK(refs, agenda, place, line + 1)
  <2>1. Line.form # "use"
    BY <1>1
  <2> QED
    BY <1>1, <1>4, <2>1, WalkOn
<1> QED
  BY <1>2, <1>7, <1>8 DEF ResolvingOK, ResolvingAt

\* A step within a pattern stays behind the line; the names that are left are
\* names of the pattern, and the new scopes wait for no others.
LEMMA PatternKeeps ==
  ASSUME ProgramOK, ResolvingOK, nodes # <<>>, Grows(symbols, symbols'), symbols' \in Seq(Range(symbols')),
         globals' = globals, sectorScope' = sectorScope, aliases' = aliases, agenda' = agenda, place' = place, line' = line,
         RefsOK(symbols, refs'), refs \subseteq refs',
         nodes' \in Seq(Range(nodes')), VarsOf(nodes') \subseteq VarsOf(nodes), ScopesOK(symbols', scopes', place, line, VarsOf(nodes'))
  PROVE  ResolvingAt(symbols', globals', sectorScope', aliases', scopes', refs', agenda', place', line', nodes')
<1>1. Collection(symbols', globals', sectorScope', {})
  BY SymbolsGrown
<1>2. PositionOK(agenda, place, line, nodes')
  BY DEF ResolvingOK, ResolvingAt, PositionOK
<1>3. ReferredOK(refs', agenda, place, line)
  BY DEF ResolvingOK, ResolvingAt, ReferredOK, Referred
<1>4. AliasesOK(aliases)
  BY DEF ResolvingOK, ResolvingAt
<1>5. RefsOK(symbols', refs')
  <2>1. PICK more, rs : more = symbols' /\ rs = refs'
    OBVIOUS
  <2>2. RefsOK(more, rs)
    BY <2>1, RefsGrown
  <2> QED
    BY <2>1, <2>2
<1> QED
  BY <1>1, <1>2, <1>3, <1>4, <1>5 DEF ResolvingAt

\* The first node of a pattern and the others.
LEMMA NodeFacts ==
  ASSUME NEW ns, ns \in Seq(Range(ns)), ns # <<>>
  PROVE  /\ Tail(ns) \in Seq(Range(Tail(ns))) /\ Tail(ns) \in Seq(Range(ns)) /\ Head(ns) \in Range(ns)
         /\ VarsOf(Tail(ns)) \subseteq VarsOf(ns)
         /\ VarsOf(ns) = VarsOf(Tail(ns)) \union (IF Head(ns).form = "var" THEN {Head(ns).name} ELSE {})
<1> DEFINE S == Range(ns)
           t == Tail(ns)
           h == Head(ns)
<1>1. ns \in Seq(S) /\ Len(ns) \in Nat /\ Len(ns) > 0
  OBVIOUS
<1>2. t \in Seq(S) /\ Len(t) = Len(ns) - 1 /\ (\A k \in 1..(Len(ns) - 1) : t[k] = ns[k + 1]) /\ h = ns[1]
  BY <1>1
<1>3. t \in Seq(Range(t))
  <2> HIDE DEF t, S
  <2> QED
    BY <1>2, OverRange
<1>4. DOMAIN ns = 1..Len(ns) /\ DOMAIN t = 1..(Len(ns) - 1)
  BY <1>1, <1>2
<1>5. h \in S
  BY <1>1, <1>2, <1>4 DEF Range
<1> HIDE DEF t, h, S
<1>6. \A x : x \in VarsOf(t) <=> \E k \in 1..(Len(ns) - 1) : t[k].form = "var" /\ t[k].name = x
  BY <1>4 DEF VarsOf
<1>7. \A x : x \in VarsOf(ns) <=> \E k \in 1..Len(ns) : ns[k].form = "var" /\ ns[k].name = x
  BY <1>4 DEF VarsOf
<1>8. VarsOf(t) \subseteq VarsOf(ns)
  <2> SUFFICES ASSUME NEW x \in VarsOf(t) PROVE x \in VarsOf(ns)
    OBVIOUS
  <2>1. PICK k \in 1..(Len(ns) - 1) : t[k].form = "var" /\ t[k].name = x
    BY <1>6
  <2>2. t[k] = ns[k + 1] /\ k + 1 \in 1..Len(ns)
    BY <1>1, <1>2
  <2> QED
    BY <2>1, <2>2, <1>7
<1>9. h.form = "var" => h.name \in VarsOf(ns)
  BY <1>1, <1>2, <1>7
<1>10. ASSUME NEW x \in VarsOf(ns), x \notin VarsOf(t) PROVE h.form = "var" /\ h.name = x
  <2>1. PICK k \in 1..Len(ns) : ns[k].form = "var" /\ ns[k].name = x
    BY <1>7
  <2>2. CASE k = 1
    BY <2>1, <2>2, <1>2
  <2>3. CASE k # 1
    <3>1. k - 1 \in 1..(Len(ns) - 1) /\ t[k - 1] = ns[k]
      BY <1>1, <1>2, <2>3
    <3> QED
      BY <3>1, <2>1, <1>6, <1>10
  <2> QED
    BY <2>2, <2>3
<1>11. VarsOf(ns) = VarsOf(t) \union (IF h.form = "var" THEN {h.name} ELSE {})
  BY <1>8, <1>9, <1>10
<1> QED
  BY <1>2, <1>3, <1>5, <1>8, <1>11 DEF t, h, S

\* u is s and then t.
IsJoined(u, s, t) == u = s \o t

\* What a pattern binds that is put together from two.
LEMMA VarsJoined ==
  ASSUME NEW S, NEW s \in Seq(S), NEW t \in Seq(S), NEW u, IsJoined(u, s, t)
  PROVE  u \in Seq(S) /\ u \in Seq(Range(u)) /\ VarsOf(u) = VarsOf(s) \union VarsOf(t)
<1>1. /\ s \o t \in Seq(S) /\ Len(s \o t) = Len(s) + Len(t) /\ \A k \in 1..Len(s) : (s \o t)[k] = s[k]
      /\ \A k \in 1..Len(t) : (s \o t)[Len(s) + k] = t[k]
  BY Joined
<1>10. u = s \o t
  BY DEF IsJoined
<1>2. u \in Seq(S) /\ Len(u) = Len(s) + Len(t) /\ (\A k \in 1..Len(s) : u[k] = s[k]) /\ \A k \in 1..Len(t) : u[Len(s) + k] = t[k]
  BY <1>1, <1>10, Zenon
<1>3. u \in Seq(Range(u))
  BY <1>2, OverRange
<1>4. DOMAIN u = 1..(Len(s) + Len(t)) /\ DOMAIN s = 1..Len(s) /\ DOMAIN t = 1..Len(t) /\ Len(s) \in Nat /\ Len(t) \in Nat
  BY <1>2
<1>5. ASSUME NEW k \in DOMAIN u, u[k].form = "var" PROVE u[k].name \in VarsOf(s) \union VarsOf(t)
  <2>1. CASE k \in 1..Len(s)
    <3>1. u[k] = s[k] /\ k \in DOMAIN s
      BY <2>1, <1>2, <1>4
    <3> QED
      BY <3>1, <1>5 DEF VarsOf
  <2>2. CASE k \notin 1..Len(s)
    <3>1. k - Len(s) \in 1..Len(t) /\ Len(s) + (k - Len(s)) = k
      BY <2>2, <1>4
    <3>2. PICK j \in 1..Len(t) : Len(s) + j = k
      BY <3>1
    <3>3. u[k] = t[j] /\ j \in DOMAIN t
      BY <3>2, <1>2, <1>4
    <3> QED
      BY <3>3, <1>5 DEF VarsOf
  <2> QED
    BY <2>1, <2>2
<1>6. VarsOf(u) \subseteq VarsOf(s) \union VarsOf(t)
  BY <1>5 DEF VarsOf
<1>7. ASSUME NEW k \in DOMAIN s, s[k].form = "var" PROVE s[k].name \in VarsOf(u)
  <2>1. u[k] = s[k] /\ k \in DOMAIN u
    BY <1>2, <1>4
  <2> QED
    BY <2>1, <1>7 DEF VarsOf
<1>8. ASSUME NEW k \in DOMAIN t, t[k].form = "var" PROVE t[k].name \in VarsOf(u)
  <2>1. u[Len(s) + k] = t[k] /\ Len(s) + k \in DOMAIN u
    BY <1>2, <1>4
  <2> QED
    BY <2>1, <1>8 DEF VarsOf
<1>9. VarsOf(s) \subseteq VarsOf(u) /\ VarsOf(t) \subseteq VarsOf(u)
  BY <1>7, <1>8 DEF VarsOf
<1> QED
  BY <1>2, <1>3, <1>6, <1>9

\* A wildcard or a constructor binds nothing.
LEMMA MatchOneKeeps ==
  ASSUME ProgramOK, ResolvingOK, at = "resolving", Resolved, MatchWild \/ MatchCtor
  PROVE  ResolvingAt(symbols', globals', sectorScope', aliases', scopes', refs', agenda', place', line', nodes')
<1>1. nodes # <<>> /\ Node = Head(nodes) /\ Node.form \in {"wild", "ctor"}
  <2>1. Matching("wild") \/ Matching("ctor")
    BY Zenon DEF MatchWild, MatchCtor
  <2> QED
    BY <2>1 DEF Matching, Node
<1>2. /\ nodes' = Tail(nodes) /\ UNCHANGED <<symbols, globals, sectorScope, aliases, scopes, agenda, place, line>>
      /\ refs \subseteq refs' /\ \A r \in refs' \ refs : r.form # "use"
  BY DEF MatchWild, MatchCtor, Resolved, Reject
<1>3. nodes \in Seq(Range(nodes)) /\ ScopesOK(symbols, scopes, place, line, VarsOf(nodes)) /\ RefsOK(symbols, refs) /\ symbols \in Seq(Range(symbols))
  BY DEF ResolvingOK, ResolvingAt, PositionOK, Collection, SymbolsOK
<1>4. Tail(nodes) \in Seq(Range(Tail(nodes))) /\ VarsOf(Tail(nodes)) = VarsOf(nodes)
  BY <1>1, <1>3, NodeFacts
<1>5. RefsOK(symbols, refs')
  BY <1>2, <1>3 DEF RefsOK
<1>6. Grows(symbols, symbols') /\ symbols' \in Seq(Range(symbols'))
  BY <1>2, <1>3 DEF Grows
<1>7. ScopesOK(symbols', scopes', place, line, VarsOf(nodes')) /\ nodes' \in Seq(Range(nodes')) /\ VarsOf(nodes') \subseteq VarsOf(nodes)
  BY <1>2, <1>3, <1>4
<1> QED
  BY <1>1, <1>2, <1>5, <1>6, <1>7, PatternKeeps

\* A binder of the pattern joins the scope of the arm.
LEMMA MatchVarKeeps ==
  ASSUME ProgramOK, ResolvingOK, at = "resolving", Resolved, MatchVar
  PROVE  ResolvingAt(symbols', globals', sectorScope', aliases', scopes', refs', agenda', place', line', nodes')
<1> DEFINE x == Node.name
           l == line - 1
<1>1. nodes # <<>> /\ Node = Head(nodes) /\ Node.form = "var"
  <2>1. Matching("var")
    BY Zenon DEF MatchVar
  <2> QED
    BY <2>1 DEF Matching, Node
<1>2. ~ Clashes(scopes, x) /\ Define(scopes, x, l) /\ nodes' = Tail(nodes) /\ line' = line
  BY DEF MatchVar, Reject, Resolved
<1>3. /\ nodes \in Seq(Range(nodes)) /\ ScopesOK(symbols, scopes, place, line, VarsOf(nodes)) /\ RefsOK(symbols, refs) /\ symbols \in Seq(Range(symbols))
      /\ line \in 1..(Len(Body(place)) + 1) /\ line > 1 /\ Body(place)[line - 1].form = "arm" /\ VarsOf(nodes) \subseteq VarsOf(Body(place)[line - 1].pat)
  BY <1>1 DEF ResolvingOK, ResolvingAt, PositionOK, Collection, SymbolsOK
<1>4. Tail(nodes) \in Seq(Range(Tail(nodes))) /\ VarsOf(Tail(nodes)) \subseteq VarsOf(nodes) /\ VarsOf(nodes) = VarsOf(Tail(nodes)) \union {x}
  BY <1>1, <1>3, NodeFacts
<1>5. line \in Nat /\ Len(Body(place)) \in Nat /\ l \in 1..Len(Body(place)) /\ line = l + 1
  <2>1. CASE place \in Everywhere
    <3>1. ParsedItem(Item(place)) /\ Body(place) = Item(place).body
      BY <2>1, PlaceFacts2 DEF PlaceOK, Body
    <3>2. Body(place) \in Seq(Range(Body(place)))
      BY <3>1 DEF ParsedItem, ParsedBody
    <3>3. Len(Body(place)) \in Nat
      BY <3>2
    <3> QED
      BY <3>3, <1>3
  <2>2. CASE place \notin Everywhere
    <3>1. Body(place) = <<>>
      BY <2>2 DEF Body
    <3>2. Len(Body(place)) = 0
      BY <3>1
    <3> QED
      BY <3>2, <1>3
  <2> QED
    BY <2>1, <2>2
<1>6. Len(scopes) > 0 /\ Depth(Body(place)[l]) = Len(scopes)
  <2>1. Len(scopes) = DepthAt(place, line)
    BY <1>3 DEF ScopesOK
  <2>2. DepthAt(place, line) = DepthBehind(Body(place)[l])
    BY <1>3 DEF DepthAt
  <2>3. Body(place)[l].d \in Nat /\ Body(place)[l].form = "arm"
    BY <1>3, <1>5, LineFacts
  <2> QED
    BY <2>1, <2>2, <2>3 DEF DepthBehind, Depth
<1>7. ~ Discarded("var", x) => x \in BoundBy(Body(place)[l])
  BY <1>3, <1>4 DEF BoundBy
<1> HIDE DEF x
<1>8. PICK m : m = l
  OBVIOUS
<1>9. Grows(symbols, symbols') /\ symbols' \in Seq(Range(symbols')) /\ ScopesOK(symbols', scopes', place, line, VarsOf(nodes) \ {x})
  <2>1. /\ m \in 1..Len(Body(place)) /\ line = m + 1 /\ Define(scopes, x, m) /\ Depth(Body(place)[m]) = Len(scopes)
        /\ ~ Discarded("var", x) => x \in BoundBy(Body(place)[m])
    BY <1>2, <1>5, <1>6, <1>7, <1>8
  <2> HIDE DEF l
  <2> QED
    BY <1>2, <1>3, <1>6, <2>1, DefineKeeps
<1>10. ScopesOK(symbols', scopes', place, line, VarsOf(Tail(nodes)))
  <2>1. PICK more, w, v, scs : more = symbols' /\ w = VarsOf(nodes) \ {x} /\ v = VarsOf(Tail(nodes)) /\ scs = scopes'
    OBVIOUS
  <2>2. w \subseteq v /\ ScopesOK(more, scs, place, line, w) /\ Grows(more, more)
    BY <1>4, <1>9, <2>1 DEF Grows
  <2>3. ScopesOK(more, scs, place, line, v)
    BY <2>2, ScopesGrown
  <2> QED
    BY <2>1, <2>3
<1>11. globals' = globals /\ sectorScope' = sectorScope /\ aliases' = aliases /\ agenda' = agenda /\ place' = place /\ refs' = refs
  BY <1>2 DEF Define, Resolved
<1> QED
  BY <1>1, <1>2, <1>3, <1>4, <1>9, <1>10, <1>11, PatternKeeps

\* An alias is followed: a pattern that binds nothing takes its place.
LEMMA MatchAliasKeeps ==
  ASSUME ProgramOK, ResolvingOK, at = "resolving", Resolved, MatchAlias
  PROVE  ResolvingAt(symbols', globals', sectorScope', aliases', scopes', refs', agenda', place', line', nodes')
<1> DEFINE pat == aliases[Node.name]
           deeper == [k \in DOMAIN pat |-> [pat[k] EXCEPT !.d = @ + Node.d - 1]]
           rest == Tail(nodes)
<1>1. nodes # <<>> /\ Node = Head(nodes) /\ Node.form = "ctor" /\ Node.name \in DOMAIN aliases
  <2>1. Matching("ctor") /\ IsAlias(Node)
    BY Zenon DEF MatchAlias
  <2>2. Node = Head(nodes)
    BY DEF Node
  <2> QED
    BY <2>1, <2>2 DEF Matching, IsAlias
<1>2. /\ nodes' = <<Head(deeper)>> \o rest \/ nodes' = Tail(deeper) \o deeper \o rest
      /\ UNCHANGED <<symbols, globals, sectorScope, aliases, scopes, refs, agenda, place, line>>
  <2>1. ~ Reject("cyclic alias")
    BY DEF Resolved, Reject
  <2>2. nodes' = <<Head(deeper)>> \o rest \/ nodes' = Tail(deeper) \o deeper \o rest
    BY <2>1, Zenon DEF MatchAlias
  <2>3. UNCHANGED <<symbols, aliases, scopes, refs, agenda, place, line>>
    BY <2>1, Zenon DEF MatchAlias
  <2> HIDE DEF deeper, rest
  <2> QED
    BY <2>2, <2>3 DEF Resolved
<1>3. nodes \in Seq(Range(nodes)) /\ ScopesOK(symbols, scopes, place, line, VarsOf(nodes)) /\ RefsOK(symbols, refs) /\ symbols \in Seq(Range(symbols))
  BY DEF ResolvingOK, ResolvingAt, PositionOK, Collection, SymbolsOK
<1>4. rest \in Seq(Range(rest)) /\ VarsOf(rest) = VarsOf(nodes)
  BY <1>1, <1>3, NodeFacts
<1>5. pat \in Seq(Range(pat)) /\ pat # <<>> /\ (\A k \in DOMAIN pat : DOMAIN pat[k] = {"form", "name", "bare", "d"} /\ pat[k].form # "var")
  BY <1>1 DEF ResolvingOK, ResolvingAt, AliasesOK, ParsedPattern, HasVar
<1> HIDE DEF pat, rest
<1>6. deeper \in Seq(Range(deeper)) /\ deeper # <<>> /\ VarsOf(deeper) = {}
  <2>1. DOMAIN pat = 1..Len(pat) /\ Len(pat) \in Nat \ {0} /\ DOMAIN deeper = DOMAIN pat
    BY <1>5
  <2>2. \A k \in DOMAIN pat : deeper[k].form = pat[k].form
    BY <1>5
  <2>3. \A k \in DOMAIN deeper : deeper[k] \in Range(deeper)
    BY DEF Range
  <2>4. deeper = [k \in 1..Len(pat) |-> deeper[k]]
    BY <2>1
  <2> HIDE DEF deeper
  <2>5. deeper \in Seq(Range(deeper)) /\ Len(deeper) = Len(pat)
    BY <2>1, <2>3, <2>4
  <2>6. VarsOf(deeper) = {}
    BY <1>5, <2>1, <2>2 DEF VarsOf
  <2> QED
    BY <2>1, <2>5, <2>6
<1> HIDE DEF deeper
<1>7. Tail(deeper) \in Seq(Range(deeper)) /\ VarsOf(Tail(deeper)) = {} /\ Head(deeper) \in Range(deeper) /\ Head(deeper).form # "var"
  <2>1. Tail(deeper) \in Seq(Range(deeper)) /\ Head(deeper) \in Range(deeper) /\ VarsOf(Tail(deeper)) \subseteq VarsOf(deeper)
        /\ VarsOf(deeper) = VarsOf(Tail(deeper)) \union (IF Head(deeper).form = "var" THEN {Head(deeper).name} ELSE {})
    BY <1>6, NodeFacts
  <2> QED
    BY <1>6, <2>1
<1> DEFINE S == Range(deeper) \union Range(rest)
<1>8. deeper \in Seq(S) /\ rest \in Seq(S) /\ Tail(deeper) \in Seq(S) /\ <<Head(deeper)>> \in Seq(S) /\ VarsOf(<<Head(deeper)>>) = {}
  <2>1. deeper \in Seq(S) /\ rest \in Seq(S) /\ Tail(deeper) \in Seq(S) /\ Head(deeper) \in S
    BY <1>4, <1>6, <1>7
  <2> DEFINE h == Head(deeper)
  <2>2. h.form # "var" /\ h \in S
    BY <1>7, <2>1
  <2> HIDE DEF h, S
  <2>3. <<h>> \in Seq(S) /\ VarsOf(<<h>>) = {}
    BY <2>2 DEF VarsOf
  <2> QED
    BY <2>1, <2>3 DEF h
<1> HIDE DEF S
<1>9. nodes' \in Seq(Range(nodes')) /\ VarsOf(nodes') = VarsOf(rest)
  <2>1. CASE nodes' = <<Head(deeper)>> \o rest
    <3>1. PICK h, u : h = <<Head(deeper)>> /\ u = h \o rest
      OBVIOUS
    <3>2. h \in Seq(S) /\ rest \in Seq(S)
      BY <1>8, <3>1
    <3>6. VarsOf(h) = {}
      BY <1>8, <3>1
    <3>3. IsJoined(u, h, rest)
      BY <3>1 DEF IsJoined
    <3>4. u \in Seq(Range(u)) /\ VarsOf(u) = VarsOf(h) \union VarsOf(rest)
      BY <3>2, <3>3, VarsJoined
    <3>5. nodes' = u
      BY <2>1, <3>1
    <3> QED
      BY <3>4, <3>5, <3>6
  <2>2. CASE nodes' = Tail(deeper) \o deeper \o rest
    <3>1. PICK t, u, v : t = Tail(deeper) /\ u = t \o deeper /\ v = u \o rest
      OBVIOUS
    <3>7. VarsOf(t) = {}
      BY <1>7, <3>1
    <3>2. t \in Seq(S) /\ deeper \in Seq(S) /\ rest \in Seq(S)
      BY <1>7, <1>8, <3>1
    <3>3. IsJoined(u, t, deeper) /\ IsJoined(v, u, rest)
      BY <3>1 DEF IsJoined
    <3>4. u \in Seq(S) /\ VarsOf(u) = VarsOf(t) \union VarsOf(deeper)
      BY <3>2, <3>3, VarsJoined
    <3>5. v \in Seq(Range(v)) /\ VarsOf(v) = VarsOf(u) \union VarsOf(rest)
      BY <3>2, <3>3, <3>4, VarsJoined
    <3>6. nodes' = v
      BY <2>2, <3>1
    <3> QED
      BY <1>6, <3>4, <3>5, <3>6, <3>7
  <2> QED
    BY <1>2, <2>1, <2>2
<1>10. ScopesOK(symbols, scopes, place, line, VarsOf(nodes'))
  BY <1>3, <1>4, <1>9
<1>11. Grows(symbols, symbols') /\ symbols' \in Seq(Range(symbols'))
  BY <1>2, <1>3 DEF Grows
<1>12. RefsOK(symbols, refs') /\ refs \subseteq refs'
  BY <1>2, <1>3
<1>13. ScopesOK(symbols', scopes', place, line, VarsOf(nodes'))
  BY <1>2, <1>10
<1> QED
  BY <1>1, <1>2, <1>4, <1>9, <1>11, <1>12, <1>13, PatternKeeps

\* The walk comes to the next body.
LEMMA ResolveDeclKeeps ==
  ASSUME ProgramOK, ResolvingOK, at = "resolving", ResolveDecl
  PROVE  ResolvingAt(symbols', globals', sectorScope', aliases', scopes', refs', agenda', place', line', nodes')
<1> DEFINE ext == [k \in DOMAIN Decl.tparams |-> Sym("type", Decl.tparams[k], Here, NextId, 0, 0)]
           scs == IF Decl.kind \in {"fn", "on"} THEN <<{}>> ELSE <<>>
           more == symbols \o ext
<1>1. /\ nodes = <<>> /\ line > Len(Body(place)) /\ agenda # {} /\ agenda' = agenda \ {Here} /\ place' = Here /\ line' = 1
      /\ symbols' = more /\ scopes' = scs
      /\ UNCHANGED <<globals, sectorScope, aliases, refs, nodes>>
  BY DEF ResolveDecl, BodyOver, Resolved
<1>2. /\ Collection(symbols, globals, sectorScope, {}) /\ symbols \in Seq(Range(symbols)) /\ PositionOK(agenda, place, line, nodes)
      /\ AliasesOK(aliases) /\ RefsOK(symbols, refs) /\ ReferredOK(refs, agenda, place, line)
  BY DEF ResolvingOK, ResolvingAt, Collection, SymbolsOK
<1>3. Here \in agenda /\ Here \in Everywhere /\ PlaceOK(Here)
  <2>1. agenda \subseteq Everywhere
    BY <1>2 DEF PositionOK
  <2>2. Pairs(agenda)
    BY <2>1, PlaceFacts2 DEF Pairs, PlaceOK
  <2>3. First(agenda) \in agenda
    BY <1>1, <2>2, FirstFacts
  <2>4. Here = First(agenda)
    BY DEF Here
  <2> QED
    BY <2>1, <2>3, <2>4, PlaceFacts2
<1>4. Decl = Item(Here) /\ Decl.tparams \in Seq(Range(Decl.tparams))
  BY <1>3 DEF Decl, PlaceOK, ParsedItem
<1>5. ext \in Seq(Range(ext))
  <2>1. DOMAIN Decl.tparams = 1..Len(Decl.tparams) /\ Len(Decl.tparams) \in Nat
    BY <1>4
  <2>2. ext = [k \in 1..Len(Decl.tparams) |-> ext[k]] /\ \A k \in 1..Len(Decl.tparams) : ext[k] \in Range(ext)
    BY <2>1 DEF Range
  <2> HIDE DEF ext
  <2> QED
    BY <2>1, <2>2
<1> HIDE DEF ext, scs
<1>6. Grows(symbols, more) /\ more \in Seq(Range(more))
  BY <1>2, <1>5, SymbolsAdded
<1> HIDE DEF more
<1>7. Collection(more, globals, sectorScope, {}) /\ RefsOK(more, refs)
  BY <1>2, <1>6, CollectionGrown, RefsGrown
<1>8. ScopesOK(more, scs, Here, 1, VarsOf(<<>>))
  <2>1. \A k, x : KnownAt(Here, 1, k, x) = {}
    BY DEF KnownAt
  <2>2. DepthAt(Here, 1) = IF Decl.kind \in {"fn", "on"} THEN 1 ELSE 0
    BY <1>3, <1>4 DEF DepthAt
  <2>3. scs \in Seq(Range(scs)) /\ Len(scs) = DepthAt(Here, 1) /\ \A k \in 1..Len(scs) : scs[k] = {}
    <3>1. CASE Decl.kind \in {"fn", "on"}
      BY <3>1, <2>2 DEF scs, Range
    <3>2. CASE Decl.kind \notin {"fn", "on"}
      BY <3>2, <2>2 DEF scs
    <3> QED
      BY <3>1, <3>2
  <2> QED
    BY <2>1, <2>3 DEF ScopesOK, ScopeOK
<1>9. PositionOK(agenda \ {Here}, Here, 1, <<>>)
  <2>1. Len(Body(Here)) \in Nat
    <3>1. ParsedItem(Item(Here)) /\ Body(Here) = Item(Here).body
      BY <1>3 DEF PlaceOK, Body
    <3>2. Body(Here) \in Seq(Range(Body(Here)))
      BY <3>1 DEF ParsedItem, ParsedBody
    <3> QED
      BY <3>2
  <2>2. 1 \in 1..(Len(Body(Here)) + 1)
    BY <2>1
  <2> QED
    BY <1>2, <1>3, <2>2 DEF PositionOK
<1>10. ReferredOK(refs, agenda \ {Here}, Here, 1)
  <2> SUFFICES ASSUME NEW p \in Everywhere \ (agenda \ {Here}), NEW l \in DOMAIN Body(p), p = Here => l < 1 PROVE Referred(refs, p, l)
    BY DEF ReferredOK
  <2>1. Body(p) \in Seq(Range(Body(p))) /\ l \in 1..Len(Body(p)) /\ l \in Nat
    <3>1. ParsedItem(Item(p)) /\ Body(p) = Item(p).body
      BY PlaceFacts2 DEF PlaceOK, Body
    <3>2. Body(p) \in Seq(Range(Body(p)))
      BY <3>1 DEF ParsedItem, ParsedBody
    <3> QED
      BY <3>2
  <2>2. p # Here
    BY <2>1
  <2>3. p = place => l < line
    BY <2>1, <1>1, <1>2 DEF PositionOK
  <2> QED
    BY <2>2, <2>3, <1>2 DEF ReferredOK
<1>11. /\ symbols' = more /\ globals' = globals /\ sectorScope' = sectorScope /\ aliases' = aliases /\ scopes' = scs /\ refs' = refs
       /\ agenda' = agenda \ {Here} /\ place' = Here /\ line' = 1 /\ nodes' = <<>>
  BY <1>1
<1> QED
  BY <1>2, <1>7, <1>8, <1>9, <1>10, <1>11 DEF ResolvingAt

\* An alias is kept for the patterns to come.
LEMMA ResolveAliasKeeps ==
  ASSUME ProgramOK, ResolvingOK, at = "resolving", Resolved, ResolveAlias
  PROVE  ResolvingAt(symbols', globals', sectorScope', aliases', scopes', refs', agenda', place', line', nodes')
<1>1. /\ nodes = <<>> /\ agenda # {} /\ Decl.kind = "pattern" /\ agenda' = agenda \ {Here} /\ ~ HasVar(Decl.pat)
      /\ aliases' = Adding(aliases, Decl.name, Decl.pat)
      /\ UNCHANGED <<symbols, globals, sectorScope, scopes, refs, place, line, nodes>>
  BY DEF ResolveAlias, BodyOver, Resolved, Reject
<1>2. /\ Collection(symbols, globals, sectorScope, {}) /\ PositionOK(agenda, place, line, nodes) /\ ScopesOK(symbols, scopes, place, line, VarsOf(nodes))
      /\ AliasesOK(aliases) /\ RefsOK(symbols, refs) /\ ReferredOK(refs, agenda, place, line)
  BY DEF ResolvingOK, ResolvingAt
<1>3. Here \in agenda /\ Here \in Everywhere /\ PlaceOK(Here)
  <2>1. agenda \subseteq Everywhere
    BY <1>2 DEF PositionOK
  <2>2. Pairs(agenda)
    BY <2>1, PlaceFacts2 DEF Pairs, PlaceOK
  <2>3. First(agenda) \in agenda
    BY <1>1, <2>2, FirstFacts
  <2>4. Here = First(agenda)
    BY DEF Here
  <2> QED
    BY <2>1, <2>3, <2>4, PlaceFacts2
<1>4. ParsedPattern(Decl.pat) /\ Body(Here) = <<>>
  BY <1>1, <1>3 DEF Decl, PlaceOK, ParsedItem, Body
<1>5. AliasesOK(aliases')
  BY <1>1, <1>2, <1>4 DEF AliasesOK, Adding
<1>6. PositionOK(agenda \ {Here}, place, line, nodes)
  BY <1>2 DEF PositionOK
<1>7. ReferredOK(refs, agenda \ {Here}, place, line)
  BY <1>2, <1>4 DEF ReferredOK
<1> QED
  BY <1>1, <1>2, <1>5, <1>6, <1>7 DEF ResolvingAt

-----------------------------------------------------------------------------
(* Every step keeps the invariant.                                           *)

\* A step of resolving that reports nothing.
LEMMA ResolvedKeeps ==
  ASSUME ProgramOK, ResolvingOK, at = "resolving", ResolveStep, Resolved
  PROVE  ResolvingAt(symbols', globals', sectorScope', aliases', scopes', refs', agenda', place', line', nodes')
<1>1. ~ TooDeep
  BY DEF TooDeep, Reject, Resolved
<1>2. CASE ResolveMember \/ ResolveName \/ ResolveType \/ ResolveSectorCall
  BY <1>2, UsesKeep
<1>3. CASE MatchWild \/ MatchCtor
  BY <1>3, MatchOneKeeps
<1> QED
  BY <1>1, <1>2, <1>3, ResolveDeclKeeps, ResolveAliasKeeps, BindKeeps, OpenScopeKeeps, MatchVarKeeps, MatchAliasKeeps DEF ResolveStep

\* An error ends the passes and leaves all as it is.
LEMMA RejectKeeps ==
  ASSUME NameInv, NEW why, Reject(why), why \notin {"loading", "loaded", "collecting", "resolving", "done"}
  PROVE  NameInv'
<1>1. SameProgram /\ symbols' = symbols /\ refs' = refs /\ at' = why
  BY DEF Reject, SameProgram, names
<1>2. RefsOK(symbols, refs)'
  BY <1>1, SameResolving DEF NameInv
<1> QED
  BY <1>1, <1>2 DEF NameInv

\* No error is the name of a pass.
LEMMA ErrorsAreNoPasses ==
  \A why \in CollectErrors \union ResolveErrors : why \notin {"loading", "loaded", "collecting", "resolving", "done"}
BY DEF CollectErrors, ResolveErrors

\* So does every error of the two passes.
LEMMA ErrorKeeps ==
  ASSUME NameInv, \E why \in CollectErrors \union ResolveErrors : Reject(why)
  PROVE  NameInv'
<1>1. PICK why \in CollectErrors \union ResolveErrors : Reject(why)
  OBVIOUS
<1>2. why \notin {"loading", "loaded", "collecting", "resolving", "done"}
  BY ErrorsAreNoPasses
<1> QED
  BY <1>1, <1>2, RejectKeeps

\* A step of resolving keeps the invariant.
LEMMA ResolveStepKeeps ==
  ASSUME ProgramOK, NameInv, ResolveStep
  PROVE  NameInv'
<1>1. at = "resolving" /\ (Resolved \/ \E why \in ResolveErrors : Reject(why))
  BY ResolveAlternatives
<1>2. CASE Resolved
  <2>1. SameProgram /\ at' = "resolving"
    BY <1>1, <1>2 DEF Resolved, SameProgram
  <2>2. ResolvingAt(symbols', globals', sectorScope', aliases', scopes', refs', agenda', place', line', nodes')
    BY <1>1, <1>2, ResolvedKeeps DEF NameInv
  <2>3. ResolvingOK' /\ RefsOK(symbols, refs)'
    <3>1. RefsOK(symbols', refs')
      BY <2>2 DEF ResolvingAt
    <3> QED
      BY <2>1, <2>2, <3>1, SameResolving
  <2> QED
    BY <2>1, <2>3 DEF NameInv
<1>3. CASE \E why \in ResolveErrors : Reject(why)
  BY <1>3, ErrorKeeps
<1> QED
  BY <1>1, <1>2, <1>3

\* A step of collecting keeps the tables those of the program so far.
LEMMA CollectStepKeeps ==
  ASSUME ProgramOK, NameInv, CollectStep
  PROVE  NameInv'
<1>1. at = "collecting" /\ (Collected \/ \E why \in CollectErrors : Reject(why))
  BY CollectAlternatives
<1>0. at = "collecting"
  BY <1>1
<1>2. CollectOK /\ Untouched
  BY <1>0 DEF NameInv, CollectOK
<1>3. CASE Collected
  <2>1. SameProgram /\ at' = "collecting" /\ agenda' = agenda \ {Here} /\ Untouched'
    BY <1>0, <1>2, <1>3 DEF Collected, SameProgram, Untouched
  <2>2. Collection(symbols', globals', sectorScope', agenda')
    BY <1>2, <1>3, CollectMainKeeps, CollectTypeKeeps, CollectNamedKeeps, CollectValueKeeps, CollectHandlerKeeps DEF CollectStep
  <2>3. AgendaOK(agenda')
    <3>1. agenda # {}
      <4>1. CollectMain \/ Collecting({"type"}) \/ Collecting({"sector", "mixin"}) \/ Collecting({"fn", "var", "const", "need"})
            \/ Collecting({"on"}) \/ Collecting({"pattern"})
        BY Zenon DEF CollectStep, CollectType, CollectNamed, CollectValue, CollectHandler, CollectOther
      <4> QED
        BY <4>1 DEF CollectMain, Collecting
    <3>2. AgendaOK(agenda \ {Here})
      BY <1>2, <3>1, HereFacts DEF CollectOK
    <3> QED
      BY <2>1, <3>2
  <2>4. Collection(symbols, globals, sectorScope, agenda)' /\ AgendaOK(agenda)'
    BY <2>1, <2>2, <2>3, SameCollection
  <2>5. RefsOK(symbols, refs)'
    BY <2>1 DEF Untouched, RefsOK
  <2> QED
    BY <2>1, <2>4, <2>5 DEF NameInv
<1>4. CASE \E why \in CollectErrors : Reject(why)
  BY <1>4, ErrorKeeps
<1> QED
  BY <1>1, <1>3, <1>4

\* Before the first declaration is collected there are the builtin types.
LEMMA BeginCollectKeeps ==
  ASSUME ProgramOK, NameInv, BeginCollect
  PROVE  NameInv'
<1> DEFINE int == Sym("type", "Int", <<0, 0>>, 0, 0, 0)
<1>1. int.kind = "type"
  BY DEF Sym
<1>2. /\ SameProgram /\ at' = "collecting" /\ agenda' = CollectOrder /\ symbols' = <<int>> /\ globals' = {1} /\ sectorScope' = <<>> /\ Untouched'
  BY DEF BeginCollect, NameInv, Untouched, SameProgram
<1> HIDE DEF int
<1>3. Collection(<<int>>, {1}, <<>>, CollectOrder) /\ AgendaOK(CollectOrder)
  BY <1>1, CollectionBegun
<1>4. Collection(symbols, globals, sectorScope, agenda)' /\ AgendaOK(agenda)'
  BY <1>2, <1>3, SameCollection
<1>5. RefsOK(symbols, refs)'
  BY <1>2 DEF Untouched, RefsOK
<1> QED
  BY <1>2, <1>4, <1>5 DEF NameInv

\* When all is collected the walk over the bodies has resolved nothing yet.
LEMMA CollectDoneKeeps ==
  ASSUME ProgramOK, NameInv, CollectDone
  PROVE  NameInv'
<1>1. /\ SameProgram /\ at' = "resolving" /\ agenda' = Everywhere /\ agenda = {} /\ at = "collecting"
      /\ UNCHANGED <<symbols, globals, sectorScope, aliases, scopes, refs, place, line, nodes>>
  BY DEF CollectDone, SameProgram
<1>2. Untouched /\ Collection(symbols, globals, sectorScope, agenda)
  BY <1>1 DEF NameInv
<1>3. <<0, 0>> \notin Everywhere
  <2> SUFFICES ASSUME <<0, 0>> \in Everywhere PROVE FALSE
    OBVIOUS
  <2> QED
    BY PlaceFacts2 DEF PlaceOK
<1>4. Body(<<0, 0>>) = <<>>
  BY <1>3 DEF Body
<1>5. PositionOK(Everywhere, <<0, 0>>, 1, <<>>)
  BY <1>4 DEF PositionOK
<1>6. AliasesOK(<<>>)
  BY DEF AliasesOK
<1>7. ScopesOK(symbols, <<>>, <<0, 0>>, 1, VarsOf(<<>>))
  BY <1>3 DEF ScopesOK, DepthAt
<1>8. RefsOK(symbols, {}) /\ ReferredOK({}, Everywhere, <<0, 0>>, 1)
  BY DEF RefsOK, ReferredOK
<1>9. Collection(symbols, globals, sectorScope, {})
  BY <1>1, <1>2
<1>10. /\ symbols' = symbols /\ globals' = globals /\ sectorScope' = sectorScope /\ aliases' = <<>> /\ scopes' = <<>> /\ refs' = {}
       /\ agenda' = Everywhere /\ place' = <<0, 0>> /\ line' = 1 /\ nodes' = <<>>
  BY <1>1, <1>2 DEF Untouched
<1>11. ResolvingAt(symbols', globals', sectorScope', aliases', scopes', refs', agenda', place', line', nodes')
  BY <1>5, <1>6, <1>7, <1>8, <1>9, <1>10 DEF ResolvingAt
<1>12. ResolvingOK' /\ RefsOK(symbols, refs)'
  BY <1>1, <1>8, <1>10, <1>11, SameResolving
<1> QED
  BY <1>1, <1>12 DEF NameInv

\* When the walk is over every use of every body is resolved.
LEMMA DoneKeeps ==
  ASSUME ProgramOK, NameInv, Done
  PROVE  NameInv'
<1>1. /\ SameProgram /\ at = "resolving" /\ at' = "done" /\ agenda = {} /\ line > Len(Body(place)) /\ symbols' = symbols /\ refs' = refs
  BY DEF Done, SameProgram, names, BodyOver
<1>2. ReferredOK(refs, agenda, place, line) /\ line \in 1..(Len(Body(place)) + 1)
  BY <1>1 DEF NameInv, ResolvingOK, ResolvingAt, PositionOK
<1>3. ASSUME NEW p \in Everywhere, NEW l \in DOMAIN Body(p) PROVE Referred(refs, p, l)
  <2>1. Body(p) \in Seq(Range(Body(p)))
    BY PlaceFacts2 DEF PlaceOK, Body, ParsedItem, ParsedBody
  <2>2. l \in 1..Len(Body(p)) /\ Len(Body(p)) \in Nat
    BY <2>1
  <2>3. p = place => l < line
    BY <2>2, <1>1, <1>2
  <2> QED
    BY <2>3, <1>1, <1>2 DEF ReferredOK
<1>4. (\A p \in Everywhere : \A l \in DOMAIN Body(p) : Referred(refs, p, l))' /\ RefsOK(symbols, refs)'
  BY <1>1, <1>3, SameResolving DEF NameInv
<1> QED
  BY <1>1, <1>4 DEF NameInv

\* A step that leaves the names, the program and the pass as they are.
LEMMA NothingKeeps ==
  ASSUME NameInv, SameProgram, UNCHANGED names, at' = at
  PROVE  NameInv'
<1>1. /\ symbols' = symbols /\ globals' = globals /\ sectorScope' = sectorScope /\ aliases' = aliases /\ scopes' = scopes /\ refs' = refs
      /\ agenda' = agenda /\ place' = place /\ line' = line /\ nodes' = nodes
  BY DEF names
<1>2. RefsOK(symbols, refs)'
  BY <1>1, SameResolving DEF NameInv
<1>3. at = "resolving" => ResolvingOK'
  BY <1>1, SameResolving DEF NameInv, ResolvingOK
<1>4. at = "collecting" => AgendaOK(agenda)' /\ Collection(symbols, globals, sectorScope, agenda)'
  BY <1>1, SameCollection DEF NameInv
<1>5. at = "done" => (\A p \in Everywhere : \A l \in DOMAIN Body(p) : Referred(refs, p, l))'
  BY <1>1, SameResolving DEF NameInv
<1>6. Untouched' = Untouched
  BY <1>1 DEF Untouched
<1> QED
  BY <1>1, <1>2, <1>3, <1>4, <1>5, <1>6 DEF NameInv

\* While modules are loaded there are no names yet.
LEMMA LoaderStepKeeps ==
  ASSUME NameInv, LoaderNext, UNCHANGED names
  PROVE  NameInv'
<1>1. CASE Edit
  BY <1>1, NothingKeeps DEF Edit, SameProgram
<1>2. CASE ~ Edit
  <2>1. at = "loading" /\ at' \in {"loading", "loaded"} \union LoadErrors
    <3>1. CASE VisitBridge \/ VisitCycle \/ VisitMissing
      <4>1. at = "loading"
        BY <3>1 DEF VisitBridge, VisitCycle, VisitMissing
      <4>2. Fail("bridge") \/ Fail("cyclic use") \/ Fail("missing module")
        BY <3>1, Zenon DEF VisitBridge, VisitCycle, VisitMissing
      <4>3. at' = "bridge" \/ at' = "cyclic use" \/ at' = "missing module"
        BY <4>2, Zenon DEF Fail
      <4> QED
        BY <4>1, <4>3 DEF LoadErrors
    <3>2. CASE VisitKnown \/ Enter \/ Leave
      <4>1. at = "loading" /\ at' = at
        BY <3>2, Zenon DEF VisitKnown, Enter, Leave
      <4> QED
        BY <4>1
    <3>3. CASE Expanded
      BY <3>3 DEF Expanded
    <3> QED
      BY <1>2, <3>1, <3>2, <3>3, Zenon DEF LoaderNext
  <2>2. Untouched /\ sectorScope = <<>>
    BY <2>1 DEF NameInv
  <2>3. Untouched' /\ sectorScope' = <<>>
    BY <2>2 DEF Untouched, names
  <2>4. RefsOK(symbols, refs)'
    BY <2>3 DEF Untouched, RefsOK
  <2>5. at' \notin {"collecting", "resolving", "done"}
    BY <2>1 DEF LoadErrors
  <2>6. /\ (at \in {"loading", "loaded", "collecting"} => Untouched)'
        /\ (at \in {"loading", "loaded"} => sectorScope = <<>>)'
    BY <2>3
  <2>7. (at = "collecting" => AgendaOK(agenda) /\ Collection(symbols, globals, sectorScope, agenda))'
    BY <2>5
  <2>8. (at = "resolving" => ResolvingOK)'
    BY <2>5
  <2>9. (at = "done" => \A p \in Everywhere : \A l \in DOMAIN Body(p) : Referred(refs, p, l))'
    BY <2>5
  <2> QED
    BY <2>4, <2>6, <2>7, <2>8, <2>9, Zenon DEF NameInv
<1> QED
  BY <1>1, <1>2

\* The invariant is inductive.
LEMMA NameStep ==
  ASSUME ProgramOK, NameInv, [Next]_vars
  PROVE  NameInv'
<1>1. CASE LoaderNext /\ UNCHANGED names
  BY <1>1, LoaderStepKeeps
<1>2. CASE Recompile /\ Afresh
  BY <1>2 DEF Recompile, Afresh, NameInv, Untouched, RefsOK
<1>3. CASE UNCHANGED vars
  BY <1>3, NothingKeeps DEF vars, names, SameProgram
<1>4. CASE BeginCollect \/ CollectDone \/ Done
  BY <1>4, BeginCollectKeeps, CollectDoneKeeps, DoneKeeps
<1>5. CASE CollectStep \/ ResolveStep
  BY <1>5, CollectStepKeeps, ResolveStepKeeps
<1> QED
  BY <1>1, <1>2, <1>3, <1>4, <1>5 DEF Next, CollectStep, ResolveStep

\* What the walk over the bodies rests on: the tables of names are those of the
\* program, the scopes are the open blocks, and what was resolved means what it
\* refers to (resolve.py:1557-1603).
THEOREM NameInvariant == Spec => []NameInv
<1>1. Init => NameInv
  BY DEF Init, LoaderInit, NameInv, Untouched, RefsOK
<1>2. ProgramOK /\ NameInv /\ [Next]_vars => NameInv'
  BY NameStep
<1>3. LoadInv /\ ItemsInv => ProgramOK
  BY DEF LoadInv, ProgramOK
<1> QED
  BY <1>1, <1>2, <1>3, FrontEndIsLoader, LoadInvariant, ItemsFromFiles, PTL DEF Spec

\* Every use refers to what the scoping rules give it, for all programs, and when
\* a program is accepted every use refers to something (resolve.py:1837-1882,
\* 1744-1761).
THEOREM UsesAsScoped == Spec => []BindsAsScoped
<1>1. NameInv => BindsAsScoped
  BY DEF NameInv, BindsAsScoped, RefsOK, Referred
<1> QED
  BY <1>1, NameInvariant, PTL

\* What was proved of the loader holds of the whole front end, while names are
\* collected and resolved too: the modules come in order, and those of the
\* project are read in this compilation (resolve.py:1473-1518, 1452-1470).
THEOREM LoadedInOrder == Spec => [](ModulesInOrder /\ ReadAfresh)
BY FrontEndIsLoader, ExpandsInOrder, ReadsAfresh, PTL
=============================================================================
