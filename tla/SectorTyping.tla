----------------------------- MODULE SectorTyping -----------------------------
(***************************************************************************)
(* The programs that SectorProgram runs, as the passes before the          *)
(* interpreter leave them: every symbol has a type (flavent/typecheck.py)  *)
(* and is bound where it is used (flavent/resolve.py).  What those passes  *)
(* find out are the constants; WellTyped says what they check.  The code   *)
(* of a body is followed from point to point, a point being the rest of    *)
(* the code with the variables bound there: the points of a body are       *)
(* closed under After, its control flow.  Two rules are stricter than the  *)
(* checker's, which accepts programs that go wrong there: the elements of  *)
(* a for are of the binder's type (the checker knows no type of a binder), *)
(* and a function whose end is reached has the result Unit (it does not    *)
(* look for paths without a return).                                       *)
(***************************************************************************)
EXTENDS SectorProgram

CONSTANTS
  Local(_, _),   \* Local(p, f)[x]: the type of local variable x of body f
  SectorVar(_),  \* SectorVar(p)[x]: the type of sector variable x
  Result(_),     \* Result(p)[f]: the declared result type of function f
  Points(_, _)   \* Points(p, f): the points of body f

IntType == [is |-> "int", of |-> 0]
RecordType == [is |-> "record", of |-> 0]
UnitType == [is |-> "unit", of |-> 0]
EventType(t) == [is |-> "event", of |-> t]
ValueTypes == {IntType, RecordType, UnitType} \cup {EventType(t) : t \in Types}

IsEventOf(v, t) == \/ v = EntryValue /\ t = EntryType
                   \/ \E c \in DOMAIN Owner : v = Ctor(c) /\ t = Owner[c]

(* v is a value of type ty when n records exist.                            *)
HasType(v, ty, n) ==
  \/ ty = IntType /\ v = Num(v.n) /\ v.n \in Nat
  \/ ty = RecordType /\ v = Rec(v.n) /\ v.n \in 1..n
  \/ ty = UnitType /\ v = Nothing
  \/ \E t \in Types : ty = EventType(t) /\ IsEventOf(v, t)

BodyNames(p) == DOMAIN p.handlers \cup DOMAIN p.fns
Home(p, f) == IF f \in DOMAIN p.handlers THEN p.handlers[f].sector ELSE p.fns[f].sector
SectorVars(p, f) == {x \in DOMAIN p.lets : p.lets[x].sector = Home(p, f)}
TypeOf(p, f, x) == IF x \in DOMAIN Local(p, f) THEN Local(p, f)[x] ELSE SectorVar(p)[x]

(* In body f, with the locals B bound, x is a variable of type ty.          *)
Variable(p, f, B, x, ty) == x \in B \cup SectorVars(p, f) /\ ty = TypeOf(p, f, x)

SimpleKinds == {"lit", "var", "inc", "get", "less"}

(* In body f, with the locals B bound, e is an expression of type ty. A     *)
(* plain call reaches the functions of the own sector.                      *)
Typed(p, f, B, e, ty) ==
  \/ e.k = "lit" /\ HasType(e.v, ty, 0)
  \/ e.k = "var" /\ Variable(p, f, B, e.x, ty)
  \/ e.k \in {"inc", "less"} /\ Variable(p, f, B, e.x, IntType) /\ ty = IntType
  \/ e.k = "get" /\ Variable(p, f, B, e.x, RecordType) /\ ty = IntType
  \/ e.k = "record" /\ e.n \in Nat /\ ty = RecordType
  \/ e.k = "await" /\ e.t \in Types /\ ty = EventType(e.t)
  \/ /\ e.k \in CallKinds /\ e.f \in DOMAIN p.fns
     /\ Variable(p, f, B, e.x, Local(p, e.f)[p.fns[e.f].param])
     /\ e.k = "call" => Home(p, e.f) = Home(p, f)
     /\ ty = IF e.k = "send" THEN UnitType ELSE Result(p)[e.f]

HasSomeType(p, f, B, e) == \E ty \in ValueTypes : Typed(p, f, B, e, ty)

(* Statement st is accepted in body f with the locals B bound, inside of d  *)
(* matches.                                                                 *)
Accepted(p, f, B, d, st) ==
  \/ st.op = "let" /\ st.x \in DOMAIN Local(p, f) /\ Typed(p, f, B, st.e, Local(p, f)[st.x])
  \/ /\ st.op = "set" /\ st.x \in DOMAIN Local(p, f) \cup SectorVars(p, f)
     /\ Typed(p, f, B, st.e, TypeOf(p, f, st.x))
  \/ st.op = "expr" /\ HasSomeType(p, f, B, st.e)
  \/ st.op = "setfield" /\ Variable(p, f, B, st.x, RecordType) /\ st.n \in Nat
  \/ st.op = "if" /\ st.e.k \in SimpleKinds /\ Typed(p, f, B, st.e, IntType)
  \/ /\ st.op = "for" /\ st.x \in DOMAIN Local(p, f)
     /\ st.xs \in Seq(Range(st.xs))
     /\ \A v \in Range(st.xs) : HasType(v, Local(p, f)[st.x], 0)
  \/ /\ st.op = "match" /\ Variable(p, f, B, st.x, TypeOf(p, f, st.x))
     /\ \A arm \in Range(st.arms) : arm.x # None =>
          arm.x \in DOMAIN Local(p, f) /\ Local(p, f)[arm.x] = TypeOf(p, f, st.x)
  \/ st.op = "restore" /\ d > 0
  \/ st.op = "emit" /\ st.e.k \in SimpleKinds /\ HasSomeType(p, f, B, st.e)
  \/ /\ st.op = "return" /\ st.e.k \in SimpleKinds /\ HasSomeType(p, f, B, st.e)
     /\ f \in DOMAIN p.fns => Typed(p, f, B, st.e, Result(p)[f])
  \/ st.op \in {"yield", "stop", "abort"}

Point(B, d, code) == [bound |-> B, depth |-> d, code |-> code]

(* The points that may follow pt.                                           *)
After(p, f, pt) ==
  LET st == Head(pt.code)  rest == Tail(pt.code)  B == pt.bound  d == pt.depth IN
  IF pt.code = << >> THEN {}
  ELSE IF st.op = "let" THEN {Point(B \cup {st.x}, d, rest)}
  ELSE IF st.op = "set" THEN {Point(B \cup ({st.x} \ SectorVars(p, f)), d, rest)}
  ELSE IF st.op \in {"expr", "setfield", "yield", "emit"} THEN {Point(B, d, rest)}
  ELSE IF st.op = "if" THEN {Point(B, d, st.then \o rest), Point(B, d, st.else \o rest)}
  ELSE IF st.op = "for" THEN
    {IF st.xs = << >> THEN Point(B, d, rest)
     ELSE Point(B \cup {st.x}, d, st.body \o << [st EXCEPT !.xs = Tail(@)] >> \o rest)}
  ELSE IF st.op = "match" THEN
    {Point(B \cup ({arm.x} \ {None}), d + 1,
           arm.body \o << [op |-> "restore", x |-> arm.x] >> \o rest) : arm \in Range(st.arms)}
  ELSE IF st.op = "restore" THEN {Point(B \ {st.x}, d - 1, rest)}
  ELSE {}

(* A function that ends without a return statement has the result Unit.     *)
PointTyped(p, f, pt) ==
  /\ pt.bound \subseteq DOMAIN Local(p, f) /\ pt.depth \in Nat
  /\ IF pt.code = << >> THEN f \in DOMAIN p.fns => Result(p)[f] = UnitType
     ELSE Accepted(p, f, pt.bound, pt.depth, Head(pt.code))

HandlerTyped(p, h) ==
  LET d == p.handlers[h]  B == {d.binder} \ {None} IN
  /\ Point(B, 0, d.body) \in Points(p, h)
  /\ B \subseteq DOMAIN Local(p, h)
  /\ \A x \in B, t \in Types : h \in Range(Handlers[t]) => Local(p, h)[x] = EventType(t)

FnTyped(p, f) ==
  LET x == p.fns[f].param IN
  x \in DOMAIN Local(p, f) /\ Point({x}, 0, p.fns[f].body) \in Points(p, f)

(* Names stand for symbols: those of locals and of sector variables differ. *)
WellTyped(p) ==
  /\ DOMAIN p.handlers \cap DOMAIN p.fns = {} /\ Handler \subseteq DOMAIN p.handlers
  /\ p.records \in Seq(Nat)
  /\ \A x \in DOMAIN p.lets : HasType(p.lets[x].init, SectorVar(p)[x], Len(p.records))
  /\ \A f \in BodyNames(p) : /\ DOMAIN Local(p, f) \cap DOMAIN p.lets = {}
                          /\ None \notin DOMAIN Local(p, f)
                          /\ LET S == Points(p, f) IN
                             \A pt \in S : PointTyped(p, f, pt) /\ After(p, f, pt) \subseteq S
  /\ \A h \in DOMAIN p.handlers : HandlerTyped(p, h)
  /\ \A f \in DOMAIN p.fns : FnTyped(p, f)

ASSUME OwnerAssumption ==
  \A c \in DOMAIN Owner : Owner[c] \in Types /\ Ctor(c) \in Payload
ASSUME ProgramsAssumption == \A p \in Programs : WellTyped(p)

(* The functions in echoes return their parameter, which they never assign, *)
(* and they are called with a local variable.                               *)
ReturnsParameter(p, f, pt) ==
  LET st == Head(pt.code)  x == p.fns[f].param IN
  /\ x \in pt.bound /\ pt.code # << >>
  /\ st.op = "return" => st.e.k = "var" /\ st.e.x = x
  /\ st.op \in {"let", "set", "for", "restore"} => st.x # x
  /\ st.op = "match" => \A arm \in Range(st.arms) : arm.x # x
CalledWithLocal(p, pt) ==
  LET st == Head(pt.code) IN
  pt.code # << >> /\ st.op \in {"let", "set", "expr"} =>
    (st.e.k \in CallKinds /\ st.e.f \in p.echoes => st.e.x \in pt.bound)
ASSUME EchoesAssumption ==
  \A p \in Programs :
    /\ p.echoes \subseteq DOMAIN p.fns
    /\ \A f \in p.echoes : \A pt \in Points(p, f) : ReturnsParameter(p, f, pt)
    /\ \A f \in BodyNames(p) : \A pt \in Points(p, f) : CalledWithLocal(p, pt)
=============================================================================
