--------------------------- MODULE MCSectorProgram ---------------------------
(* Programs for SectorProgram.  Event type 1 (entry) has a handler in each  *)
(* of the sectors a and b, type 2 has one in a.  Both sectors hold an       *)
(* integer, an event and a record, and b has a function that suspends in    *)
(* various ways before it returns its parameter.                           *)
EXTENDS SectorTyping, TLC

CONSTANTS FirstBodies, SecondBodies, ThirdBodies, EchoBodies

Go == 1    \* type 2 is Go | Alt
Alt == 2
St(op, x, e) == [op |-> op, x |-> x, e |-> e]
Lit(n) == [k |-> "lit", v |-> Num(n)]
New(c) == [k |-> "lit", v |-> Ctor(c)]
V(x) == [k |-> "var", x |-> x]
Inc(x) == [k |-> "inc", x |-> x]
Less(x, n) == [k |-> "less", x |-> x, n |-> n]
Await(t) == [k |-> "await", t |-> t]
Invoke(k, f, x) == [k |-> k, f |-> f, x |-> x]
Let(x, e) == St("let", x, e)
Set(x, e) == St("set", x, e)
Emit(e) == [op |-> "emit", e |-> e]
If(c, then, else) == [op |-> "if", e |-> c, then |-> then, else |-> else]
For(x, xs, body) == [op |-> "for", x |-> x, xs |-> xs, body |-> body]
Match(x, arms) == [op |-> "match", x |-> x, arms |-> arms]
Arm(c, x, body) == [ctor |-> c, x |-> x, body |-> body]
SetField(x, n) == [op |-> "setfield", x |-> x, n |-> n]
Return0 == [op |-> "return", e |-> Lit(0)]
ReturnP == [op |-> "return", e |-> V("p")]

(* Bodies of handlers, over the variables of their sector: n an integer, v  *)
(* an event of type 2, r a record.  They call echo with kind call: rpc, or  *)
(* a call within the sector.                                                *)
Bodies(n, v, r, call) == [
  echo1 |-> << Let("c", Lit(1)), Let("x", Invoke(call, "echo", "c")), Set(n, V("x")) >>,
  echo2 |-> << Let("c", Lit(2)), Let("x", Invoke(call, "echo", "c")), Set(n, V("x")) >>,
  send |-> << Let("c", Lit(2)), St("expr", None, Invoke("send", "echo", "c")), Emit(New(Go)) >>,
  go |-> << Emit(New(Go)) >>,
  gogo |-> << Emit(New(Go)), Set(n, Inc(n)), Let("g", New(Alt)), Emit(V("g")) >>,
  twice |-> << For("k", << Num(1), Num(2) >>, << Let("y", Invoke(call, "echo", "k")) >>) >>,
  again |-> << If(Less(n, 2), << Set(n, Inc(n)), Emit(V("s")) >>, << >>) >>,
  renamed |-> << Let("e", V("s")), Emit(V("e")) >>,
  wait |-> << Let("w", Await(1)), Set(n, Inc(n)) >>,
  waitgo |-> << Let("w", Await(2)), Emit(V("w")) >>,
  set |-> << Set(v, Await(2)), Match(v, << Arm(Go, None, << Set(n, Lit(5)) >>) >>) >>,
  match |-> << Match(v, << Arm(Go, None, << >>),
                           Arm(None, "m", << Set(v, Await(2)), Emit(V("m")) >>) >>) >>,
  own |-> << Let("d", [k |-> "record", n |-> 3]), SetField("d", 4), Set(r, V("d")),
             Set(n, [k |-> "get", x |-> "d"]), [op |-> "yield"] >>,
  shared |-> << Let("c", Lit(0)), Let("d", Invoke("rpc", "peek", "c")), SetField("d", 7) >>,
  return |-> << Return0 >>,
  abort |-> << [op |-> "abort"] >>,
  stop |-> << [op |-> "stop"] >> ]

(* Functions of sector b with parameter p.                                  *)
Echo == [
  now |-> << ReturnP >>,
  emits |-> << If(Less("nb", 2), << Set("nb", Inc("nb")), Emit(New(Go)) >>, << >>), ReturnP >>,
  awaits |-> << Let("h", Await(2)), Set("nb", V("p")), ReturnP >>,
  nested |-> << Let("q", Invoke("call", "inner", "p")), ReturnP >>,
  waits |-> << Let("o", Await(1)), ReturnP >> ]

Handle(s, x, body) == [sector |-> s, binder |-> x, body |-> body]
Fn(s, body) == [sector |-> s, param |-> "p", body |-> body]

MCPrograms ==
  {[handlers |-> [first |-> Handle("a", "s", Bodies("na", "va", "ra", "rpc")[f]),
                  second |-> Handle("b", "s", Bodies("nb", "vb", "rb", "call")[g]),
                  third |-> Handle("a", "s", Bodies("na", "va", "ra", "rpc")[h])],
    fns |-> [echo |-> Fn("b", Echo[e]),
             inner |-> Fn("b", << Let("z", Await(2)), Set("nb", Inc("nb")) >>),
             peek |-> Fn("a", << [op |-> "return", e |-> V("ra")] >>)],
    lets |-> [na |-> [sector |-> "a", init |-> Num(0)], nb |-> [sector |-> "b", init |-> Num(0)],
              va |-> [sector |-> "a", init |-> Ctor(Alt)],
              vb |-> [sector |-> "b", init |-> Ctor(Alt)],
              ra |-> [sector |-> "a", init |-> Rec(1)], rb |-> [sector |-> "b", init |-> Rec(2)]],
    records |-> << 1, 2 >>, echoes |-> {"echo"}] :
   f \in FirstBodies, g \in SecondBodies, h \in ThirdBodies, e \in EchoBodies}

(* The types of the locals of a handler of an event of type t, w being the  *)
(* type it awaits, and of the functions.                                    *)
Locals(t, w) ==
  [s |-> EventType(t), e |-> EventType(t), w |-> EventType(w), g |-> EventType(2),
   m |-> EventType(2), d |-> RecordType] @@ [x \in {"c", "x", "y", "k"} |-> IntType]
FnLocals == [p |-> IntType, q |-> UnitType, h |-> EventType(2), o |-> EventType(1), z |-> EventType(2)]

MCSectorVar(p) ==
  [na |-> IntType, nb |-> IntType, va |-> EventType(2), vb |-> EventType(2),
   ra |-> RecordType, rb |-> RecordType]
MCResult(p) == [echo |-> IntType, inner |-> UnitType, peek |-> RecordType]

(* All points that follow those in S, after at most n steps.                *)
RECURSIVE Reach(_, _, _, _)
Reach(p, f, S, n) ==
  LET T == S \cup UNION {After(p, f, pt) : pt \in S} IN
  IF T = S \/ n = 0 THEN S ELSE Reach(p, f, T, n - 1)

Awaited(body) == IF \E k \in DOMAIN body : body[k] = Let("w", Await(1)) THEN 1 ELSE 2
MCLocal(p, f) ==
  CASE f \in {"first", "second"} -> Locals(1, Awaited(p.handlers[f].body))
    [] f = "third" -> Locals(2, Awaited(p.handlers[f].body))
    [] OTHER -> FnLocals
MCPoints(p, f) ==
  IF f \in DOMAIN p.handlers THEN Reach(p, f, {Point({"s"}, 0, p.handlers[f].body)}, 40)
                             ELSE Reach(p, f, {Point({"p"}, 0, p.fns[f].body)}, 40)

MCTypes == {1, 2}
MCTask == 1..10
MCHandlers == << << "first", "second" >>, << "third" >> >>
MCEntryValue == Rec(0)
MCPayload == {Rec(0), Ctor(Go), Ctor(Alt)}
MCOwner == [c \in {Go, Alt} |-> 2]
=============================================================================
