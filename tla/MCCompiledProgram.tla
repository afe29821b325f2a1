-------------------------- MODULE MCCompiledProgram --------------------------
(* Every program is a small prelude and one function or handler f, from five *)
(* families: what lowering rewrites, types in expressions, types in          *)
(* statements, effects, and the initial values of sector variables.          *)
EXTENDS CompiledProgram

TInt == Con("Int")    TBool == Con("Bool")    TStr == Con("Str")    Shape == Con("Shape")    Point == Con("Point")
Option(t) == App("Option", <<t>>)
Result(t, e) == App("Result", <<t, e>>)
MCSums ==
    [t \in {"Option", "Result", "Shape", "Event.A"} |->
        CASE t = "Option"  -> [params |-> <<"T">>, variants |-> [c \in {"Some", "None"} |-> IF c = "Some" THEN <<Con("T")>> ELSE <<>>]]
          [] t = "Result"  -> [params |-> <<"T", "E">>, variants |-> [c \in {"Ok", "Err"} |-> <<Con(IF c = "Ok" THEN "T" ELSE "E")>>]]
          [] t = "Shape"   -> [params |-> <<>>, variants |-> [c \in {"Dot", "Box", "Flag"} |->
                                  CASE c = "Dot" -> <<>> [] c = "Box" -> <<TInt>> [] c = "Flag" -> <<TBool>>]]
          [] t = "Event.A" -> [params |-> <<>>, variants |-> [c \in {"A1", "A2"} |-> IF c = "A1" THEN <<TInt>> ELSE <<>>]]]
MCOwner == [c \in UNION {DOMAIN MCSums[t].variants : t \in DOMAIN MCSums} |-> CHOOSE t \in DOMAIN MCSums : c \in DOMAIN MCSums[t].variants]
MCRecords == [t \in {"Point"} |-> [params |-> <<>>, fields |-> [f \in {"a", "b"} |-> IF f = "a" THEN TInt ELSE TBool]]]
MCAliases == [t \in {"Num", "Opt"} |-> IF t = "Num" THEN [params |-> <<>>, target |-> TInt] ELSE [params |-> <<"T">>, target |-> Option(Con("T"))]]

I(k) == Value("Int", k, "", <<>>)
MCArguments ==
    [t \in {TInt, TBool, TStr, Shape, Point, Con("Num"), Con("Event.A"), Option(TInt), Result(TInt, TStr)} |->
        CASE t = TBool  -> {Truth(TRUE), Truth(FALSE)}
          [] t = TStr   -> {Value("Str", 1, "", <<>>)}
          [] t = Shape -> {Sum("Dot", <<>>), Sum("Box", <<I(2)>>), Sum("Flag", <<Truth(FALSE)>>)}
          [] t = Point -> {Record(<<"a", "b">>, <<I(1), Truth(TRUE)>>)}
          [] t = Con("Event.A") -> {Sum("A1", <<I(2)>>), Sum("A2", <<>>)}
          [] t = Option(TInt) -> {Sum("Some", <<I(1)>>), Sum("None", <<>>)}
          [] t = Result(TInt, TStr) -> {Sum("Ok", <<I(1)>>), Sum("Err", <<Value("Str", 1, "", <<>>)>>)}
          [] OTHER -> {I(0), I(2)}]

N(k) == Lit("Int", k)
T(b) == Lit("Bool", IF b THEN 1 ELSE 0)
S == Lit("Str", 1)
Node(op, n, a) == [op |-> op, n |-> n, a |-> a]
Bin(op, x, y) == Node("bin", op, <<x, y>>)
TryOf(e) == Node("try", "", <<e>>)
Member(e, f) == Node("member", f, <<e>>)
Rec(keys, a) == [op |-> "record", keys |-> keys, a |-> a]
MatchOf(e, arms) == [op |-> "match", a |-> <<e>>, arms |-> arms]
PipeOf(e, stages) == [op |-> "pipe", a |-> <<e>> \o stages]
Stage(f, a) == [n |-> f, a |-> a]
Rpc(op, sector, f, a) == [op |-> op, n |-> f, sector |-> sector, a |-> a]
Wild == Pattern("wild", "", <<>>)
PV(x) == Pattern("var", x, <<>>)
PB(b) == Pattern("bool", IF b THEN "true" ELSE "false", <<>>)
PC(c, args) == Pattern("ctor", c, args)
Let(x, e) == Statement("let", x, e)
Set(x, e) == Statement("assign", x, e)
Return(e) == Statement("return", "", e)
Emit(e) == Statement("emit", "", e)
Do(e) == Statement("expr", "", e)
IfElse(e, b, d) == [op |-> "if", e |-> e, then |-> b, else |-> d]
ForIn(x, e, b) == [op |-> "for", n |-> x, e |-> e, b |-> b]

Decl(kind, name, sector, params, ret) ==
    [kind |-> kind, name |-> name, sector |-> sector, top |-> sector = "", lib |-> FALSE, params |-> params, ret |-> ret,
     tparams |-> {}, form |-> "expr", e |-> N(0), b |-> <<>>]
P(x, t) == [n |-> x, t |-> t]
Fn(name, sector, params, ret, e) == [Decl("fn", name, sector, params, ret) EXCEPT !.e = e]
FnDo(name, sector, params, ret, b) == [Decl("fn", name, sector, params, ret) EXCEPT !.form = "do", !.b = b]
On(sector, b) == [Decl("on", "f", sector, <<P("x", Con("Event.A"))>>, Con("Unit")) EXCEPT !.form = "do", !.b = b]
LetIn(sector, x, e) == [Decl("let", x, sector, <<>>, NoType) EXCEPT !.e = e]
Program(ds) == [decls |-> ds, aliases |-> ("Two" :> PC("Ok", <<Wild>>)) @@ ("One" :> PC("Two", <<>>)), tested |-> {"f"}]

Half == FnDo("half", "", <<P("x", TInt)>>, Result(TInt, TStr), <<IfElse(Bin("<", Var("x"), N(1)), <<Return(CallOf("Err", <<S>>))>>, <<>>),
                                                             Return(CallOf("Ok", <<Var("x")>>))>>)
First == Fn("first", "", <<P("x", TInt)>>, Option(TInt), MatchOf(Bin("==", Var("x"), N(0)), <<Arm(PB(TRUE), CallOf("None", <<>>)),
                                                                                     Arm(Wild, CallOf("Some", <<Var("x")>>))>>))
Inc == Fn("inc", "", <<P("x", TInt)>>, TInt, Bin("+", Var("x"), N(1)))
\* Counts in its sector, says so, and fails above two.
Bump == FnDo("bump", "s", <<P("d", TInt)>>, Result(TInt, TStr),
             <<Set("n", Bin("+", Var("n"), Var("d"))), Emit(CallOf("A1", <<Var("n")>>)),
               IfElse(Bin("<", N(2), Var("n")), <<Return(CallOf("Err", <<S>>))>>, <<>>), Return(CallOf("Ok", <<Var("n")>>))>>)
Total == LetIn("s", "n", N(0))

-----------------------------------------------------------------------------
(* Sugar.                                                                    *)

Atoms == {N(1), Var("n"), TryOf(CallOf("bump", <<N(1)>>)), TryOf(CallOf("bump", <<N(2)>>)),
          TryOf(CallOf("half", <<TryOf(CallOf("bump", <<N(1)>>))>>))}
Matches == {MatchOf(CallOf("half", <<Var("n")>>), <<Arm(PC("Two", <<>>), a), Arm(Wild, b)>>) : a \in Atoms, b \in Atoms}
        \union {MatchOf(CallOf("half", <<Var("n")>>), <<Arm(PC("Ok", <<PV("v")>>), Var("v")), Arm(PC("Err", <<Wild>>), b)>>) : b \in Atoms}
        \union {MatchOf(a, <<Arm(Wild, DoBlock(b))>>) : a \in Atoms,
                    b \in {<<Let("z", Atom), Do(Bin("+", N(1), Var("z")))>> : Atom \in Atoms} \union {<<Return(CallOf("Ok", <<N(7)>>))>>}}
        \union {MatchOf(CallOf("bump", <<N(2)>>), <<Arm(PC("One", <<>>), N(1))>>)}
Pipes == {PipeOf(a, <<Stage("inc", <<>>), Stage("half", <<>>)>>) : a \in Atoms} \union {PipeOf(N(1), <<Stage("bump", <<>>)>>)}
Sums2 == {Bin("+", a, b) : a \in Atoms, b \in Atoms}
         \union {Bin("+", a, Bin("+", b, TryOf(CallOf("bump", <<N(1)>>)))) : a \in {N(1), TryOf(CallOf("bump", <<N(1)>>))}, b \in Atoms}
Numbers == Sums2 \union Matches
\* The bodies around an expression; last is what the function or handler ends with.
Bodies(e, last) ==
    {<<Let("y", e), Emit(CallOf("A1", <<Var("y")>>)), last>>, <<Set("n", e), last>>,
     <<IfElse(Bin("<", e, N(3)), <<Set("n", N(9)), last>>, <<>>), last>>}
Sugared ==
    {Program(<<Total, Half, Inc, Bump, FnDo("f", "s", <<>>, Result(TInt, TStr), b)>>) :
        b \in UNION {Bodies(e, Return(CallOf("Ok", <<e>>))) : e \in Numbers} \union {<<Return(e)>> : e \in Pipes}}
    \union {Program(<<On("s", b), Total, Half, Bump>>) : b \in UNION {Bodies(e, Do(e)) : e \in Matches}}
    \union {Program(<<Total, Half, Bump, Fn("f", "s", <<>>, TInt, e)>>) : e \in Matches}
    \union {Program(<<First, Fn("f", "", <<P("x", TInt)>>, Option(TInt), CallOf("Some", <<Bin("+", TryOf(CallOf("first", <<a>>)), b)>>))>>) :
                a \in {Var("x"), N(0)}, b \in {N(1), TryOf(CallOf("first", <<Var("x")>>))}}

-----------------------------------------------------------------------------
(* Types: one expression, in a function of one parameter.                    *)

ParamTypes == {TInt, TBool, Shape, Point, Con("Num"), Option(TInt)}
RetTypes == {TInt, TBool, TStr, Shape, Point, Option(TInt), App("Opt", <<TInt>>), Result(TInt, TStr), Con("T")}
Values == {Var("x"), N(1), T(TRUE), S, Var("Dot"), Var("None"), CallOf("None", <<>>)}
Leaves == Values \union {CallOf("inc", <<v>>) : v \in Values} \union {CallOf(f, <<Var("x")>>) : f \in {"Box", "Flag", "Some", "Ok", "Err", "id", "Dot"}}
              \union {Member(Var("x"), f) : f \in {"a", "b", "c"}} \union {CallOf("inc", <<>>), CallOf("Box", <<N(1), N(1)>>)}
Exprs == Leaves
    \union {CallOf(f, <<v>>) : f \in {"Some", "Err", "Box"}, v \in Values}
    \union {Bin(op, v, w) : op \in {"+", "<", "==", "and"}, v \in {Var("x"), N(1), T(TRUE), S}, w \in {Var("x"), CallOf("inc", <<N(1)>>), T(TRUE), S}}
    \union {Node("not", "", <<v>>) : v \in Values}
    \union {Rec(<<"a", "b">>, <<v, w>>) : v \in {Var("x"), N(1)}, w \in {Var("x"), T(TRUE)}} \union {Rec(<<"a">>, <<N(1)>>)}
    \union {Rec(<<"a", "c">>, <<N(1), N(1)>>), Member(Rec(<<"a">>, <<Var("x")>>), "a")}
    \union {MatchOf(Var("x"), <<Arm(p, v), Arm(Wild, w)>>) : p \in {PB(TRUE), PC("Dot", <<>>), PC("Box", <<Wild>>), PC("Some", <<Wild>>), PC("Two", <<>>)},
                                                            v \in {Var("x"), N(1), Var("Dot")}, w \in {N(2), Var("x"), Var("Dot")}}
    \union {MatchOf(Var("x"), <<Arm(p, v), Arm(Wild, w)>>) : p \in {PC("Box", <<PV("y")>>), PC("Flag", <<PV("y")>>), PC("Some", <<PV("y")>>), PV("y")},
                                                            v \in {Var("y"), CallOf("inc", <<Var("y")>>)}, w \in {N(2), Var("x")}}
Id == [Fn("id", "", <<P("v", Con("T"))>>, Con("T"), Var("v")) EXCEPT !.tparams = {"T"}]
Typings == {Program(<<[Fn("f", "", <<P("x", p)>>, r, e) EXCEPT !.tparams = IF r = Con("T") THEN {"T"} ELSE {}], Inc, Id>>) :
               p \in ParamTypes, r \in RetTypes, e \in Exprs}
Statementwise ==
    {Program(<<Inc, FnDo("f", "", <<P("x", p)>>, r, <<Let("y", e), IfElse(Bin("==", Var("y"), Var("y")), <<Return(Var("y"))>>, <<Set("y", v)>>),
                                                     Return(Var("y"))>>)>>) :
        p \in {TInt, Shape, Option(TInt)}, r \in {TInt, Shape, Option(TInt)}, e \in Leaves \ {CallOf("id", <<Var("x")>>)},
        v \in {N(1), Var("x"), Var("Dot"), CallOf("None", <<>>)}}

-----------------------------------------------------------------------------
(* Effects: functions and handlers of no sector, of two sectors and of the   *)
(* standard library, which use each other and the variables.                 *)

Ask == [Fn("ask", Bridge, <<>>, Con("Unit"), N(0)) EXCEPT !.lib = TRUE, !.form = "do", !.b = <<Do(N(0))>>]
Now == [Fn("now", "std", <<>>, Con("Unit"), Rpc("rpc", Bridge, "ask", <<>>)) EXCEPT !.lib = TRUE]
StrLen == [Fn("strLen", "", <<P("s", TStr)>>, TInt, N(0)) EXCEPT !.lib = TRUE]
Length == [Fn("length", "", <<P("s", TStr)>>, TInt, CallOf("strLen", <<Var("s")>>)) EXCEPT !.lib = TRUE]
Pure == Fn("pure", "", <<P("x", TInt)>>, TInt, CallOf("inc", <<Var("x")>>))
Flip == FnDo("flip", "t", <<P("b", TBool)>>, TBool, <<Set("m", Var("b")), Return(Var("m"))>>)
Mine == LetIn("t", "m", T(TRUE))
\* A function of t declared outside of it: everyone can name it.
Far == [FnDo("far", "t", <<>>, TInt, <<Emit(CallOf("A1", <<N(9)>>)), Return(N(1))>>) EXCEPT !.top = TRUE]
\* The length of a string by the primitive, in every kind of expression and statement.
Raw == CallOf("strLen", <<S>>)
Around(e) == {e, Bin("+", N(1), e), Bin("<", e, N(1)), Node("not", "", <<e>>), Member(Rec(<<"a">>, <<e>>), "a"), CallOf("inc", <<e>>),
              MatchOf(e, <<Arm(Wild, N(1))>>), MatchOf(Var("x"), <<Arm(Wild, e)>>), PipeOf(e, <<Stage("inc", <<>>)>>),
              PipeOf(S, <<Stage("strLen", <<>>)>>), TryOf(CallOf("half", <<e>>)), Rpc("rpc", "s", "bump", <<e>>)}
Uses == {CallOf("far", <<>>), CallOf("pure", <<Var("x")>>),
         Rpc("rpc", "s", "bump", <<N(2)>>), Rpc("rpc", "t", "flip", <<T(FALSE)>>), Rpc("send", "t", "flip", <<T(FALSE)>>), Rpc("rpc", "t", "flip", <<N(1)>>),
         Rpc("rpc", "std", "now", <<>>), Rpc("rpc", Bridge, "ask", <<>>), Rpc("send", Bridge, "ask", <<>>), Var("x"),
         Var("strLen"), CallOf("length", <<S>>)} \union Around(Raw)
UsesIn(s) == Uses \union (CASE s = "s" -> {CallOf("bump", <<N(1)>>)} [] s = "t" -> {CallOf("flip", <<T(FALSE)>>), CallOf("flip", <<N(1)>>)}
                           [] s = "std" -> {CallOf("now", <<>>)} [] OTHER -> {})
Statements(s) == LET uses == UsesIn(s) IN {Do(e) : e \in uses} \union {Let("y", e) : e \in uses}
    \union {Emit(e) : e \in {CallOf("A1", <<N(1)>>), Var("x"), N(1)}}
    \union {[op |-> "stop"], [op |-> "yield"], ForIn("y", Var("x"), <<Do(N(1))>>)}
    \union {Return(Raw), Emit(CallOf("A1", <<Raw>>)), ForIn("y", Raw, <<>>), IfElse(Bin("==", Raw, N(1)), <<>>, <<>>)}
    \union {IfElse(T(TRUE), <<Do(e)>>, <<Emit(CallOf("A1", <<N(1)>>))>>) : e \in uses}
    \union {Do(MatchOf(Var("x"), <<Arm(Wild, DoBlock(<<Do(e)>>))>>)) : e \in uses}
    \union {Do(MatchOf(Var("x"), <<Arm(PV("z"), e)>>)) : e \in uses}
OfSector == {Set("n", e) : e \in {N(1), T(TRUE), Raw, Bin("+", Var("n"), N(1)), CallOf("inc", <<Var("n")>>)}}
World == <<Total, Mine, Inc, Half, Pure, Bump, Flip, Far, StrLen, Length, Now, Ask>>
InWorld(d) == Program(<<d>> \o World)
Effects == UNION {{InWorld(FnDo("f", s, <<P("x", TInt)>>, TInt, <<st, Return(Var("x"))>>)) : st \in Statements(s)} : s \in {"", "s", "t"}}
    \union {InWorld(FnDo("f", "s", <<P("x", TInt)>>, TInt, <<st, Return(Var("n"))>>)) : st \in OfSector}
    \union {InWorld(On("s", <<st>>)) : st \in Statements("s") \union {Do(TryOf(CallOf("bump", <<N(3)>>)))}}
    \union {InWorld(On("", <<st>>)) : st \in Statements("") \union {Do(TryOf(Rpc("rpc", "s", "bump", <<N(3)>>)))}}
    \union {InWorld([Fn("f", "std", <<P("x", TInt)>>, Con("Unit"), e) EXCEPT !.lib = TRUE]) : e \in UsesIn("std")}
\* Initialisers, which the policy does not look at and which can neither call nor match.
Initials == {Program(<<Total, LetIn("s", "k", e), LetIn("s", "j", Bin("+", Var("k"), N(1))), StrLen, Length, Ask,
                       Fn("f", "s", <<>>, TInt, Bin("+", Var("j"), Var("n")))>>) :
                e \in {Raw, CallOf("length", <<S>>), Rpc("rpc", Bridge, "ask", <<>>), MatchOf(N(1), <<Arm(Wild, N(1))>>), Bin("+", N(1), Raw)}}

MCPrograms == Initials \union Sugared \union Typings \union Statementwise \union Effects
=============================================================================
