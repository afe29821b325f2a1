-------------------------- MODULE MCNameResolution --------------------------
(* Use graphs of three modules; bodies, declarations and patterns in every   *)
(* context up to the bounds below.                                           *)
EXTENDS NameResolution

NodeOf(form, name, bare) == [form |-> form, name |-> name, bare |-> bare, d |-> 1]
Inner(pat) == [k \in DOMAIN pat |-> [pat[k] EXCEPT !.d = @ + 1]]
Wild == <<NodeOf("wild", "", TRUE)>>
D(kind, name) == [kind |-> kind, name |-> name, sector |-> "", tparams |-> <<>>, ctors |-> <<>>, body |-> <<>>, items |-> <<>>,
                  pat |-> Wild]
Fn(name, body) == [D("fn", name) EXCEPT !.body = body]
On(body) == [D("on", "") EXCEPT !.body = body]
In(s, its) == [D("sector", s) EXCEPT !.items = its]
Ty(name, ctors) == [D("type", name) EXCEPT !.ctors = ctors]
At(s, fn) == [fn EXCEPT !.sector = s]
Ln(d, form, name) == [d |-> d, form |-> form, name |-> name, of |-> <<>>, pat |-> Wild]
Of_(d, form, of, name) == [d |-> d, form |-> form, name |-> name, of |-> of, pat |-> Wild]

Var(x) == <<NodeOf("var", x, TRUE)>>
Nullary(c) == <<NodeOf("ctor", c, TRUE)>>
Ctor(c, args) == <<NodeOf("ctor", c, FALSE)>> \o FlattenSeq([k \in DOMAIN args |-> Inner(args[k])])
Alias(name, pat) == [D("pattern", name) EXCEPT !.pat = pat]
Arm(d, pat) == [Ln(d, "arm", "") EXCEPT !.pat = pat]

NoPath == [p \in {} |-> ""]
Proj(text, path, roots) ==
    [main |-> "main", prelude |-> FALSE, roots |-> roots, path |-> path, text |-> text, flvdiscard |-> <<>>, compiles |-> 1]
Alone(its) == Proj([f \in {"main"} |-> its], NoPath, <<>>)
\* A program with the module lib of its own directory and the stdlib module m.
With(its, lib) ==
    Proj([f \in {"main", "lib", "m"} |-> IF f = "main" THEN <<D("use", "lib"), D("use", "m")>> \o its
                                         ELSE IF f = "lib" THEN lib ELSE <<Fn("x", <<>>)>>],
         [p \in {<<"src", "lib", "flv">>, <<"stdlib", "m", "pkg">>} |-> IF p[2] = "lib" THEN "lib" ELSE "m"], <<"src">>)

-----------------------------------------------------------------------------
(* Modules.                                                                  *)

Mods == <<"a", "b", "c">>
UseSets == SUBSET {1, 2, 3}
UsesOfSet(s) == [k \in 1..Cardinality(s) |-> D("use", Mods[SetToSortSeq(s, <)[k]])]
Graph(ua, ub, uc, um, n) ==
    [Proj([f \in {"main", "a", "b", "c"} |->
              CASE f = "a" -> UsesOfSet(ua) \o <<Fn("x", <<>>)>> [] f = "b" -> UsesOfSet(ub) [] f = "c" -> UsesOfSet(uc)
                [] OTHER -> um],
          [p \in {<<"src", "a", "flv">>, <<"src", "b", "pkg">>, <<"stdlib", "b", "flv">>, <<"stdlib", "c", "flv">>} |->
              p[2]], <<"src">>)
     EXCEPT !.compiles = n]

Graphs == {Graph(ua, ub, uc, um, 1) : ua \in UseSets, ub \in UseSets, uc \in UseSets,
              um \in {<<D("use", "a"), D("use", "b")>>, <<D("use", "c"), D("use", "a"), D("use", "c")>>}}
Recompiled == {Graph(ua, {}, uc, <<D("use", "a"), D("use", "c")>>, 2) : ua \in UseSets, uc \in SUBSET {1, 2}}

\* With the prelude: it uses a stdlib module that the program uses, or is, or
\* finds in a directory of its own; a module that is nowhere; the bridge.
Preluded(main, uses, roots) ==
    [Proj([f \in {Prelude, "main", "opt", "vendored", "bridge"} |->
              CASE f = Prelude -> <<D("use", "std.option")>> [] f = "main" -> uses
                [] f = "opt" -> <<Ty("Option", <<"Some", "None">>)>> [] f = "bridge" -> <<Fn("pyPrint", <<>>)>>
                [] OTHER -> <<D("use", "_bridge_python"), Fn("v", <<>>)>>],
          [p \in {<<"stdlib", "std.option", "flv">>, <<"vendor", "std.option", "flv">>, <<"stdlib", "_bridge_python", "flv">>,
                  <<"stdlib", "prelude", "flv">>} |->
              CASE p[2] = "prelude" -> Prelude [] p[2] = "_bridge_python" -> "bridge"
                [] p[1] = "vendor" -> "vendored" [] OTHER -> "opt"], roots)
     EXCEPT !.main = main, !.prelude = TRUE, !.compiles = 2]

Preludes == {Preluded(main, uses, roots) : main \in {"main", "opt", Prelude}, roots \in {<<>>, <<"vendor">>, <<"stdlib">>},
                uses \in {<<>>, <<D("use", "std.option"), Fn("w", <<>>)>>, <<D("use", "nowhere")>>, <<D("use", "_bridge_python")>>,
                          <<D("use", "prelude")>>}}

-----------------------------------------------------------------------------
(* Bodies: what one name means.                                              *)

BodyForms == {"let", "use", "block", "for", "arm"}
BodyLine(d, form) == IF form = "arm" THEN Arm(d, Ctor("C", <<Var("x")>>)) ELSE Ln(d, form, IF form = "block" THEN "" ELSE "x")
Opens(form) == form \in {"block", "for", "arm"}
Legal(ds, fs) == /\ ds[1] = 1
                 /\ \A k \in 1..(Len(ds) - 1) : ds[k + 1] <= ds[k] + (IF Opens(fs[k]) THEN 1 ELSE 0)
Bodies(n) == {[k \in 1..n |-> BodyLine(b[1][k], b[2][k])] :
                 b \in {c \in ([1..n -> 1..3] \X [1..n -> BodyForms]) : Legal(c[1], c[2])}}

Around == <<"none", "main", "lib", "both", "sector">>
\* The body in a function of sector s, with x declared as the case says.
Context(body, where) ==
    LET its == <<Ty("T", <<"C">>)>> \o (IF where \in {"main", "both"} THEN <<D("const", "x")>> ELSE <<>>)
               \o <<In("s", <<Fn("f", body)>> \o (IF where = "sector" THEN <<D("var", "x")>> ELSE <<>>))>>
    IN  IF where = "none" THEN Alone(its) ELSE With(its, IF where \in {"lib", "both"} THEN <<Fn("x", <<Ln(1, "use", "x")>>)>> ELSE <<>>)

Scoped == {Context(b, w) : b \in Bodies(1) \union Bodies(2) \union Bodies(3), w \in Range(Around)}
Deeper == {Context(b \o <<Ln(Last(b).d, "use", "x")>>, w) : b \in Bodies(3), w \in {"none", "sector"}}

-----------------------------------------------------------------------------
(* Declarations next to each other.                                          *)

Decls == {Ty("T", <<"C", "C">>), Ty("U", <<"C">>), Ty("Int", <<>>), D("const", "C"), D("var", "_"), D("var", "skip"), Fn("x", <<>>),
          [D("type", "B") EXCEPT !.tparams = <<"E">>, !.body = <<Ln(0, "type", "E"), Ln(0, "type", "T"), Ln(0, "await", "E")>>],
          At("s", Fn("x", <<Ln(1, "use", "y")>>)), D("mixin", "M"),
          In("s", <<D("need", "y"), Fn("z", <<Of_(1, "rpc", <<"s">>, "x")>>)>>),
          In("main", <<D("var", "y"), At("s", Fn("x", <<>>)), Fn("x", <<>>)>>),
          On(<<Ln(1, "let", "e"), Ln(1, "use", "y"), Of_(1, "rpc", <<"main">>, "y")>>),
          On(<<Of_(1, "rpc", <<"s">>, "y"), Of_(1, "member", <<"m">>, "x"), Of_(1, "member", <<"e">>, "x")>>),
          Fn("m", <<Ln(1, "let", "m"), Of_(1, "member", <<"m">>, "x")>>)}

Declared == {Alone(<<a, b, c>>) : a \in Decls, b \in Decls, c \in Decls}
Imported == {With(<<a, b>>, <<c>>) : a \in Decls, b \in Decls, c \in Decls}
Discarding == {[Alone(<<D("var", a), D("var", b), Fn("f", <<Ln(1, "let", a), Ln(1, "let", b), Ln(1, "use", b)>>)>>)
                     EXCEPT !.flvdiscard = fs] : a \in {"_", "skip"}, b \in {"_", "skip"}, fs \in {<<{}>>, <<{"skip"}, {"_"}>>}}

\* Members of the stdlib modules m and m.n, whether the program uses the second or not.
Chains == {<<"m", "x">>, <<"m", "n">>, <<"m", "n", "x">>, <<"m", "n", "y">>, <<"m", "x", "y">>, <<"e", "m", "x">>, <<"m", "n", "y", "x">>,
           <<"e", "y">>}
Chained == {LET project0 == With(more \o <<D("const", "n"), Fn("f", <<Ln(1, "let", x), Of_(1, "member", Front(c), Last(c))>>)>>, <<Fn("y", <<>>)>>)
            IN  [project0 EXCEPT !.text = @ @@ ("n" :> <<Fn("y", <<>>)>>), !.path = @ @@ (<<"stdlib", "m.n", "flv">> :> "n")] :
               x \in {"m", "e"}, c \in Chains, more \in {<<>>, <<D("use", "m.n")>>}}

-----------------------------------------------------------------------------
(* Patterns and their aliases.                                               *)

Pats == {Wild, Var("x"), Nullary("A"), Nullary("B"), Nullary("C"), Ctor("C", <<Nullary("A")>>), Ctor("A", <<Wild>>),
         Ctor("C", <<Nullary("B"), Wild>>)}
ArmPats == Pats \union {Ctor("C", <<Var("x"), Var("x")>>), Ctor("C", <<Var("x"), Nullary("B")>>)}
Matches(pat) == Fn("f", <<Arm(1, pat), Ln(2, "let", "y")>>)
Patterned == {Alone(<<Ty("T", <<"C">>), Alias("A", p), Alias("B", q), Matches(r)>>) : p \in Pats, q \in Pats, r \in ArmPats}
Later == {Alone(<<Ty("T", <<"C">>), Alias("A", p), Matches(r), Alias(x, q)>>) :
                        p \in Pats, q \in {Wild, Nullary("A")}, r \in Pats, x \in {"A", "B"}}

MCProjects == <<Graphs, Recompiled, Preludes, Scoped, Deeper, Declared, Imported, Discarding, Chained, Patterned, Later>>
MCStdlib == {Prelude, "b", "c", "m", "n", "opt", "bridge"}
=============================================================================
