------------------------------ MODULE MCParser ------------------------------
(* Every expression of two operators, every form of statement, body and item *)
(* with small parts, and token sequences nobody meant.                        *)
EXTENDS Parser

a == <<"var", "a">>
one == <<"lit", "1">>
Atoms == {a, one, <<"var", "Some">>, <<"tuple", <<>>>>}
Pos(e) == <<"pos", "", e>>

Bins == {"or", "and", "==", "+", "-", "*"}

Wrap(S) ==
    {<<"un", op, e>> : op \in {"-", "not"}, e \in S}
    \union {<<"call", e, <<>>>> : e \in S} \union {<<"call", a, <<Pos(e)>>>> : e \in S}
    \union {<<"call", a, <<Pos(one), <<"kw", "b", e>>, <<"*", "", a>>, <<"**", "", e>>>>>> : e \in S}
    \union {<<"member", e, "b">> : e \in S} \union {<<"try", e>> : e \in S}
    \union {<<"index", e, f>> : e \in S, f \in {one}} \union {<<"index", a, e>> : e \in S}
    \union {<<"tuple", <<e>>>> : e \in S} \union {<<"tuple", <<one, e>>>> : e \in S}
    \union {<<"record", <<<<"a", e>>, <<"b", one>>>>>> : e \in S}
    \union {<<k, "U", "f", <<e, one>>>> : k \in {"rpc", "call sector"}, e \in S}
    \union {<<"proceed", <<e>>>> : e \in S} \union {<<"pipe", e, <<f, e>>>> : e \in S, f \in {a}}

Flat == {<<"bin", op, a, one>> : op \in Bins} \union Wrap({a}) \union {<<"await", <<"U", "Some">>>>, <<"record", <<>>>>}
Nested == {<<"bin", op, l, r>> : op \in Bins, l \in Flat \union {a}, r \in Flat \union {a}}
             \union Wrap(Flat) \union {<<"pipe", one, <<e>>>> : e \in Flat}
Deep == LET Pure == {<<"bin", op, a, one>> : op \in Bins}
            Two == {<<"bin", op, l, a>> : op \in Bins, l \in Pure} \union {<<"bin", op, a, r>> : op \in Bins, r \in Pure}
        IN  {<<"bin", op, l, a>> : op \in Bins, l \in Two} \union {<<"bin", op, a, r>> : op \in Bins, r \in Two}

Patterns ==
    LET small == {<<"wild">>, <<"bool">>, <<"bind", "a">>, <<"ctor", <<"U">>>>, <<"ctor", <<"a", "U">>>>}
    IN  small \union {<<"ctor", <<"U">>, <<p, <<"wild">>>>>> : p \in small} \union {<<"ctor", <<"Some">>, <<>>>>}

Matches ==
    {<<"match", a, <<<<p, <<"expr", one>>>>, <<<<"wild">>, <<"do", <<<<"return", a>>>>>>>>>>>> : p \in Patterns}

Stmts ==
    {<<"let", "b", e>> : e \in Flat \union Matches} \union {<<k, e>> : k \in {"emit", "return", "expr"}, e \in {a} \union Matches}
    \union {<<"stop">>, <<"yield">>}
    \union {<<"assign", lv, op, e>> : lv \in {a, <<"member", a, "b">>, <<"index", a, <<"bin", "+", a, one>>>>},
                                     op \in {"=", "+="}, e \in {one, <<"tuple", <<a, one>>>>}}

Blocks ==
    LET plain == {<<"let", "b", a>>, <<"emit", a>>, <<"stop">>, <<"yield">>,
                  <<"return", CHOOSE m \in Matches : TRUE>>, <<"expr", CHOOSE m \in Matches : TRUE>>}
        branch == {<<"if", a, <<s>>>> : s \in Stmts} \union {<<"if", a, <<s>>, <<s, t>>>> : s \in plain, t \in plain}
        \* A statement that begins with a word may follow any other.
    IN  {<<s>> : s \in Stmts} \union {<<s, t>> : s \in Stmts \union branch, t \in plain}
        \union {<<<<"for", "b", one, <<s, <<"for", "a", a, <<s>>>>>>>>, s>> : s \in plain}

T(n, args) == <<"name", <<n>>, args>>
Types == {T("U", <<>>), T("U", <<T("Some", <<>>), <<"paren", T("U", <<T("U", <<>>)>>)>>>>), <<"name", <<"a", "U">>, <<>>>>}

Sigs ==
    {<<ps, r>> : ps \in {<<>>, <<<<"normal", "a", T("U", <<>>)>>, <<"*", "b", T("U", <<>>)>>, <<"**", "f", T("U", <<>>)>>>>},
                 r \in {<<>>} \union {<<t>> : t \in Types}}

Do == <<"do", <<<<"return", one>>>>>>
Bodies == {Do, <<"expr", a>>}
Needs == {<<>>, <<"", "">>, <<"s", "">>, <<"", "t">>, <<"s", "t">>}

SectorItems ==
    {<<"need", "a", one, n>> : n \in Needs} \union {<<"let", "a", one>>}
    \union {<<"fn", q, "f", g, s, body>> : q \in {"", "U"}, g \in {<<>>, <<"a", "b">>}, s \in Sigs, body \in Bodies}
    \union {<<"on", ev, bi, w, body>> : ev \in {<<"event", <<"U">>>>, <<"event", <<"U">>, <<a, one>>>>},
                                        bi \in {"", "b"}, w \in {<<>>, a}, body \in Bodies}

Mixin == <<<<"U">>, "v1">>
Opts == {<<>>, <<<<"a", "s">>, <<"const", "-", "1">>, <<"b", "0", "-", "1">>>>}
MixinItems ==
    {<<"pattern", <<"U">>, p>> : p \in Patterns} \union {<<"add", <<"a", t>>>> : t \in Types}
    \union {<<"member fn", "fn", "", "f", s, <<>>, body>> : s \in Sigs, body \in Bodies}
    \union {<<"member fn", "around", "", "f", s, <<>>, Do[2]>> : s \in Sigs}
    \union {<<"member fn", "hook", p, "f", s, o, body>> : p \in {"head", "invoke"}, s \in Sigs, o \in Opts, body \in Bodies}

Decls ==
    {<<"type", <<"U">>, g, r>> : g \in {<<>>, <<"a", "b">>}, r \in
        {<<"record", <<>>>>} \union {<<"record", <<<<"a", t>>, <<"b", t>>>>>> : t \in Types} \union {<<"alias", t>> : t \in Types}
        \union {<<"sum", <<<<"U", <<t, t>>>>, <<"Some", <<>>>>, <<"a", <<t>>>>>>>> : t \in Types}}
    \union {<<"const", "a", e>> : e \in Flat} \union {<<"pattern", <<"U">>, p>> : p \in Patterns}
    \union {<<"use", <<"a", "b">>>>, <<"use mixin", Mixin>>, <<"run">>,
            <<"resolve", <<<<Mixin, <<<<"a", "b">>, "v2">>>>, <<Mixin, Mixin>>>>>>}
    \union {<<"sector", "U", <<d, <<"let", "b", a>>>>>> : d \in SectorItems} \union SectorItems
    \union {<<"mixin", Mixin, "sector", "U", <<d, d>>>> : d \in MixinItems}
    \union {<<"mixin", Mixin, "type", <<"U">>, <<d>>>> : d \in MixinItems}

MCPrograms ==
    {<<<<"let", "a", e>>>> : e \in Nested \union Deep}
    \union {<<<<"fn", "", "f", <<>>, <<<<>>, <<>>>>, <<"do", b>>>>>> : b \in Blocks}
    \union {<<<<"let", "b", one>>, d>> : d \in Decls}

\* Lists of attributes and of options with every key written again and again,
\* assignments to chains of suffixes, and the fields a mixin adds.
Lists(entries) ==
    {Commas(es) : es \in UNION {[1..n -> entries] : n \in 0..3}} \union {Commas(<<e, <<>>>>) : e \in entries}
Attributes == Lists({<<k, "=", v>> : k \in {"cache", "cacheFail"}, v \in {"s", "t"}} \union {<<"a", "=", "s">>})
Options == Lists({<<k, "=">> \o v : k \in {"a", "const"}, v \in {<<"1">>, <<"-", "1">>, <<"0", "-", "1">>, <<"a">>}}
                 \union {<<"Some", "=", "0">>, <<"a", "=", "Some">>, <<"a", "=", "0", "-", "a">>})
Chains == {FlattenSeq(ss) : ss \in UNION {[1..n -> {<<".", "b">>, <<"[", "1", "]">>, <<"[", "a", "[", "1", "]", "]">>}] : n \in 0..3}}

InMixin(target, item) == <<"mixin", "U", "v1", "into">> \o target \o <<":", "NL", "INDENT">> \o item \o <<"NL", "DEDENT">>
Special ==
    {<<"need", "(">> \o w \o <<")", "a", "=", "1">> : w \in Attributes}
    \union {InMixin(<<"sector", "U">>, <<"hook", "head", "fn", "f", "(", ")", "with", "(">> \o w \o <<")", "=", "1">>) :
                w \in Options}
    \union {InMixin(target, <<name, sep, "U">>) : target \in {<<"U">>, <<"type", "U">>, <<"type", "a", ".", "U">>},
                name \in {"a", "Some", "hook"}, sep \in {":", "="}}
    \union {<<"fn", "f", "(", ")", "=", "do", ":", "NL", "INDENT", name>> \o w \o <<op, "1", "NL", "DEDENT">> :
                name \in {"a", "Some"}, w \in Chains, op \in {"=", "+=", "+"}}

MCInputs ==
    Special \union
    {<<"let", "a", "=">> \o w : w \in [1..4 -> {"a", "1", "-", "(", ")", ",", "=", ".", "|>"}]}
    \union {<<"fn", "f", "(", ")", "=", "do", ":", "NL", "INDENT">> \o w \o <<"NL", "DEDENT">> :
                w \in [1..4 -> {"a", "1", "NL", "=", "[", "]", "(", ")", "let"}]}
    \union {<<"type", "U", "=">> \o w : w \in [1..4 -> {"U", "|", "(", ")", "[", "]", ","}]}

MCIdents == {"a", "b", "f", "U", "Some", "v1", "v2", "hook", "with", "head", "invoke", "conflict", "_",
             "cache", "cacheFail"}
=============================================================================
