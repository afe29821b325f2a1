------------------------------ MODULE MCLexer ------------------------------
(* Layouts of up to four lines, and lines of up to four characters.         *)
EXTENDS Lexer, TLC

L(k, b) == [indent |-> k, body |-> b]

Bodies == {<<>>, <<"name">>, <<"header">>, <<"header", "remark">>, <<"open">>, <<"close">>, <<"openSquare">>,
           <<"closeCurly">>, <<"closeHeader">>, <<"note">>, <<"note", "name">>, <<"note", "note">>, <<"note", "remark">>, <<"name", "remark">>}
Few == {<<"name">>, <<"header">>, <<"open">>, <<"note">>}

Layouts ==
    LET all == {L(k, b) : k \in 0..2, b \in Bodies}
        few == {L(k, b) : k \in 0..2, b \in Few} \union {L(1, <<"close">>)}
    IN  {<<a, b>> : a \in {L(k, b) : k \in 0..1, b \in Bodies}, b \in all}
        \union {<<L(0, <<"header">>), a, b>> : a \in all, b \in all}
        \union {<<L(0, <<"header">>), L(1, <<"header">>), a, b, c>> : a \in few, b \in few, c \in few}

Chars == {"x", "b", "d", "o", "_", "0", "1", "7", ".", "*", "=", "/", "-", ">", "\"", "\\", "w:", "w=", "w/", "w*",
          " ", "\t", "\r", "!", "<"}
Punctuation == {p[1] : p \in Twos} \union Ones \union FullWidth
OpChars == {"*", "=", "/", "|", ">", "x", "w/"}
StrChars == {"\"", "\\", "x", "b", "7"}
NumChars == {"0", "x", "b", "7", "_", "."}
NoteChars == {"*", "/", "x"}

Words(cs, n) == [1..n -> cs]

Lines == Words(Chars, 3) \union Words(Punctuation, 2) \union Words(OpChars, 4) \union Words(NumChars, 5)
            \union {<<"\"">> \o w : w \in Words(StrChars, 5)}
            \union {<<"b", "\"">> \o w \o <<"\"">> : w \in Words(StrChars \union {"w:"}, 2)}
            \union {<<"/", "*">> \o w \o <<"*", "/", "x">> : w \in Words(NoteChars, 5)}

MCSources == Layouts \union {<<L(0, w)>> : w \in Lines}

MCSpelling ==
    [c \in Chars \union Punctuation |-> <<c>>]
    @@ [name |-> <<"x">>]
    @@ [openSquare |-> <<"x", "[">>, closeCurly |-> <<"}">>]
    @@ [header |-> <<"x", ":">>, open |-> <<"x", "(">>, close |-> <<")">>, closeHeader |-> <<")", ":">>,
        note |-> <<"/", "*", "/", "*", "(", "*", "/", "x", ":", "*", "/">>, remark |-> <<"/", "/", "(">>]

MCKeywords == {<<"d", "o">>}
=============================================================================
