--------------------------- MODULE NameResolution ---------------------------
(***************************************************************************)
(* flavent/resolve.py: _collect_decls and _resolve_uses, on the program    *)
(* that ModuleLoader has put together. Collecting takes one declaration a  *)
(* step; resolving takes one use, binder or block of a body a step. A body *)
(* is the sequence of these, each with its depth, in the order in which    *)
(* _resolve_fn, _resolve_block and _resolve_expr come to them.             *)
(***************************************************************************)
EXTENDS ModuleLoader

CONSTANT RecursionLimit     \* how deep patterns may nest before Python gives up

ASSUME RecursionLimitIsNat == RecursionLimit \in Nat

\* How deep the line behind this one may stand: a block, a for and an arm of a
\* match open a block.
DepthBehind(ln) == IF ln.form \in {"block", "for", "arm"} THEN ln.d + 1 ELSE ln.d

\* A pattern is its constructors, binders and wildcards, the outermost first.
ParsedPattern(pat) ==
    pat \in Seq(Range(pat)) /\ pat # <<>> /\ \A k \in DOMAIN pat : DOMAIN pat[k] = {"form", "name", "bare", "d"}

\* A body begins at its base, gets deeper behind what opens a block only, and
\* binds in blocks only.
ParsedBody(body, base) ==
    /\ body \in Seq(Range(body))
    /\ \A l \in DOMAIN body :
          /\ body[l].form \in {"let", "use", "member", "type", "await", "rpc", "block", "for", "arm"}
          /\ body[l].d \in base..(IF l = 1 THEN base ELSE DepthBehind(body[l - 1]))
          /\ body[l].form = "let" => body[l].d > 0
          /\ body[l].form = "arm" => ParsedPattern(body[l].pat)
          /\ body[l].of \in Seq(Range(body[l].of)) /\ (body[l].form \in {"member", "rpc"} <=> body[l].of # <<>>)

\* Functions and handlers have a scope of their own; a pattern has no body.
ParsedItem(it) ==
    /\ it.tparams \in Seq(Range(it.tparams)) /\ it.ctors \in Seq(Range(it.ctors)) /\ it.items \in Seq(Range(it.items))
    /\ ParsedPattern(it.pat) /\ (it.kind = "pattern" => it.body = <<>>)
    /\ ParsedBody(it.body, IF it.kind \in {"fn", "on"} THEN 1 ELSE 0)

\* What parse_program returns; in a sector it reads let, need, fn and on only.
ASSUME ParsedAssumption ==
    \A k \in DOMAIN Projects : \A p \in Projects[k] : \A f \in DOMAIN p.text : \A n \in DOMAIN p.text[f] :
        LET it == p.text[f][n]
        IN  /\ ParsedItem(it)
            /\ \A m \in DOMAIN it.items : ParsedItem(it.items[m]) /\ it.items[m].kind \in {"var", "need", "fn", "on"}

VARIABLES
    symbols,      \* symbols: [kind, name, file, owner, sector, decl], decl the place it was declared at
    globals,      \* the symbols of the global scope
    sectorScope,  \* sector |-> the symbols of its scope
    aliases,      \* pattern_aliases
    scopes,       \* the scopes inside a body, the innermost last
    refs,         \* ident_to_symbol and typename_to_symbol: [use, sym]
    agenda,       \* the declarations that are still to come: <<item, item of the sector or 0>>
    place,        \* the declaration whose body is resolved
    tparams,      \* its type parameters: name |-> symbol
    line,         \* the next line of the body: [d, form, name, of, pat]; a.b.c is a member c of <<a, b>>
    nodes,        \* what is left of the pattern of the line before
    seen          \* seen: the aliases followed from its next node

names == <<symbols, globals, sectorScope, aliases, scopes, refs, agenda, place, tparams, line, nodes, seen>>
vars == <<project, disk, std, since, frames, visited, order, got, items, at, compiles,
          symbols, globals, sectorScope, aliases, scopes, refs, agenda, place, tparams, line, nodes, seen>>

None == ""      \* no name, no qualifier, no file

Values == {"fn", "var", "const", "need", "ctor"}
Members == {"fn", "var", "need"}

Init ==
    /\ LoaderInit
    /\ symbols = <<>> /\ globals = {} /\ sectorScope = <<>> /\ aliases = <<>>
    /\ scopes = <<>> /\ refs = {} /\ agenda = {}
    /\ place = <<0, 0>> /\ tparams = <<>> /\ line = 1 /\ nodes = <<>> /\ seen = {}

-----------------------------------------------------------------------------
(* Places of the program and the symbols seen from them.                   *)

Item(p) == IF p[2] = 0 THEN items[p[1]].it ELSE items[p[1]].it.items[p[2]]
FileOf(p) == IF p[1] = 0 THEN P.main ELSE items[p[1]].file

\* The declarations of a sector, all declarations, and what a place has to say.
Inside(n) == IF items[n].it.kind = "sector" THEN DOMAIN items[n].it.items ELSE {}
Everywhere == UNION {{n} \X ({0} \union Inside(n)) : n \in DOMAIN items}
Body(p) == IF p \in Everywhere THEN Item(p).body ELSE <<>>

IsMain(n) == items[n].it.kind = "sector" /\ items[n].it.name = "main"
HasMain == \E n \in DOMAIN items : IsMain(n)
HasTopOn == \E n \in DOMAIN items : items[n].it.kind = "on"

\* The first of some places in the text; the main sector is collected before
\* the others, or made if there is none and a handler needs it.
First(ps) == LET n == Min({p[1] : p \in ps}) IN <<n, Min({p[2] : p \in {q \in ps : q[1] = n}})>>
InMain(ps) == {p \in ps : p[1] > 0 /\ IsMain(p[1])}
CollectOrder == Everywhere \union (IF HasTopOn /\ ~ HasMain THEN {<<0, 0>>} ELSE {})

Of(ids, kinds, x) == {s \in ids : symbols[s].kind \in kinds /\ symbols[s].name = x}

\* The sector that a place belongs to; 0 outside of every sector.
Sectors(x) == Of(globals, {"sector"}, x)
SectorAt(p) ==
    LET s == IF p[2] > 0 THEN Sectors(items[p[1]].it.name)
             ELSE IF p[1] > 0 /\ Item(p).kind = "on" THEN Sectors("main") ELSE {}
    IN  IF s = {} THEN 0 ELSE Min(s)

\* Scope.lookup: the symbols of the innermost scope that has the name.
Lookup(chain, x) ==
    LET having == {k \in DOMAIN chain : Of(chain[k], Values, x) # {}}
    IN  IF having = {} THEN {} ELSE Of(chain[Max(having)], Values, x)

\* fault: the first symbol is taken, whatever its file.
FirstOf(found, file) == IF found = {} THEN 0 ELSE Min(found)

\* _resolve_ident_value: among several, the one of the same file; 0 if there is
\* none or no single one.
Chosen(found, file) ==
    LET own == {s \in found : symbols[s].file = file}
    IN  IF Cardinality(found) = 1 THEN Min(found) ELSE IF Cardinality(own) = 1 THEN Min(own) ELSE 0

Sym(kind, name, p, owner, sector, l) ==
    [kind |-> kind, name |-> name, file |-> FileOf(p), owner |-> owner, sector |-> sector, decl |-> <<p[1], p[2], l>>]

NextId == Len(symbols) + 1

Reject(why) ==
    /\ at' = why
    /\ UNCHANGED <<project, disk, std, since, frames, visited, order, got, items, compiles>> /\ UNCHANGED names

-----------------------------------------------------------------------------
(* _collect_decls                                                          *)

\* _load_discard_names: the nearest flvdiscard file says which names bind nothing.
DiscardNames == IF P.flvdiscard = <<>> \/ P.flvdiscard[1] = {} THEN {"_"} ELSE P.flvdiscard[1]
Discarded(kind, x) == kind = "var" /\ x \in DiscardNames

\* fault: names of another file count as well.
TakenAnywhere(ids, x, file) == Of(ids, Values, x) # {}

\* _define_in_scope: the name is taken in this scope by a symbol of this file.
Taken(ids, x, file) == \E s \in Of(ids, Values, x) : symbols[s].file = file

\* _install_builtins: "Int" stands for the builtin types.
BeginCollect ==
    /\ at = "loaded"
    /\ at' = "collecting" /\ agenda' = CollectOrder
    /\ symbols' = <<Sym("type", "Int", <<0, 0>>, 0, 0, 0)>> /\ globals' = {1}
    /\ UNCHANGED <<project, disk, std, since, frames, visited, order, got, items, compiles,
                   sectorScope, aliases, scopes, refs, place, tparams, line, nodes, seen>>

Here == First(IF at = "collecting" /\ InMain(agenda) # {} THEN InMain(agenda) ELSE agenda)
Decl == Item(Here)

Collecting(kinds) == at = "collecting" /\ agenda # {} /\ Here # <<0, 0>> /\ Decl.kind \in kinds

Collected == agenda' = agenda \ {Here} /\ UNCHANGED <<project, disk, std, since, frames, visited, order, got, items, at,
                                                      compiles, aliases, scopes, refs, place, tparams, line, nodes, seen>>

\* The main sector of a program that has handlers outside of every sector.
CollectMain ==
    /\ at = "collecting" /\ agenda # {} /\ Here = <<0, 0>>
    /\ symbols' = Append(symbols, Sym("sector", "main", Here, 0, 0, 0))
    /\ globals' = globals \union {NextId}
    /\ sectorScope' = Adding(sectorScope, NextId, {})
    /\ Collected

\* _define_type: a constructor whose name is taken is left out.
CollectType ==
    LET ctors == SetToSeq({c \in Range(Decl.ctors) : Of(globals, Values, c) = {}})
    IN  /\ Collecting({"type"})
        /\ IF Of(globals, {"type"}, Decl.name) # {} THEN Reject("duplicate type")
           ELSE /\ symbols' = Append(symbols, Sym("type", Decl.name, Here, 0, 0, 0))
                                 \o [k \in DOMAIN ctors |-> Sym("ctor", ctors[k], Here, NextId, 0, 0)]
                /\ globals' = globals \union (NextId..(NextId + Len(ctors)))
                /\ UNCHANGED sectorScope
                /\ Collected

\* _define_sector and _define_mixin
CollectNamed ==
    /\ Collecting({"sector", "mixin"})
    /\ IF Of(globals, {Decl.kind}, Decl.name) # {}
       THEN Reject(IF Decl.kind = "sector" THEN "duplicate sector" ELSE "duplicate mixin")
       ELSE /\ symbols' = Append(symbols, Sym(Decl.kind, Decl.name, Here, 0, 0, 0))
            /\ globals' = globals \union {NextId}
            /\ sectorScope' = IF Decl.kind = "sector" THEN Adding(sectorScope, NextId, {}) ELSE sectorScope
            /\ Collected

\* _define_value_decl and _define_fn, outside of a sector and in one.
CollectValue ==
    LET owner == SectorAt(Here)
        scope == IF owner = 0 THEN globals ELSE sectorScope[owner]
        kept == ~ Discarded(Decl.kind, Decl.name)
        qualifier == IF Decl.sector = None THEN {} ELSE Sectors(Decl.sector)
    IN  /\ Collecting({"fn", "var", "const", "need"})
        /\ IF Decl.sector # None /\ qualifier = {} THEN Reject("unknown sector")
           ELSE IF kept /\ Taken(scope, Decl.name, FileOf(Here)) THEN Reject("duplicate name")
           ELSE /\ symbols' = Append(symbols, Sym(Decl.kind, Decl.name, Here, owner,
                                                  IF qualifier = {} THEN 0 ELSE Min(qualifier), 0))
                /\ globals' = IF kept /\ owner = 0 THEN globals \union {NextId} ELSE globals
                /\ sectorScope' = IF kept /\ owner # 0 THEN [sectorScope EXCEPT ![owner] = @ \union {NextId}] ELSE sectorScope
                /\ Collected

CollectHandler ==
    /\ Collecting({"on"})
    /\ symbols' = Append(symbols, Sym("handler", None, Here, SectorAt(Here), 0, 0))
    /\ UNCHANGED <<globals, sectorScope>> /\ Collected

CollectOther ==
    /\ Collecting({"pattern"})
    /\ UNCHANGED <<symbols, globals, sectorScope>> /\ Collected

CollectDone ==
    /\ at = "collecting" /\ agenda = {}
    /\ at' = "resolving" /\ agenda' = Everywhere
    /\ UNCHANGED <<project, disk, std, since, frames, visited, order, got, items, compiles,
                   symbols, globals, sectorScope, aliases, scopes, refs, place, tparams, line, nodes, seen>>

-----------------------------------------------------------------------------
(* _resolve_uses                                                           *)

Resolved == UNCHANGED <<project, disk, std, since, frames, visited, order, got, items, at, compiles, globals, sectorScope>>

\* The body of the place, or a pattern in it, is not over yet.
Line == Body(place)[line]
Node == Head(nodes)
BodyOver == nodes = <<>> /\ line > Len(Body(place))

\* _resolve_type_decl, _resolve_fn and _resolve_handler down to their bodies.
ResolveDecl ==
    /\ at = "resolving" /\ BodyOver /\ agenda # {} /\ Decl.kind # "pattern"
    /\ agenda' = agenda \ {Here} /\ place' = Here /\ line' = 1
    /\ symbols' = symbols \o [k \in DOMAIN Decl.tparams |-> Sym("type", Decl.tparams[k], Here, NextId, 0, 0)]
    /\ tparams' = [x \in Range(Decl.tparams) |-> Len(symbols) + CHOOSE k \in DOMAIN Decl.tparams : Decl.tparams[k] = x]
    /\ scopes' = IF Decl.kind \in {"fn", "on"} THEN <<{}>> ELSE <<>>
    /\ UNCHANGED <<aliases, refs, nodes, seen>> /\ Resolved

HasVar(pat) == \E k \in DOMAIN pat : pat[k].form = "var"

ResolveAlias ==
    /\ at = "resolving" /\ BodyOver /\ agenda # {} /\ Decl.kind = "pattern"
    /\ IF Decl.name \in DOMAIN aliases THEN Reject("duplicate pattern")
       ELSE IF HasVar(Decl.pat) THEN Reject("alias binds")
       ELSE /\ aliases' = Adding(aliases, Decl.name, Decl.pat)
            /\ agenda' = agenda \ {Here}
            /\ UNCHANGED <<symbols, scopes, refs, place, tparams, line, nodes, seen>> /\ Resolved

Resolving(forms) == at = "resolving" /\ nodes = <<>> /\ line <= Len(Body(place)) /\ Line.form \in forms

\* The scopes that are still open at a line of this depth.
Open == SubSeq(scopes, 1, Line.d)
Visible == <<globals>> \o (IF SectorAt(place) = 0 THEN <<>> ELSE <<sectorScope[SectorAt(place)]>>) \o Open

Refer(uses) ==
    /\ refs' = refs \union uses
    /\ line' = line + 1 /\ scopes' = Open
    /\ UNCHANGED <<symbols, aliases, agenda, place, tparams, nodes, seen>> /\ Resolved

Use(form, x, s) == [at |-> <<place[1], place[2], line>>, form |-> form, name |-> x, sym |-> s]

\* _try_resolve_namespaced_value: the names of a member up to k are a module of the
\* standard library, and the next is a global value of it.
StdlibFile(q) ==
    LET in == SelectSeq(<< <<"stdlib", q, "flv">>, <<"stdlib", q, "pkg">> >>, LAMBDA p : p \in DOMAIN P.path)
    IN  IF in = <<>> THEN None ELSE P.path[in[1]]
ModuleOf(ln, k) == StdlibFile(FoldLeft(LAMBDA q, x : q \o "." \o x, ln.of[1], SubSeq(ln.of, 2, k)))
FieldOf(ln, k) == IF k = Len(ln.of) THEN ln.name ELSE ln.of[k + 1]
Namespaced(k) == IF ModuleOf(Line, k) = None THEN {}
                 ELSE {s \in Of(globals, Values, FieldOf(Line, k)) : symbols[s].file = ModuleOf(Line, k)}

\* A member is tried first, then its object in the same way.
Modules == {k \in DOMAIN Line.of : Namespaced(k) # {}}

ResolveMember ==
    LET k == Max(Modules)
    IN  /\ Resolving({"member"}) /\ Modules # {}
        /\ IF Cardinality(Namespaced(k)) > 1 THEN Reject("ambiguous")
           ELSE Refer({Use("member", FieldOf(Line, k), Min(Namespaced(k)))})

\* A name, or the one that a member begins with and that no module explains.
ResolveName ==
    LET x == IF Line.form = "member" THEN Head(Line.of) ELSE Line.name
        found == Lookup(Visible, x)
        s == Chosen(found, FileOf(place))
    IN  /\ Resolving({"use", "member"}) /\ (Line.form = "member" => Modules = {})
        /\ IF s = 0 THEN Reject(IF found = {} THEN "not found" ELSE "ambiguous") ELSE Refer({Use("use", x, s)})

\* _resolve_type_ref; the event of an await may be unknown.
ResolveType ==
    LET types == Of(globals, {"type"}, Line.name)
    IN  /\ Resolving({"type", "await"})
        /\ IF Line.form = "type" /\ Line.name \in DOMAIN tparams THEN Refer({Use("type", Line.name, tparams[Line.name])})
           ELSE IF types # {} THEN Refer({Use(Line.form, Line.name, Min(types))})
           ELSE IF Line.form = "type" THEN Reject("unknown type") ELSE Refer({})

\* rpc S.f and call S.f, with _resolve_sector_fn.
ResolveSectorCall ==
    LET sectors == Sectors(Head(Line.of))
        S == Min(sectors)
        found == Lookup(<<globals, sectorScope[S]>>, Line.name)
                 \union {s \in DOMAIN symbols : symbols[s].kind = "fn" /\ symbols[s].name = Line.name /\ symbols[s].sector = S}
    IN  /\ Resolving({"rpc"})
        /\ IF sectors = {} THEN Reject("unknown sector")
           ELSE IF Cardinality(found) # 1 THEN Reject(IF found = {} THEN "not found" ELSE "ambiguous")
           ELSE Refer({Use("sector", Head(Line.of), S), Use("rpc", Line.name, Min(found))})

\* _define_in_scope: line l defines x in the innermost of these scopes.
Clashes(outer, x) == ~ Discarded("var", x) /\ Taken(Last(outer), x, FileOf(place))
Define(outer, x, l) ==
    /\ symbols' = Append(symbols, Sym("var", x, place, 0, 0, l))
    /\ scopes' = IF Discarded("var", x) THEN outer ELSE Append(Front(outer), Last(outer) \union {NextId})
    /\ UNCHANGED <<aliases, refs, agenda, place, tparams, seen>> /\ Resolved

\* A let, a parameter or a handler's binder; a for opens the scope of its binder.
Bind ==
    LET outer == IF Line.form = "for" THEN Append(Open, {}) ELSE Open
    IN  /\ Resolving({"let", "for"})
        /\ IF Clashes(outer, Line.name) THEN Reject("duplicate name")
           ELSE Define(outer, Line.name, line) /\ line' = line + 1 /\ UNCHANGED nodes

\* A block, or an arm of a match with its pattern.
OpenScope ==
    /\ Resolving({"block", "arm"})
    /\ scopes' = Append(Open, {}) /\ line' = line + 1
    /\ nodes' = IF Line.form = "arm" THEN Line.pat ELSE <<>>
    /\ UNCHANGED <<symbols, aliases, refs, agenda, place, tparams, seen>> /\ Resolved

-----------------------------------------------------------------------------
(* _resolve_pattern: one call of it a step.                                *)

Matching(form) == at = "resolving" /\ nodes # <<>> /\ Node.form = form /\ Node.d <= RecursionLimit
TooDeep == at = "resolving" /\ nodes # <<>> /\ Node.d > RecursionLimit /\ Reject("recursion")

MatchWild ==
    /\ Matching("wild") /\ nodes' = Tail(nodes)
    /\ UNCHANGED <<symbols, aliases, scopes, refs, agenda, place, tparams, line, seen>> /\ Resolved

MatchVar ==
    /\ Matching("var")
    /\ IF Clashes(scopes, Node.name) THEN Reject("duplicate name")
       ELSE Define(scopes, Node.name, line - 1) /\ nodes' = Tail(nodes) /\ UNCHANGED line

\* A constructor without arguments that names an alias.
IsAlias(node) == node.form = "ctor" /\ node.bare /\ node.name \in DOMAIN aliases

MatchCtor ==
    LET found == Of(globals, Values, Node.name)
    IN  /\ Matching("ctor") /\ ~ IsAlias(Node)
        /\ IF found = {} THEN Reject("unknown constructor")
           ELSE /\ refs' = refs \union {[at |-> <<place[1], place[2], line - 1>>, form |-> "ctor", name |-> Node.name, sym |-> Min(found)]}
                /\ nodes' = Tail(nodes)
                /\ UNCHANGED <<symbols, aliases, scopes, agenda, place, tparams, line, seen>> /\ Resolved

\* expand: from alias to alias while they have no arguments. The arguments of
\* the last one are resolved twice.
MatchAlias ==
    LET pat == aliases[Node.name]
        deeper == [k \in DOMAIN pat |-> [pat[k] EXCEPT !.d = @ + Node.d - 1]]
    IN  /\ Matching("ctor") /\ IsAlias(Node)
        /\ IF Node.name \in seen THEN Reject("cyclic alias")
           ELSE /\ IF IsAlias(Head(pat))
                   THEN nodes' = <<Head(deeper)>> \o Tail(nodes) /\ seen' = seen \union {Node.name}
                   ELSE nodes' = Tail(deeper) \o deeper \o Tail(nodes) /\ seen' = {}
                /\ UNCHANGED <<symbols, aliases, scopes, refs, agenda, place, tparams, line>> /\ Resolved

Done ==
    /\ at = "resolving" /\ BodyOver /\ agenda = {}
    /\ at' = "done"
    /\ UNCHANGED <<project, disk, std, since, frames, visited, order, got, items, compiles>> /\ UNCHANGED names

Afresh ==
    /\ symbols' = <<>> /\ globals' = {} /\ sectorScope' = <<>> /\ aliases' = <<>> /\ scopes' = <<>> /\ refs' = {}
    /\ agenda' = {} /\ place' = <<0, 0>> /\ tparams' = <<>> /\ line' = 1 /\ nodes' = <<>> /\ seen' = {}

Next ==
    \/ LoaderNext /\ UNCHANGED names
    \/ Recompile /\ Afresh
    \/ BeginCollect \/ CollectMain \/ CollectType \/ CollectNamed \/ CollectValue \/ CollectHandler \/ CollectOther \/ CollectDone
    \/ ResolveDecl \/ ResolveAlias \/ ResolveMember \/ ResolveName \/ ResolveType \/ ResolveSectorCall \/ Bind \/ OpenScope
    \/ MatchWild \/ MatchVar \/ MatchCtor \/ MatchAlias \/ TooDeep \/ Done

Spec == Init /\ [][Next]_vars

-----------------------------------------------------------------------------
(* Scoping as a reader of the program sees it: from the text and the       *)
(* indentation alone, without scopes or symbols.                           *)

Kinds(ks) == {p \in Everywhere : Item(p).kind \in ks}
Named(ks, x) == {p \in Kinds(ks) : Item(p).name = x}
Binds(p) == ~ Discarded(Item(p).kind, Item(p).name)

VarsOf(pat) == {pat[k].name : k \in {j \in DOMAIN pat : pat[j].form = "var"}}

\* The names a line binds, and how deep the block is that they are known in.
BoundBy(ln) == {x \in CASE ln.form \in {"let", "for"} -> {ln.name} [] ln.form = "arm" -> VarsOf(ln.pat) [] OTHER -> {} :
                   ~ Discarded("var", x)}
Depth(ln) == IF ln.form \in {"for", "arm"} THEN ln.d + 1 ELSE ln.d

\* The lines before l whose block is still open at l and that bind x.
Locals(body, l, x) ==
    {j \in 1..(l - 1) : x \in BoundBy(body[j]) /\ \A k \in (j + 1)..l : body[k].d >= Depth(body[j])}

\* The sector around a place: the handlers outside of every sector are in main.
SectorOf(p) ==
    IF p[2] > 0 THEN {p[1]} ELSE IF Item(p).kind = "on" THEN {n \in DOMAIN items : IsMain(n)} ELSE {}

\* What binds x outside of all sectors; a constructor counts if nothing before it does.
Global(x) ==
    LET values == {p \in Named(Members \union {"const"}, x) : p[2] = 0 /\ Binds(p)}
        sums == {p \in Kinds({"type"}) : x \in Range(Item(p).ctors)}
    IN  values \union {p \in sums : \A q \in values \union sums : q[1] >= p[1]}

Same(p, ps) == {q \in ps : FileOf(q) = FileOf(p)}

\* The declaration that the scoping rules give x at line l of p; {} if they give none.
Meaning(p, l, x) ==
    LET locals == Locals(Body(p), l, x)
        members == {q \in Named(Members, x) : q[2] > 0 /\ q[1] \in SectorOf(p) /\ Binds(q)}
        global == Global(x)
    IN  IF locals # {} THEN {<<p[1], p[2], j>> : j \in {k \in locals : \A j \in locals : Depth(Body(p)[j]) <= Depth(Body(p)[k])}}
        ELSE LET found == IF members # {} THEN members ELSE IF Cardinality(global) = 1 THEN global ELSE Same(p, global)
             IN  IF Cardinality(found) = 1 THEN {<<q[1], q[2], 0>> : q \in found} ELSE {}

\* Every use refers to what the scoping rules give it, and at the end every use
\* refers to something.
BindsAsScoped ==
    /\ \A r \in refs : r.form = "use" => symbols[r.sym].decl \in Meaning(<<r.at[1], r.at[2]>>, r.at[3], r.name)
    /\ at = "done" => \A p \in Everywhere : \A l \in DOMAIN Body(p) :
           Body(p)[l].form = "use" => \E r \in refs : r.at = <<p[1], p[2], l>> /\ r.name = Body(p)[l].name

-----------------------------------------------------------------------------
(* Which programs are rejected.                                            *)

Twice(ps) == \E p \in ps, q \in ps : p # q /\ Item(p).kind = Item(q).kind /\ Item(p).name = Item(q).name

\* Two bindings of one name in one scope, written in one file.
Clash ==
    LET values == {p \in Kinds(Members \union {"const"}) : Binds(p)}
    IN  \/ \E p \in values, q \in values : p # q /\ Item(p).name = Item(q).name /\ FileOf(p) = FileOf(q)
               /\ (IF p[2] = 0 THEN q[2] = 0 ELSE q[2] > 0 /\ q[1] = p[1])
        \/ \E p \in values : p[2] = 0 /\ \E q \in Global(Item(p).name) :
               Item(q).kind = "type" /\ q[1] < p[1] /\ FileOf(p) = FileOf(q)
        \/ \E p \in Everywhere : \E l \in DOMAIN Body(p) : LET ln == Body(p)[l] IN
               \/ ln.form = "arm" /\ \E j, k \in DOMAIN ln.pat :
                      j # k /\ ln.pat[j].form = "var" /\ ln.pat[k].form = "var"
                      /\ ln.pat[j].name = ln.pat[k].name /\ ~ Discarded("var", ln.pat[j].name)
               \/ ln.form = "let" /\ \E x \in BoundBy(ln) : \E j \in Locals(Body(p), l, x) : Depth(Body(p)[j]) = ln.d

Mentions(pat) == {<<pat[k].name, pat[k].bare>> : k \in {j \in DOMAIN pat : pat[j].form = "ctor"}}

\* What a pattern comes to mention when the aliases declared before n are put in.
AliasesBefore(n) == {q \in Kinds({"pattern"}) : q[1] < n}
PutIn(n, ms) == ms \union UNION {Mentions(Item(q).pat) : q \in {a \in AliasesBefore(n) : <<Item(a).name, TRUE>> \in ms}}
Reached(n, pat) ==
    LET After[k \in Nat] == IF k = 0 THEN Mentions(pat) ELSE PutIn(n, After[k - 1])
    IN  After[Cardinality(AliasesBefore(n))]
BadArm(n, pat) ==
    \/ \E q \in AliasesBefore(n) : <<Item(q).name, TRUE>> \in Reached(n, pat) /\ <<Item(q).name, TRUE>> \in Reached(n, Item(q).pat)
    \/ \E m \in Reached(n, pat) : ~ (m[2] /\ \E q \in AliasesBefore(n) : Item(q).name = m[1]) /\ Global(m[1]) = {}

\* A use that nothing or too much is bound to.
BadUse(p, l) ==
    LET ln == Body(p)[l]
        types == {Item(q).name : q \in Kinds({"type"})} \union {"Int"} \union Range(Item(p).tparams)
        callees == {q \in Named(Members, ln.name) : q[2] > 0 /\ Binds(q) /\ Item(<<q[1], 0>>).name = Head(ln.of)}
        qualified == {q \in Named({"fn"}, ln.name) : Item(q).sector = Head(ln.of)}
        fromModule == \E k \in DOMAIN ln.of : \E q \in Global(FieldOf(ln, k)) : FileOf(q) = ModuleOf(ln, k)
    IN  CASE ln.form = "use"    -> Meaning(p, l, ln.name) = {}
          [] ln.form = "member" -> ~ fromModule /\ Meaning(p, l, Head(ln.of)) = {}
          [] ln.form = "type"   -> ln.name \notin types
          [] ln.form = "rpc"    -> \/ Named({"sector"}, Head(ln.of)) = {} /\ ~ (Head(ln.of) = "main" /\ HasTopOn)
                                   \/ Cardinality((IF callees = {} THEN Global(ln.name) ELSE callees) \union qualified) # 1
          [] ln.form = "arm"    -> BadArm(p[1], ln.pat)
          [] OTHER              -> FALSE

\* A qualifier is read when its function is collected: the sector comes before,
\* or is the main sector, which is collected first.
BadQualifier(p) ==
    /\ Item(p).kind = "fn" /\ Item(p).sector # None
    /\ ~ (Item(p).sector = "main" /\ (HasMain \/ HasTopOn))
    /\ ~ \E n \in 1..p[1] : <<n, 0>> \in Named({"sector"}, Item(p).sector) /\ ~ IsMain(p[1])

Wrong ==
    \/ Twice(Kinds({"type", "sector", "mixin", "pattern"})) \/ Named({"type"}, "Int") # {}
    \/ Clash
    \/ \E p \in Everywhere : BadQualifier(p) \/ (Item(p).kind = "pattern" /\ HasVar(Item(p).pat))
                             \/ \E l \in DOMAIN Body(p) : BadUse(p, l)

\* A module that comes back to itself, among those that the program reaches.
UsesOf(q) == IF Existing(q) = {} THEN {} ELSE Requested(P.text[P.path[Place(q)]])
ReachedFrom(qs) ==
    LET After[k \in Nat] == IF k = 0 THEN qs ELSE After[k - 1] \union UNION {UsesOf(q) : q \in After[k - 1]}
    IN  After[Cardinality(DOMAIN P.path) + 1]
Cyclic == \E q \in ReachedFrom(Requested(RootItems)) : q \in ReachedFrom(UsesOf(q))

\* A program is rejected exactly when something in it is wrong, and its uses as
\* cyclic only when they are.
RejectsExactly ==
    /\ at = "cyclic use" => Cyclic
    /\ at = "done" => ~ Wrong
    /\ at \notin Passes \union LoadErrors \union {"done"} => Wrong
=============================================================================
