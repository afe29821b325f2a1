# Flavent in TLA+

Flavent is an event-driven language: a program consists of *sectors*, each with
variables, functions and event handlers; handlers emit events, await events and
call functions of their own and of other sectors. The Python package
`src/flavent/` holds the compiler (lexer, parser, resolver with mixins,
lowering, type checker), the interpreter `runtime.py`, the Python adapters
(child processes) and a package manager. This directory models the concurrent
and failing parts of it (event loop, adapters, package manager), the passes of
the compiler against reference definitions of what they have to produce, and
the interpreter they hand their result to. TLC checks the models on small
instances; TLAPS proves the invariants of the scheduler, of the adapters, of the
package manager, of module loading, of the mixins and of the lexer, and that
well typed programs do not go wrong on the scheduler, for all instances.

Paths below are relative to `src/`. Every definition that stands for code is
listed with its lines under `map` in `PROJECT.json`.

## 1. The system

| component | code | state it keeps | operations |
|---|---|---|---|
| event loop | `flavent/runtime.py` (`run_hir_program`, 676-791) | `runnable`, `waiting_by_type`, `events_by_type`, `event_type_heap`, `event_type_in_heap`, `pending_send` of each task | `enqueue_event`, `dispatch_one_event`, `_advance_task`, the `while True` |
| interpreter | `flavent/runtime.py` (up to 675) | per generator: `env`, `env_event_types`; for all: `sector_state`; heap of dicts | `exec_stmt_gen`, `eval_expr_gen`, `call_fn_gen`, `match_pattern`, `_infer_event_type_id` |
| bridge | `flavent/runtime.py`, `flavent/bridge_audit.py` | none | console, file and process I/O on behalf of the standard library |
| adapter process | `flavent/pyadapter.py` | `_proc`, `_next_id`, `_pending`, one queue per call, a reader thread per child | `start`, `call`, `close`, `_read_loop` |
| adapter host | `flavent/pyadapter_host.py` | the request in work | one request line in, one answer line out |
| adapter manager | `flavent/pyadapter.py` | cache of processes, capability tables | `load_python_adapters`, `PythonAdapterManager.call` |
| package manager | `flavent/flm.py` | `flm.json`, `.flavent/git/`, `vendor/`, `flm.lock.json` | `init_project`, `add_dependency`, `install`, `export`, `list` |
| mixins and hooks | `flavent/resolve.py` (101-1433) | mixin order, hook specs, hook plan | `_apply_mixins`, `_resolve_specs`, `topo_sort` |
| module loading | `flavent/resolve.py` (55-94, 1436-1571) | stack and visited set of one expansion, caches of parsed standard modules for the life of the process | `_expand_uses`, `_load_module_any`, `_load_stdlib_prelude` |
| name resolution | `flavent/resolve.py` (1573-2250), `symbols.py` | symbols, scopes, pattern aliases, references | `_collect_decls`, `_resolve_uses` |
| lexer | `flavent/lexer.py`, `token.py`, `span.py` | position, indentation stack, bracket depth, what the line began and ends with | `lex`, `handle_line_start` |
| parser | `flavent/parser.py`, `ast.py` | cursor | `parse_program` and the recursive descent below it |
| lowering | `flavent/lower.py`, `hir.py` | fresh symbols, statements hoisted so far | `lower_resolved`, one function per node |
| type checker | `flavent/typecheck.py` | `meta_bindings`, `meta_record_fields`, `env`, `global_env`, `next_meta` | `check_program`, inference, unification, effects, bridge policy |
| command line, test runner, scripts | `flavent/cli.py`, `flavent/reporting.py`, `flvtest/`, `scripts/` | none beyond files | drive the passes, format reports |
| standard library | `stdlib/` | none | Flavent source |

How they interact. The command line runs lexer, parser, module loading, mixins,
name resolution, lowering and type checker in turn and hands the HIR to
`run_hir_program`. Module loading calls lexer and parser for each file it finds;
its caches outlive one compilation, which matters where one process compiles
several files (the test runner). The interpreter's generators talk to the event
loop only by what they yield: `("emit", type, value)` and `("await", type)`; the
loop answers an await by sending the event into the generator. A bridge call to
a Python adapter goes through the manager to an `AdapterProcess`, which writes a
line to its child and waits on a queue that the reader thread fills. The package
manager only shares files with the compiler (`vendor/`, `flm.json`).

What is hard, and what makes each part correct:

- **Event loop.** Waiters and events of a type meet in two places; the heap of
  types is cleaned lazily; answers are parked in `pending_send`. Correct means:
  no task lost or resumed twice, no task asleep while its event is queued, no
  event overlooked, answers of the awaited type, handlers of one event in
  program order, smaller types first, a turn for everyone who is runnable.
- **Interpreter.** Several activations of one function can be suspended at
  once; functions run with the sector of callee or caller; event types are
  found at run time; records are shared by reference. Correct means: each
  result reaches its own caller, variables are found where the body's sector
  keeps them, the run-time type of an emitted event is its static type, sectors
  do not touch each other's state.
- **Adapters.** `start()` is not locked, answers come late, children die or do
  not read, `close()` races calls, the reader serves every thread. Correct means:
  a call gets the answer to its own request, the reader never blocks, every call
  ends whatever becomes of its answer.
- **Package manager.** Any step may fail or be killed; old clones and links
  remain. Correct means: the lock that is written describes what is installed,
  links do not dangle. That the trees behind them are whole cannot be had: the
  code does not look (section 5).
- **Mixins.** Three nested decisions (which mixin first, which hook of one id,
  which order) each with its own worklist. Correct means: the result is what
  the declared options ask for, errors come exactly when they should, the
  worklists end.
- **Module loading.** A depth-first walk whose visited set is shared by all
  roots, over files that change between compilations, with a cache that
  survives them. Correct means: every module once, behind those it uses; a file
  of the project is compiled as it is on the disk now.
- **Name resolution.** Declarations are collected in one order and resolved in
  another; a name may be local, of the sector, global, or of a module. Correct
  means: each use refers to what the scoping rules say, and exactly the
  ill-formed programs are rejected.
- **Lexer.** Five flags that interact: a bracket switches layout off, a comment
  line must not count, the colon at the end of a line decides about the next.
  Correct means: INDENT and DEDENT mirror the layout, every character is part of
  a token, of a whole comment or blank.
- **Parser.** Mutually recursive functions that decide by a token or two of
  lookahead and fall back by resetting the cursor. Correct means: what the grammar
  can write is read back as it was, and nothing that is accepted had a token
  dropped, but in four places that are known.
- **Lowering.** `?`, `|>` and blocks in expressions become statements in front
  of the statement, which must not change what happens or in which order.
- **Type checker.** Metas are bound by side effect, blocks copy environments but
  share bindings, effects join across calls. Correct means: what is accepted
  does not go wrong, and effects are what the program may do.

`hazards` in `PROJECT.json` lists the places in the code where these can go
wrong, and the properties that watch them.

## 2. Modules

### EventBus, EventLoop, EventLoopRefinement

`EventLoop` is the loop of `run_hir_program` for *arbitrary* handlers: what a
handler does is a nondeterministic choice of its next yield. One step is one
iteration of the loop.

| TLA+ | code |
|---|---|
| `runnable`, `waiting`, `queue` | deques `runnable`, `waiting_by_type`, `events_by_type` |
| `heap[t]`, `inHeap` | number of entries of `t` in `event_type_heap`; `event_type_in_heap` |
| `handlerOf`, `binding` | the handler a `_Task` runs, and the event bound to its binder |
| `pendingSend`, `awaited` | `_Task.pending_send`; what its generator is suspended on |
| `started` | the tasks whose generator has been entered (generator objects know this) |
| `Dispatch`, `Return` | `dispatch_one_event` finding an event or none |
| `EmitToWaiter`, `EmitToQueue` | an `emit` yield with the two branches of `enqueue_event` |
| `AwaitQueued`, `AwaitSuspend` | the two branches of an `await` yield |
| `Finish`, `Stop`, `Abort` | StopIteration, StopProgram, any other exception |

A handler may yield anything in `EventLoop`, more than a particular program
does, so its safety properties hold for every program.

`EventBus` says what the loop promises without deque order, heap or lazy
deletion: a set of ready tasks, mailboxes, parked tasks; when nobody is ready
the oldest event of the smallest type is broadcast; the run ends only when there
is no mail. `EventLoopRefinement` maps the loop to it (`ready <- Range(runnable)`
and so on), and `ImplementsEventBus` is its specification.

### SectorProgram, SectorTyping

`SectorProgram` EXTENDS `EventLoop` with the interpreter: `frames[i]` are the
activations of task `i`, each with the rest of its code, its `env`, its
`env_event_types`, its current sector and, for the matches it is inside of, what
their binders were before (`saved`, the `prev` of `_restore_env`); `store` is `sector_state`, `field`
holds the records (Python dicts) that values refer to. `turn` is the task whose
generator runs. Statements are steps of their own; the step that yields conjoins
the action of `EventLoop` for that yield (`EmitStmt`, `AwaitExpr`, `HandlerEnd`,
`StopStmt`, `AbortHandlerStmt`, `Raise`), and all others leave the loop's
variables alone. Its runs therefore execute concrete programs on the same
scheduler.

Simplifications: a program has one operation per statement (a nested expression
is the sequence of its parts, in evaluation order); only programs the type
checker accepts are written; a record has one field; a constructor's payload is
left out; which free identity a new task gets does not matter and is the
smallest. Lists are only what `for` iterates over.

`SectorTyping` says which programs these are: `WellTyped` is what the type
checker and the resolver leave, a type for each local (`Local`), each sector
variable and each result, and every statement accepted. It is needed for the
proofs, and TLC evaluates it on each program of the run. A *point* of a body is
the rest of its code together with the variables bound there and the number of
matches around it; `After` is the control flow, and `WellTyped` asks that the
points of a body contain its beginning, are closed under `After` and are all
accepted. So it is stated without recursion over statements. Two rules are
stricter than the checker's, which is too generous there: `typecheck.py:628`
gives the binder of a `for` a type nobody knows, and `_check_fn` does not notice
a path on which a function of another result type ends without `return` (and
yields Python's `None`).

### AdapterProcess

Threads (`Callers`) that call and close, the children with their two pipes, the
reader threads, crashes, stray output on the protocol's pipe, timeouts. An
action is a critical section of `_lock` or a stretch of code that touches shared
state once; `at[c]` is where a thread stands between them. `Begin`/`Spawn` show
that `start()` looks at `_proc` without the lock; `GetEmpty`/`Expire`/`WaitAgain`
are the round of `q.get` with its `finally`, which unregisters the request on
every round; `CloseChild`/`CloseClear` are `close()`. Reader `g` reads the pipe
of `source[g]`, the process that `_proc` named when it started.

The pipe to a child holds `PipeSize` requests, and a write to a full one waits
(`at[c] = "blocked"`, `WriteOn`) until the child reads or dies; meanwhile the
lock of the buffered file keeps every other write, flush and `close()` of that
stdin waiting (`Blocked`). `Write` and `Flush` look `_proc` up separately, as the
two statements do, so that `close()` or a restart may come between them. That the
line goes to the pipe with the write and not with the flush is a simplification:
a line in the buffer that is lost looks like one the child dropped.

The interpreter itself calls adapters from one thread; the class has a lock and
a reader thread and is modelled for the several threads it is built for. The
pipe from a child has room for all its lines: the reader takes them as they
come. The pipe of its stderr, which nobody reads, is not modelled apart: a child
that waits for room in it is one that neither reads nor answers.

### FlmProject

The files of a project (`manifest`, `cache`, `vendor`, `lock`), the remotes and
the path sources, which change on their own (`Push`, `MoveSource`), the user
(`Edit`, `FreshCheckout`), and `install` as the sequence of its effects on the
disk. `Fail` stands for an exception or a kill between any two of them. A commit
is a pair of url and number; file contents other than specs are left out. `Torn`
is a file that `write_text` has truncated, or a clone without a commit. A clone that
was cut short while its files were written (`CloneCut`), or a checkout that was
(`CheckoutCut`), has a HEAD and is not `whole`: `git rev-parse` succeeds, and the
next install links it. A directory without `.git` is not modelled: git creates
both before anything that may take long, and between the two `rev-parse` would
answer for the repository around the project, if there is one.

### MixinWeaving

`_apply_mixins` for one function `foo`: `PopMixin`/`OrderDone` are `topo_sort`,
`ChooseAdd` chooses an added function, `Collect` collects arounds and hooks with
their default ids, `SelectGroup`, `DropMissing`, `BuildGraph`, `PopReady`,
`StackDone` are `_resolve_specs` point by point, `Weave` wraps the function.
Two orders look alike in the code and are kept apart here: `Precedes` (priority,
then place among the collected specs) chooses among the specs of one id, `Sooner`
(priority, then place of the id in `selected`) sorts the ready list. An
error is `at = "error"` with its reason in `why`, and `FailsExactlyWhen` gives for
each reason a condition on the program and the collected specs that it implies
and, once the code is past the place, is implied by. Ids and dependencies are
those of one *point* of a function (head, tail, invoke), as in the code; the
documentation speaks of a target, which is a finding. Signature checks of hooks, the
rewriting of bodies and fields or patterns added to types are not modelled; nor
is a mixin that adds a function which exists already.

### Lexer

`lex()`: one step is one iteration of its main loop, and `handle_line_start` a
step of its own (`LineStart`). The branches of the loop are the actions, in the
order in which the code tries them: `Blank`, `Comment`, `NewLine`, `Word`,
`Number`, `String`, `Operator`, `Unexpected`, `EndOfFile`.

| TLA+ | code |
|---|---|
| `i`, `indents`, `depth` | `st.i`, `indent_stack`, `bracket_depth` |
| `atLineStart`, `expectsIndent`, `endsWithColon` | the three flags of the same meaning |
| `toks` | `tokens`, each with its kind and the positions it was read from |
| `at` | `"lexing"`, `"done"`, or the error that was raised |

The characters are single-character strings; letters and digits are represented
by a few of each, with what tells them apart in the code (hexadecimal digits,
the prefixes `0x`, `0b`, `0o`, the start of a keyword). Operators and punctuation
are all there (`Twos`, `Ones`), with their full-width forms (`FullWidth`). A source is a sequence of
lines of lexemes (`lines`), spelled out into `src`; behind its end `Peek` returns
`"end"` (the code returns the empty string). The lexer sees `src` only. Its inner
loops over block comments, the comments before a line and string literals are
the recursive functions `BlockScan`, `CommentsScan` and `StringScan`.
`LayoutAsSpecified` says from `lines` what the tokens must be: it joins lines
inside brackets, drops blank ones and nests the rest by their indentation,
without a stack of the lexer's kind. `TokensCoverSource` and `LongestMatch` say
what the tokens are in terms of the characters: `Escaped` counts the backslashes
in front of a quote, which the code never does, and between two tokens there are
blanks and *whole* comments only (`Filler`): a line comment goes to the end of
its line, and a block comment ends where what lies between its ends is filler
again, so that nothing of the code behind a comment can get lost with it. The
last token ends where the source does.

### Grammar, Parser

`Parser` takes one top-level item a step (`Separator`, `ParseItem`, `ParseRun`,
`End` are the branches of `parse_program`). The descent below is a family of
operators that take a position and return `[n, i]`, the tree and the position
behind it, as the functions of `parser.py` do with their cursor. Position 0 is a
raised ParseError; there is no token at it, so every operator hands it on.

`Grammar` is the other direction: `docs/grammar_ebnf.md` written as functions
from trees to tokens, with parentheses only where the table of precedences asks
for them. `RoundTrip` is `Parser` read against `Grammar`; `NothingIgnored` uses
it on whatever token sequences the parser accepts: written down again, the tree
has the words of `Taken`, the tokens without those the parser takes for nothing.
These are stated from the tokens alone and are findings but for the last two:
attributes of a need other than `cache` and `cacheFail` and all but the last of
a name (`WhatCounts`); hook options whose name comes again; all but the last
suffix of the target of an assignment (`LostSuffixes`); `type` in `into type T`;
an empty `with()`.

### ModuleLoader, NameResolution

`ModuleLoader` is `_expand_uses`: one step is one call of `visit_module`
(`VisitKnown`, `VisitCycle`, `VisitMissing`, `VisitBridge`, `Enter`) or the
return from one (`Leave`). `frames` are the active calls, `visited` and `order`
the visited set and the order in which modules were appended to `out_items`,
`got` the `cache` of the expansion with the edition of each file that was read,
`std` the two caches of the process. `Edit` changes a file, `Recompile` starts
the next compilation of the same process; files have an edition instead of a
text that changes. `LaterPass` is what the later passes look like from here; it
is a step of `LoaderSpec` only, the specification that is proved about.

`NameResolution` EXTENDS it and goes on with the expanded program: collecting
takes one declaration a step (`CollectType`, `CollectNamed`, `CollectValue`,
`CollectHandler`, ...), resolving takes one use, binder or block of a body a
step (`ResolveName`, `ResolveMember`, `Bind`, `OpenScope`, ...). A body is the
sequence of its uses, binders and blocks with their depth, in the order in which
`_resolve_block` and `_resolve_expr` reach them, and a pattern is the sequence of
its constructors, binders and wildcards in the order in which `_resolve_pattern`
does. A chain `a.b.c` is one line: the longest part of it that names a value of a
standard module is looked for first (`Modules`), and if there is none the name
that it begins with is resolved. What the recursion of the code keeps on Python's stack is in variables:
`agenda` is the set of declarations that are still to come (the first of them is
`Here`), `place` the declaration whose body is resolved, `line` the next line of
it, `nodes` what is left of the pattern of the line before, `seen` the aliases
that led to its next node. `MatchWild`, `MatchVar`, `MatchCtor` and `MatchAlias`
are one call of `_resolve_pattern` each; `TooDeep` is Python's RecursionError.
`ParsedAssumption` says what `parse_program` returns: bodies that get deeper
behind an opening line only, patterns that are not empty, sectors that hold
`let`, `need`, `fn` and `on`. Against this stands `Meaning`:
scoping as a reader sees it, from the indentation and the declarations, without
scopes or symbols; `Wrong` says in the same way which programs are ill-formed, and
`Cyclic` whether a module comes back to itself.

### Evaluation, Lowering, TypeCheck, CompiledProgram

`Evaluation` is the interpreter as functions on a state (`env`, `vars` of the
sectors, the `log` of calls, emits and bridge calls, `st` for how the evaluation
left, `v` for the value). `Primitives` are the functions of `_bridge_python.flv`
outside of its sector, which a call evaluates on the spot (`Primitive`); `strLen`
stands for them. `+` and `<` take two numbers or two strings. It also gives the
sugar its meaning (`?`, `|>`, match arms that are blocks), which the interpreter
itself never sees: this is the reference that lowering is compared with. Where an evaluation suspends is left
to `EventLoop` and `SectorProgram`; here an emit is only logged.

`Lowering` is `lower.py`: an expression becomes `(pre, e, k, bad)`, the
statements to run before it, what is left of it, the next fresh symbol and
whether LowerError was raised. One declaration is lowered a step, in the order
of `lower_resolved`.

`TypeCheck` is `typecheck.py`: the bridge policy over the functions and handlers
(`NamesBridge`: `rpc` and `call` into the bridge, and any use of a primitive's
name), then
the declarations in the order of `check_program`, one a step. A state (`k`,
`bind`, `fields`, `env`, `genv`, `t`, `eff`, `err`) goes through the inference
functions as the context does in the code. Its ghost `open` is set where the
checker gives an expression a type it does not know: a member of a value that
is no record, `not`, `+` or `<` on types that have none, a record literal
without expected type, a type parameter that is instantiated, the binder of a
`for`, a variable of unknown type, an arm that leaves no value. Several findings are
about these places; `AcceptedRunsRight` speaks of the programs in
which none occurs.

`CompiledProgram` runs each tested function on arguments of its types, once as
written and once as compiled. The order of evaluation is only promised where
lowering moves nothing over an operand that can notice (`HoistSafe`; the
exception is a finding). The sector variables begin with what their initialisers
give (`Initialised`), which the policy never asks: `EffectsAsDeclared` is about
functions and handlers, and `InitialisersReachNoBridge` is false. The interpreter
evaluates initialisers before its own functions for calls and patterns exist, so one
that calls or matches ends the run; such a program has no `Outcomes`, and
`AcceptedStarts` is false.

Left out of these four: constants, top-level variables and needs (the
interpreter never evaluates them, a finding), await (a statement to the loop,
see `SectorProgram`), keyword and variadic arguments, indexing, tuples, bytes,
assignment to members, conditions of handlers, functions that end without
return, records shared by reference, sum types of one constructor.

The models of the passes were compared with the code they model: the real
compiler's verdict on each of the roughly 12,000 programs of `MCCompiledProgram`
is that of `TypeCheck`. The nearly 1,200 that are accepted come to 2,122 runs on
arguments, which gave the same result, variables, calls, bridge calls and events in
the real interpreter as in `Evaluation`, except 12 that add or order two sum
values: Python does both to the tuples they are, and `Binary` calls it wrong.

### Operators marked "fault"

Some modules hold a second version of a small operator next to the real one,
commented `fault` or `Mutant of`. No action uses them: they are the plausible
bugs listed under `mutants`, and each property of a passing run is violated when
its fault replaces the real operator. This shows that the property depends on
the code it is about.

## 3. Model checking

| run | instance | states | asks |
|---|---|---|---|
| `event_loop` | 3 types with 2, 1 and 0 handlers; 4 tasks, 2 suspended; 2 events per queue | 513,000 | `TypeOK`, `WaiterXorEvent`, `HeapCoversQueues`, `OnePlace`, `AnswerMatchesAwait`, `HandlersStartInOrder`, `SmallestTypeFirst` |
| `event_bus` | 2 types, one handler each, 2 payloads | 23,000 | `ImplementsEventBus`, `RunnableGetsTurn` |
| `orphan_event` | as `event_loop` | (violation) | `DispatchMakesRunnable`, a comment of the code that it does not keep |
| `sector_program` | 2,860 programs of two sectors | 47,000 | `ProgramTypeOK`, `VariablesBound`, `EmitKeepsType`, `EchoReturnsArgument` |
| `adapter` | 2 threads, 2 requests, 2 children, 1 stray line, a pipe of one line | 2,870,000 | `TypeOK`, `OwnAnswer`, `ReaderNeverBlocks`, `PendingMatchesCalls` |
| `adapter_live` | 2 threads, 2 requests, 1 child | 181,000 | `CallEnds` |
| `flm_install` | a git and a path dependency, 2 repositories of 2 commits | 1,247,000 | `TypeOK`, `NoDanglingLink`, `LockDescribesVendor` |
| `mixins` | 14,784 programs of up to three mixins | 219,000 | `PreferredFirst`, `LargestClosedSet`, `StackOrder`, `FailsExactlyWhen`, `EffectsFollowStack`, `HooksAccountedFor`, `Terminates` |
| `lexer` | layouts of up to five lines, lines of up to six characters | 219,000 | `LayoutAsSpecified`, `TokensCoverSource`, `LongestMatch` |
| `parser` | every form in every place, nested two deep; 4-token mutilations | 64,000 | `RoundTrip`, `NothingIgnored` |
| `names` | use graphs of three modules; bodies of up to four lines; declarations in threes | 179,000 | `ModulesInOrder`, `ReadAfresh`, `BindsAsScoped`, `RejectsExactly` |
| `middle` | 12,000 programs of five families | 85,000 | `MeaningPreserved`, `AcceptedRunsRight`, `EffectsAsDeclared` |

Why the bounds are enough:

- *Event loop.* A stale heap entry needs two types, an order among dispatches
  three; `HandlersStartInOrder` needs two handlers of one event, and a waiter
  resumed between them a third task; two events in a queue tell FIFO from LIFO
  and "one taken" from "emptied". `MaxQueue` and `MaxWaiting` are guards; the
  proofs do not depend on their values. Task identities are reused after a task
  ends, so runs are unbounded although there are four.
- *Event bus.* Two payloads distinguish events of one type, which the first run
  leaves out to stay small.
- *Programs of sectors.* All pairs of 13 bodies for the first and 11 for the
  second handler of the entry event, four for the handler of the second type and
  five functions that suspend in different ways. Loops in them are bounded, so
  the instances are finite by themselves; `MaxQueue`, `MaxWaiting`, `MaxRecords`
  and the number of tasks are never reached (a step they prevented would show as
  a deadlock).
- *Adapter.* Two ids are needed for a late answer to meet a younger call, two
  children for a restart with the first child's answers under way, two threads
  for the race in `start()`. With room for one request in the pipe (`PipeSize`) the
  second write of two threads meets a full one. `MaxCalls` also bounds the answers
  in a pipe.
- *Package manager.* Two repositories for a changed url, two commits for a remote
  that moves on, a second dependency so that an install can stop half way.
- *Mixins.* Three hooks make chains and cycles of dependencies, two rivals of an
  id and one dependent; three uses of three mixins cover every set of prefer
  rules, cycles and repeated uses. The families of programs are in
  `MCMixinWeaving`.
- *Lexer.* Layout has a memory of one line (the flags) and a stack; two enclosing
  headers and three further lines over three indentations reach every comparison
  of a line with the stack, also across brackets and comment lines. Words,
  operators, numbers and strings are decided by at most four characters of
  lookahead or by the class of the next one; every pair of punctuation characters
  occurs, full-width ones included, and comments nested up to what five
  characters between their ends allow.
- *Parser.* What a function does depends on the token in front of it and on the
  form it is called from: each form stands in each place once (`Wrap`), binary
  operators three deep on either side, statements in pairs because the end of one
  decides where the next begins. `MCInputs` are all sequences of four tokens from
  the middle of a statement, a block and a type, and `Special` the lists of
  attributes and options with every key again, targets of up to three suffixes
  and the fields a mixin adds.
- *Modules and names.* Three modules make every cycle, diamond and self-use. Two
  compilations are enough for a stale cache. A local name needs a binder, a use
  and a block that opens or closes between them; names outside have four places
  (own sector, program, module, standard module), alone and together. Members go
  up to `a.b.c.d` over two standard modules of which one is `m` and one `m.n`, with
  the second used and not used (`Chained`). Chains of
  two aliases make every alias cycle; `RecursionLimit` stands for Python's.
- *Compiled programs.* Sugar: an operand that fails or acts, in each position,
  twice. Types: every expression of depth two against every pair of parameter and
  result type. Effects: every use of a function or variable from a function of no
  sector, of each of two sectors, of the standard library and from a handler. A
  primitive is called and named, in every surrounding (`Around`) and in
  initialisers.
  About 1,190 of the programs are accepted.

Symmetry is used in `event_loop` (tasks) and `adapter` (threads, requests), in
runs without liveness properties. Deadlock is checked except where the system
may really stop: idle adapter threads once the bounds on calls and children are
used up, and the passes of the compiler, which end. `EventLoop` and
`SectorProgram` stutter explicitly once the run has ended (`Ended`, `Halted`).

Fairness:

- `EventLoop`: `WF(Iterate)`. The loop is one Python thread that never blocks;
  as long as the run goes on it takes the next iteration. Which yield comes next
  is the program's choice, and nothing is assumed about it.
- `AdapterProcess`: `WF` of the steps of a thread that is inside `call()` or
  `close()`, of each as far as it can go: `q.get` has a timeout, the lock is held
  for a few statements, and a write is enabled only while the pipe has room or
  the child is dead. A child that lives and does not read disables it, and nothing
  is assumed of the child (or of the reader), so `CallEnds` excuses a thread that
  from some time on waits for such a child (`Stuck`) and no other; that it may
  wait there for ever is a finding. `SF` of `Expire`, because the deadline is fixed
  and the wall clock passes it in the end even if it was set back before.
- `MixinWeaving`: `WF(Next)`: a computation that nothing interrupts.

Seven statements are definitions of the modules that no run
asserts, because they do not hold; all but `AcceptedStarts` are made by the
documentation or a comment. TLC shows a counterexample when they are
added: `EmitAccepted` as an INVARIANT of `MCSectorProgram.cfg`;
`DependenciesWoven` as an INVARIANT of `MCMixinWeaving.cfg`; `LinkedTreesWhole` as
an INVARIANT and `Reproducible` as a PROPERTY of `MCFlmProject.cfg`;
`InitialisersReachNoBridge` and `AcceptedStarts` as INVARIANTs of
`MCCompiledProgram.cfg`;
`SectorsIsolated` as a PROPERTY of `MCSectorProgram.cfg` once `"shared"` is added to
`SecondBodies`.

## 4. Proofs

All for arbitrary values of the constants.

| module | theorem | states |
|---|---|---|
| `EventLoopProofs` | `TypeCorrect` | `Spec => []TypeOK` |
| | `NeverWaiterAndEvent` | `Spec => []WaiterXorEvent` |
| | `HeapNeverMissesAnEvent` | `Spec => []HeapCoversQueues` |
| | `ReturnsOnlyWhenDelivered` | when the run has returned, no event is queued |
| | `EveryTaskInOnePlace` | `Spec => []OnePlace` |
| | `AnswersMatch` | `Spec => []AnswerMatchesAwait` |
| | `BroadcastInOrder` | `Spec => SmallestTypeFirst` |
| | `HandlersBeginInOrder` | `Spec => []HandlersStartInOrder` |
| | `LoopImplementsBus` | `Spec => ImplementsEventBus` |
| `SectorProgramProofs` | `ProgramsRunOnLoop` | `ProgramSpec => Spec` (of `EventLoop`) |
| | `ProgramsUseBus` | `ProgramSpec => ImplementsEventBus` |
| | `ProgramTypeCorrect` | `ProgramSpec => []ProgramTypeOK` |
| | `EmitsKeepTheirType` | `ProgramSpec => []EmitKeepsType` |
| | `ReadsAreBound` | `ProgramSpec => []VariablesBound` |
| | `ResultsReachTheirCallers` | `ProgramSpec => EchoReturnsArgument` |
| `LexerProofs` | `SourceCovered` | `Spec => []TokensCoverSource` |
| | `NeverSplit` | `Spec => []LongestMatch` |
| | `BlocksNest` | `Spec => []LayoutBalanced`: INDENT and DEDENT nest, all closed at the end |
| `FlmProjectProofs` | `ProjectTypeOK`, `LinksLeadToClones` | `[]TypeOK`, `[]NoDanglingLink` |
| | `LockIsTrue` | `Spec => LockDescribesVendor` |
| `AdapterProcessProofs` | `AdapterTypeOK`, `OwnAnswerReturned`, `RegistrationsMatch` | `[]TypeOK`, `[]OwnAnswer`, `[]PendingMatchesCalls` |
| | `ReaderIsNeverStuck` | `Spec => []ReaderNeverBlocks` |
| `ModuleLoaderProofs` | `ExpandsInOrder`, `ReadsAfresh` | `LoaderSpec => []ModulesInOrder`, `LoaderSpec => []ReadAfresh` |
| | `ItemsFromFiles` | the program consists of items of the project's files |
| `NameResolutionProofs` | `FrontEndIsLoader` | `Spec => LoaderSpec` |
| | `LoadedInOrder` | `Spec => [](ModulesInOrder /\ ReadAfresh)` |
| | `UsesAsScoped` | `Spec => []BindsAsScoped` |
| | `NameInvariant` | the inductive invariant behind it, `Spec => []NameInv` |
| `MixinWeavingProofs` | `PreferredComesFirst` | `Spec => []PreferredFirst` |
| | `DropsToLargestClosedSet` | `Spec => []LargestClosedSet` |
| | `StackIsOrdered` | `Spec => []StackOrder` |
| | `FailsForItsReason` | `Spec => []FailsExactlyWhen` |
| | `EveryHookAccountedFor` | `Spec => []HooksAccountedFor` |
| | `EffectsInOrder` | `Spec => []EffectsFollowStack` |
| | `MixinWeavingCorrect` | the inductive invariant behind these, `Spec => []MixinInv` |

Assumptions, named in the modules that declare the constants and evaluated by
TLC in every run. `EventLoop`: type ids are naturals, the entry event has a type
and a payload, handlers of a type form a sequence and no handler is `None`, the
set of task identities is finite and large enough for the handlers of one event
beside the suspended tasks. `SectorProgram` and `SectorTyping`: the programs are
`WellTyped` (`ProgramsAssumption`), constructors belong to event types, task
identities are numbers, the entry event is a value no variable of a program
holds, and the functions in `echoes` are some that never assign their parameter
and return it, called with a local variable (`EchoesAssumption`, which only says
what `echoes` means; it may be empty). Nothing is assumed of the
number of programs, sectors, bodies, calls or records. `Lexer`: a source is a sequence of characters, and
the mark for its end is none of them; nothing is assumed of the keywords, of how
lexemes are spelled or of how long a source is. `FlmProject`: `None` and `Torn` are no specs, commits
or clones. `AdapterProcess`: the set of threads is finite, `None` is no request
or thread. `ModuleLoader`: the main file, the prelude and every path of a project
lead to a file that has items, items and roots are sequences, and a module that
is used has a name. `NameResolution`: what a file holds is what the parser returns
(`ParsedAssumption`, see section 2), and the depth at which Python gives up is a
natural. Nothing is assumed of names: any may be declared any number of times in
any files, sectors and blocks. `MixinWeaving`: mixins are numbered by naturals and finitely
many, every item of a program is an added function, an around or a hook, no mixin
is preferred over itself, written ids differ from default ones, and `None` is
neither an id nor an error. Nothing is assumed of the number of uses and hooks,
of priorities (any integers), conflict policies, dependencies or locators.

The arguments.

*Heap.* `TypeOK` is inductive by itself. `WaiterXorEvent` is inductive relative
to it: only `EmitToQueue` lets a queue grow and it requires no waiter; only
`AwaitSuspend` adds a waiter and it requires an empty queue. `HeapCoversQueues`
is inductive once the number of heap entries is part of it: knowing only that
every queued type is in the heap would not survive a step, because an await that
removes *one* entry must know that there was only one, and an emit that does not
push must know that `inHeap` tells the truth. `ReturnsOnlyWhenDelivered` follows:
`Return` sees that no type in the heap has an event.

*Tasks.* `OnePlace` (every live task is in exactly one deque, once) is inductive
relative to `TypeOK`; an event in a queue has the queue's type (`QueueTyped`, an
invariant of its own); with both, what is parked in `pendingSend` is an event of
the type its task awaits, and a step that empties a queue either answers a task
or dispatches. That the dispatched type is the smallest queued one needs
`HeapCoversQueues`, since `Dispatch` looks at the heap only.

*Order of handlers.* The tasks of one dispatch that have not begun are a stretch
of `runnable` in program order, with nobody behind them who has begun
before them. What makes this inductive is that the invariant names the type and
the length of the stretch, and that a task's identity is in `started` only while
it lives (`StartedLive`): identities are reused, and a reused one that counted as
begun would break the stretch.

*Refinement.* Under the mapping every step of the loop is a step of the bus or a
stutter. The heap disappears because of `HeapCoversQueues` (dispatch and return
see the right types), the deques because of `OnePlace` (removing a head from a
deque is removing an element from a set). The fairness of the bus is not part of
the theorem.

*Programs.* `ProgramInv` is type soundness in the form of an invariant. It has
five parts: the invariants of the loop (`LoopInv`); `TurnOK`, a generator runs
only while its task is the head of `runnable`; `StacksTyped`, every activation is
at a point of its body with at least that point's variables bound, its `env`, what
it saved and its `env_event_types` agree with `Local`, the activation below one
waits at a call of it, and a suspended task is at the await it is suspended on;
`StoreTyped`, the same for sector variables and records; `EventsTyped`, what is
queued or parked is an event of its type. The parts need each other: an answer
has the type of the variable it is assigned to because the task is at an await
of the type it `awaited` (`AnswersMatch` of the loop) and the event parked for it
is of that type, which holds because it was queued under the type
`_infer_event_type_id` found, which is the static one because `env_event_types`
is never wrong. It is never wrong although assignments and patterns do not
update it: a variable that has an entry keeps its static type. A result has the
type of its caller's variable because stacks are well formed wherever the tasks
are suspended between. Each action has a lemma; those that yield also prove that
they are a step of the loop, and all others leave it alone, which gives
`ProgramsRunOnLoop` and with it every theorem about the loop.
`ResultsReachTheirCallers` needs that, all the time an activation of such a
function exists, its parameter is what its caller still holds (`EchoInv`); the
caller cannot change it, for it stands at the call.

*Package manager.* The inductive invariant `IInv` is `TypeOK`, `NoDanglingLink`,
`CurOK` (how far the dependency in work has come, git's own steps included), `DoneOK` (the finished ones
are linked to clones checked out at the commit that is going to be locked) and
`RestOK` (what the remaining ones may find on the disk). `LockDescribesVendor` is
what `DoneOK` says at the step that writes the lock. `NoDanglingLink` promises a
clone with a commit, and no more: that its files are all there is not true.

*Adapters.* `CallInv` is `TypeOK`, `CountOK` (ids that were given out), `CallOK`
(where a thread stands and what it holds), `PendingMatchesCalls`, `FlightOK` and
`ReturnOK`. A registration is left behind only by a write that raised, which
`PendingMatchesCalls` says. `FlightOK` is the heart: a line under way, in a pipe, in the reader's
hands or in a queue, that carries a well-formed answer with id *n* carries the
answer to the request that had id *n*. It is stated without naming a child, so
crashes and restarts do not disturb it. `ReaderNeverBlocks` needs more: each id
is at one place on its way (`OnceOK`), since two answers to one id would block
the reader on a queue of one place.

*Module loading.* `LoadInv` describes the recursion of `visit_module` by its
stack: the frames are distinct modules that are not visited (`FramesAt`), a call
has walked past visited modules only (`WalkedAt`), every call but the last waits
at a use of the one above it (`WaitingAt`), what was read is visited or on the
stack (`GotAt`), the modules appended so far stand behind what they use
(`OrderAt`) and each was asked for by the program, by a later module or by a call
that is still open (`ReasonAt`). The last part is what makes it inductive: when a
module is left, whoever asked for it is on the stack, and when that one is left
in turn it stands behind it. No bound on the depth, the number of modules or the
shape of the graph enters; cycles end in `VisitCycle`. `ReadsAfresh` adds that
editions only grow and that the cache of the process is asked for modules of
`stdlib/` only. Both are theorems of `LoaderSpec`, in which `LaterPass` stands
for the steps of `NameResolution`; `FrontEndIsLoader` shows that these are steps
of it, so both hold of the whole front end (`LoadedInOrder`).

*Names.* The difficulty is that the code and `Meaning` have nothing in common: one
has scopes that are opened, filled and closed by a walk, the other has the text.
`NameInv` says at each point of the walk what the tables are in terms of the text.
`Collection` is about the tables: with `rest` the declarations that are still to
come, the global scope has for each name exactly one symbol for each declaration
of it not in `rest` (`GlobalsOK`; a constructor whose name was taken is left out,
which is why `Global` depends on the order and the invariant on `AgendaOK`, the
order of the agenda), each sector has a name of its own (`SectorsOK`) and the scope
of a sector has one symbol for each name of a member (`MembersOK`). `ScopesOK` is
about the walk: there are as many scopes as blocks are open at the line
(`DepthAt`), and the scope at depth *k* has, for each name, a symbol of a line
that binds it in the block open at *k*, and one for every such name but those a
pattern is still going to bind (`KnownAt`, `pending`); no name is in it twice.
Closing a block is the step that needs the text to be what the parser returns:
the lines that were known at the depths that stay are known still, and no line
of a block that is closed is. From these two `NameMeans` follows: the innermost
scope with the name is that of the innermost binding line, and, where there is
none, the members of the sector and the globals, of which the one of the same file
is chosen, are those `Meaning` picks. `RefsOK` remembers this for the uses that
are resolved, and `ReferredOK` that none was passed by. Only `ItemsFromFiles`
connects this with the loader: the text that is walked over is that of the files.
An alias binds nothing (`AliasesOK`), so putting it into a pattern changes neither
the scopes nor what is pending, however often and deep it is put in.

*Mixins.* `MixinInv` has five parts, in the order in which the code works.
`OrderInv`: the queue and the placed mixins are places of `uses`, each at most
once (a bijection `f` says which), a mixin's count is the number of uses not
placed that are preferred over it, and whoever is in the queue has count zero.
Without `f` a mixin used twice could not be told from two mixins. When the queue
is empty and something is missing, every missing mixin has another missing one in
front of it, which is the cycle `FailsExactlyWhen` names. That statement goes both
ways: an error has its reason, and where the code has come past a check there was
none.
`ResolveTypeOK` types the rest. `ResolveInv` says of the point in work what
`_resolve_specs` knows half way (`Selecting`, `Stacking`) and of the earlier ones
that they are finished (`Resolved`). Its heart is that `selected` always contains
the largest closed set of survivors and never more than the survivors: a round
drops only what cannot be in any closed set, and when no round drops anything,
`selected` is closed itself. For the stack it says that `blocked` counts exactly
the dependencies that are not placed and that the survivors are in the order in
which their ids were written, so the first of the sorted ready list is the one
that is `Ahead`; what is never ready at the end is a circular set. `AccountInv`
follows every spec from its group to the stack, `dropped` or the spec it lost
against. `WeaveInv` places the woven specs in the outer stack by an increasing
function, so that locator mismatches leave gaps and do not change the order.

*Lexer.* `LexInv` says that the tokens so far cover the source up to `i` (`Cover`):
each is as it must be (`TokenOK`: spelled as its kind asks, the beginning of
nothing longer if it is one character long, and a word goes on as far as it can)
and what lies between two of them, and between the last one and `i`, is `Filler`:
idle characters and whole comments, nothing else. `DoneInv` adds that the tokens of
an accepted file end where the file ends. `Filler` is a recursive function over
spans that calls itself more than once; that it exists, and so satisfies its
equation, is shown by longer and longer approximations (`FillerExists`).
`TokenOK` is needed because `LongestMatch` is about two tokens that touch and the
second does not exist yet when the first is emitted: what is remembered is the
character behind it. The inner loops need three steps. A function that calls
itself last exists (`TailRecursion`: its value is decided where the calls from a
position end), so `BlockScan` and the other two satisfy their equations. Each
call moves right, and a loop that went wrong anywhere would go wrong at a last
position (`GreatestNumber`, from the well-foundedness of `<`), where its equation
contradicts it. For strings the statement that holds at every position is that
the scan never stands behind an odd number of backslashes (`StringScanEnd`,
`EscapedNext`, `EscapedTwice`). `Staying` is defined as the stack always has a
least position above which every width is larger.

`BlocksNest` is what can be proved of the layout without the reference definition:
`NestInv` says that the widths on the stack increase and that as many blocks are
open as it has widths above the first. Open blocks are counted (`Tally`, a
cardinality), since a sum over the tokens would be a recursion; a run of layout
tokens changes the count by one each (`Followed`).

Only model-checked: liveness (`RunnableGetsTurn`, `CallEnds`, `Terminates`),
which is beyond the prover (so `ProgramsUseBus`, like `LoopImplementsBus`, is
about the bus without its fairness);
`LayoutAsSpecified` of `Lexer`, whose reference definition is a fold over lines;
`RejectsExactly` of `NameResolution`, which needs for every alias whether a walk
along the aliases returns to it or goes deeper than `RecursionLimit`, an induction
over the aliases that the run does on pairs of them;
the properties of the later passes of the compiler (`Parser`,
`Lowering`, `TypeCheck`, `Evaluation`). `Parser` and the three modules of
`CompiledProgram` are recursive over syntax throughout, so that a proof would
need induction over data.

## 5. Where code and documents disagree

`findings` lists them with the text, its line and what the code does. They are
statements of the documentation, a comment or an error message that the code
does not keep, or faults of the code. One has a run (`orphan_event`: an event
without a handler ends the run with IndexError). Seven are definitions that can be checked as section 3
says. The others were met while translating the code and confirmed by running
the compiler or the interpreter on a small program:

- *Scheduling and interpreter:* every handler of an event runs, where a document
  has only the first that matches; conditions of handlers are not evaluated; larger event types that starve; `return` in a handler; `yield()` without effect;
  `call` that waits for its callee; handlers that are not atomic around `emit`;
  the event type of a second local; records shared between sectors; top-level
  constants that are never evaluated; keyword arguments that are lost;
  initialisers that can neither call nor match.
- *Adapters:* a write without a deadline; a registration left behind when it fails.
- *Package manager:* the lock is never read; a changed url is locked with the old
  repository's commit; a clone cut short in its checkout is linked.
- *Mixins:* ids and dependencies judged for each point, where the documents speak of
  the target; preference of arounds; the order of ties, and of ties with an id
  that is written twice; clashing default ids; depth
  numbers in the plan; a mixin used twice reported as a cycle; a hook that stays
  although its dependency is dropped while weaving.
- *Lexer and parser:* a comment line that counts for the layout; a match whose
  next line is swallowed; assignment to a nested member; attributes of `need` that
  are dropped, and those that are kept but never read.
- *Names:* alias cycles through a constructor; module functions that shadow
  locals; the short form of a qualified name; sector calls that reach global
  functions; functions declared in front of their sector; constructors that are
  silently not defined.
- *Lowering and types:* the order of operands around `?`; arms that leave no
  value; type parameters that are not linked; metas in sector variables; two
  kinds of endless recursion; members, records, operators and matches that are
  accepted and fail at run time; the bridge within reach of initialisers.

## 6. Not modelled, and why

- *Bridge, command line, reports, test runner, scripts:* calls to the passes,
  I/O and formatting; no state between calls.
- *Adapter manager:* looks capabilities up in tables that are read once and keeps
  one `AdapterProcess` per adapter in a dictionary that one thread uses. It adds
  no order and no failure to those of `AdapterProcess`.
- *Standard library:* code in the language itself; the passes and the
  interpreter that give it its meaning are modelled instead.
- *Partly:* of the interpreter, bytes, indexing, tuples, keyword and variadic
  arguments; of lowering and the type checker, the same forms; of the package
  manager, the text of adapter wrappers, `export`, `list` and `devDependencies`,
  which `install` ignores; of the mixins, the signatures of hooks and the
  rewriting of bodies; of name resolution, names inside mixins before they are
  applied, and the file that a diagnostic names. Spans and the wording of errors
  are left out everywhere.
- *Four hazards without a property:* starvation of larger types by a handler that
  emits a smaller one for ever, which the loop does not rule out
  (`SmallestTypeFirst` is its cause); the registration that a failed write leaves
  behind, which `PendingMatchesCalls` excuses; a clone that belongs to an old url;
  and hooks that vanish without a word because another of their id is preferred,
  which `HooksAccountedFor` excuses. The code does these things; all but the first
  and the last are findings as well.

## 7. What is left

1. `AdapterManager` over `AdapterProcess`, if it becomes used by several threads.
2. Tuples, indexing and variadic arguments in `Lowering` and `TypeCheck`; await in
   `Evaluation`, which would join it with `SectorProgram`.
3. The body rewriting of mixins (renaming of locals, `proceed`) against the
   meaning of the woven function in `Evaluation`.
4. An abstract hook selector that `MixinWeaving` implements; its invariants say
   already what that selector would promise.
