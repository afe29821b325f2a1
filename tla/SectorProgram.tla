---------------------------- MODULE SectorProgram ----------------------------
(***************************************************************************)
(* The interpreter of flavent/runtime.py on top of the event loop: the     *)
(* handlers are programs in statements (exec_stmt_gen), with local         *)
(* variables, the variables of sectors, records, and calls of functions of *)
(* the same or of another sector, which run inside the generator of the    *)
(* caller (call_fn_gen).  Every action of EventLoop that advances a task   *)
(* is the last step of that task's turn, the yield; the statements it      *)
(* executes up to there are steps of their own.                            *)
(*                                                                         *)
(* Programs are written with one operation per statement, as               *)
(*    let t = await Event.Go;  count = count + t                           *)
(* a nested expression is the sequence of its parts in evaluation order.   *)
(***************************************************************************)
EXTENDS EventLoop

CONSTANTS
  Sectors,
  Programs,   \* the programs: handlers, functions and sector variables
  Owner,      \* Owner[c]: the event type of constructor c (its symbol id)
  MaxRecords  \* bound on the records (dicts) a run creates

ASSUME SectorTaskAssumption == Task \subseteq Nat /\ None \notin Task

VARIABLES
  prog,    \* the program that runs
  turn,    \* the task whose generator runs now, or None between iterations
  frames,  \* frames[i]: activations of task i, the innermost first
  store,   \* sector_state: the variables of all sectors
  field,   \* field[r]: what record r holds in its field
  raised   \* the exception that left run_hir_program, or None

progVars == <<turn, frames, store, field, raised>>
allVars == <<vars, prog, progVars>>

Num(n) == [tag |-> "int", n |-> n]
Rec(r) == [tag |-> "rec", n |-> r]        \* reference to a dict
Ctor(c) == [tag |-> "ctor", n |-> c]      \* (CtorName, payload)
Nothing == [tag |-> "none", n |-> 0]      \* Python's None

(* The entry event is the dict {}, which no variable of a program holds.    *)
ASSUME EntryValueAssumption == EntryValue = Rec(0)

(* env[x] = v                                                               *)
Put(env, x, v) == [y \in DOMAIN env \cup {x} |-> IF y = x THEN v ELSE env[y]]
Empty == [y \in {} |-> Nothing]

IsEvent(v, t) == \/ v = EntryValue /\ t = EntryType
                 \/ v.tag = "ctor" /\ Owner[v.n] = t

(* fn: the handler or function; code: what is left of its body; types:      *)
(* env_event_types, the event types of the variables known to hold one;     *)
(* saved: what the binders of the matches it is in were before, innermost   *)
(* first.                                                                   *)
HandlerFrame(h, e) ==
  LET d == prog.handlers[h] IN
  [fn |-> h, sector |-> d.sector, code |-> d.body,
   env |-> IF d.binder = None THEN Empty ELSE Put(Empty, d.binder, e.payload),
   types |-> IF d.binder = None THEN Empty ELSE Put(Empty, d.binder, e.type),
   saved |-> << >>]

-----------------------------------------------------------------------------
Top(i) == Head(frames[i])
Here(i) == Head(Top(i).code)
Past(fr) == [fr EXCEPT !.code = Tail(@)]

(* Task i runs and its next statement is one of kind op.                    *)
At(i, op) == turn = i /\ Top(i).code # << >> /\ Here(i).op = op
Eval(i, kinds) == /\ \E op \in {"let", "set", "expr"} : At(i, op)
                  /\ Here(i).e.k \in kinds
CallKinds == {"call", "rpc", "send"}

VarsOf(s) == {x \in DOMAIN prog.lets : prog.lets[x].sector = s}
Mine(fr, x) == x \notin DOMAIN fr.env /\ x \in VarsOf(fr.sector)

(* A variable is a local, else one of the sector, else unbound.             *)
Read(fr, x) == IF x \in DOMAIN fr.env THEN fr.env[x]
               ELSE IF Mine(fr, x) THEN store[x] ELSE Nothing

(* Statement st gets the value v of its expression: let binds a local and   *)
(* notes the type of an awaited event, an assignment sets the variable that *)
(* is found first, else it makes a local.                                   *)
Bound(fr, st, v) ==
  IF st.op = "let" THEN
       [Past(fr) EXCEPT !.env = Put(@, st.x, v),
                         !.types = IF st.e.k = "await" THEN Put(@, st.x, st.e.t) ELSE @]
  ELSE IF st.op = "set" /\ ~Mine(fr, st.x) THEN [Past(fr) EXCEPT !.env = Put(@, st.x, v)]
  ELSE Past(fr)
Stored(fr, st, v) ==
  IF st.op = "set" /\ Mine(fr, st.x) THEN [store EXCEPT ![st.x] = v] ELSE store

(* The innermost of the activations fs gets v for the statement it is at.   *)
Deliver(i, fs, v) ==
  LET fr == Head(fs)  st == Head(fr.code) IN
  /\ frames' = [frames EXCEPT ![i] = << Bound(fr, st, v) >> \o Tail(fs)]
  /\ store' = Stored(fr, st, v)

Goto(i, fr) == frames' = [frames EXCEPT ![i] = << fr >> \o Tail(@)]

(* The rest of the loop does not change while a generator runs.             *)
Inside == UNCHANGED <<vars, prog, turn, raised>>

-----------------------------------------------------------------------------
(* sector_state is filled from the lets, before the entry event is queued.  *)
ProgramInit ==
  /\ Init
  /\ prog \in Programs
  /\ turn = None /\ raised = None
  /\ frames = [i \in Task |-> << >>]
  /\ store = [x \in DOMAIN prog.lets |-> prog.lets[x].init]
  /\ field = prog.records

(* make_handler_task: one generator for each handler of the event.  Which   *)
(* identities the new tasks get does not matter: the smallest free ones.    *)
Start(t) ==
  /\ turn = None /\ Dispatch(t)
  /\ \A k \in DOMAIN runnable' : \A i \in Free \ {runnable'[l] : l \in 1..k} : runnable'[k] < i
  /\ frames' = [i \in Task |-> IF handlerOf[i] = None /\ handlerOf'[i] # None
                  THEN << HandlerFrame(handlerOf'[i], binding'[i]) >> ELSE frames[i]]
  /\ UNCHANGED <<prog, turn, store, field, raised>>

Leave == turn = None /\ Return /\ UNCHANGED <<prog, progVars>>

(* _advance_task: the generator is entered, an await gets its event.        *)
Enter(i) ==
  /\ turn = None /\ IsHead(i)
  /\ turn' = i
  /\ IF pendingSend[i] = None THEN UNCHANGED <<frames, store>>
                              ELSE Deliver(i, frames[i], pendingSend[i].payload)
  /\ UNCHANGED <<vars, prog, field, raised>>

(* An expression without a call or an await.                                *)
Simple(fr, e) ==
  CASE e.k = "lit" -> e.v
    [] e.k = "var" -> Read(fr, e.x)
    [] e.k = "inc" -> Num(Read(fr, e.x).n + 1)
    [] e.k = "get" -> Num(field[Read(fr, e.x).n])
    [] e.k = "less" -> Num(IF Read(fr, e.x).n < e.n THEN 1 ELSE 0)

Compute(i) ==
  /\ Eval(i, {"lit", "var", "inc", "get", "less"})
  /\ Deliver(i, frames[i], Simple(Top(i), Here(i).e))
  /\ Inside /\ UNCHANGED field

(* A record literal makes a new dict.                                       *)
Create(i) ==
  /\ Eval(i, {"record"}) /\ Len(field) < MaxRecords
  /\ Deliver(i, frames[i], Rec(Len(field) + 1))
  /\ field' = Append(field, Here(i).e.n)
  /\ Inside

(* x.field = v changes the dict, whoever else holds it.                     *)
AssignField(i) ==
  /\ At(i, "setfield")
  /\ field' = [field EXCEPT ![Read(Top(i), Here(i).x).n] = Here(i).n]
  /\ Goto(i, Past(Top(i)))
  /\ Inside /\ UNCHANGED store

IfStmt(i) ==
  /\ At(i, "if")
  /\ LET c == Simple(Top(i), Here(i).e) IN
     Goto(i, [Top(i) EXCEPT !.code =
               (IF c.n # 0 THEN Here(i).then ELSE Here(i).else) \o Tail(@)])
  /\ Inside /\ UNCHANGED <<store, field>>

(* for x in xs: the list is taken once, x stays bound to its last element.  *)
ForStmt(i) ==
  /\ At(i, "for")
  /\ IF Here(i).xs = << >> THEN Goto(i, Past(Top(i)))
     ELSE Goto(i, [Top(i) EXCEPT
            !.env = Put(@, Here(i).x, Head(Here(i).xs)),
            !.code = Here(i).body \o << [Here(i) EXCEPT !.xs = Tail(@)] >> \o Tail(@)])
  /\ Inside /\ UNCHANGED <<store, field>>

(* The first arm that matches the value of x runs with its binder bound; at *)
(* its end the binder is what it was before.                                *)
Matches(arm, v) == arm.ctor = None \/ v = Ctor(arm.ctor)
MatchStmt(i) ==
  /\ At(i, "match")
  /\ LET v == Read(Top(i), Here(i).x)  arms == Here(i).arms IN
     \E k \in DOMAIN arms :
       LET arm == arms[k]  bound == DOMAIN Top(i).env \cap {arm.x} IN
       /\ Matches(arm, v) /\ \A l \in 1..k - 1 : ~Matches(arms[l], v)
       /\ Goto(i, [Top(i) EXCEPT
            !.env = IF arm.x = None THEN @ ELSE Put(@, arm.x, v),
            !.saved = << [y \in bound |-> Top(i).env[y]] >> \o @,
            !.code = arm.body \o << [op |-> "restore", x |-> arm.x] >> \o Tail(@)])
  /\ Inside /\ UNCHANGED <<store, field>>

Restore(i) ==
  /\ At(i, "restore")
  /\ LET prev == Head(Top(i).saved)  x == Here(i).x IN
     Goto(i, [Past(Top(i)) EXCEPT
       !.saved = Tail(@),
       !.env = [y \in (DOMAIN @ \ {x}) \cup (DOMAIN prev \cap {x}) |->
                  IF y = x THEN prev[y] ELSE @[y]]])
  /\ Inside /\ UNCHANGED <<store, field>>

(* YieldStmt returns without a yield.                                       *)
YieldStmt(i) ==
  /\ At(i, "yield") /\ Goto(i, Past(Top(i)))
  /\ Inside /\ UNCHANGED <<store, field>>

-----------------------------------------------------------------------------
(* call_fn_gen: a new env for each call.  An rpc and a fire-and-forget call *)
(* run in the sector of the callee, a plain call in that of the caller; all *)
(* run at once, inside the generator of the caller, which stays at the      *)
(* statement that calls.                                                    *)
Activations(f) == {fr \in UNION {Range(frames[j]) : j \in Task} : fr.fn = f}
OneEnvPerFn(fr, f, args) ==                 \* fault: the env belongs to f
  IF Activations(f) = {} THEN Put(Empty, prog.fns[f].param, Read(fr, args))
                         ELSE (CHOOSE g \in Activations(f) : TRUE).env
ArgEnv(fr, f, args) == Put(Empty, prog.fns[f].param, Read(fr, args))

CallersSector(fr, e) == fr.sector           \* fault: e.sector not passed on
CalleeSector(fr, e) == IF e.k = "call" THEN fr.sector ELSE prog.fns[e.f].sector

CallerGoesOn(i, fr) == << fr, Past(Top(i)) >> \o Tail(frames[i])   \* fault
Pushed(i, fr) == << fr >> \o frames[i]

Call(i) ==
  /\ Eval(i, CallKinds)
  /\ LET e == Here(i).e IN
     frames' = [frames EXCEPT ![i] = Pushed(i,
       [fn |-> e.f, sector |-> CalleeSector(Top(i), e), code |-> prog.fns[e.f].body,
        env |-> ArgEnv(Top(i), e.f, e.x), types |-> Empty, saved |-> << >>])]
  /\ Inside /\ UNCHANGED <<store, field>>

(* The result of a fire-and-forget call is None.                            *)
ResultSeen(i, v) == IF Head(frames[i][2].code).e.k = "send" THEN Nothing ELSE v

ReturnStmt(i) ==
  /\ At(i, "return") /\ Len(frames[i]) > 1
  /\ Deliver(i, Tail(frames[i]), ResultSeen(i, Simple(Top(i), Here(i).e)))
  /\ Inside /\ UNCHANGED field

EndOfFn(i) ==
  /\ turn = i /\ Top(i).code = << >> /\ Len(frames[i]) > 1
  /\ Deliver(i, Tail(frames[i]), Nothing)
  /\ Inside /\ UNCHANGED field

-----------------------------------------------------------------------------
(* _infer_event_type_id: the type a handler binder or an awaited variable   *)
(* is known to have, else that of the constructor of the value, else none.  *)
TypeHandled(fr, e) ==                       \* fault: the type being handled
  IF DOMAIN fr.types # {} THEN fr.types[CHOOSE y \in DOMAIN fr.types : TRUE] ELSE None
InferType(fr, e) ==
  LET v == Simple(fr, e) IN
  IF e.k = "var" /\ e.x \in DOMAIN fr.types THEN fr.types[e.x]
  ELSE IF v.tag = "ctor" THEN Owner[v.n] ELSE None

EmitStmt(i) ==
  /\ At(i, "emit")
  /\ LET t == InferType(Top(i), Here(i).e)  v == Simple(Top(i), Here(i).e) IN
     t # None /\ (EmitToWaiter(i, t, v) \/ EmitToQueue(i, t, v))
  /\ Goto(i, Past(Top(i)))
  /\ turn' = None
  /\ UNCHANGED <<prog, store, field, raised>>

AwaitExpr(i) ==
  /\ Eval(i, {"await"})
  /\ AwaitQueued(i, Here(i).e.t) \/ AwaitSuspend(i, Here(i).e.t)
  /\ turn' = None
  /\ UNCHANGED <<prog, frames, store, field, raised>>

Over(i, how) ==
  /\ turn' = None /\ frames' = [frames EXCEPT ![i] = << >>]
  /\ raised' = how
  /\ UNCHANGED <<prog, store, field>>

HandlerEnd(i) ==
  /\ turn = i /\ Top(i).code = << >> /\ Len(frames[i]) = 1
  /\ Finish(i) /\ Over(i, None)

StopStmt(i) == At(i, "stop") /\ Stop(i) /\ Over(i, None)
AbortHandlerStmt(i) == At(i, "abort") /\ Abort(i) /\ Over(i, "handler aborted")

(* Any other exception leaves the run as well: a match without a matching   *)
(* arm, an event whose type is not found, and the return statement of a     *)
(* handler, which raises _Return that only call_fn_gen catches.             *)
Raise(i) ==
  \/ /\ At(i, "emit") /\ InferType(Top(i), Here(i).e) = None
     /\ Abort(i) /\ Over(i, "emit expects an event value")
  \/ /\ At(i, "match")
     /\ \A l \in DOMAIN Here(i).arms : ~Matches(Here(i).arms[l], Read(Top(i), Here(i).x))
     /\ Abort(i) /\ Over(i, "non-exhaustive match stmt")
  \/ At(i, "return") /\ Len(frames[i]) = 1 /\ Abort(i) /\ Over(i, "_Return")

Execute(i) ==
  \/ Compute(i) \/ Create(i) \/ AssignField(i) \/ IfStmt(i) \/ ForStmt(i)
  \/ MatchStmt(i) \/ Restore(i) \/ YieldStmt(i) \/ Call(i) \/ ReturnStmt(i)
  \/ EndOfFn(i) \/ EmitStmt(i) \/ AwaitExpr(i) \/ HandlerEnd(i) \/ StopStmt(i)
  \/ AbortHandlerStmt(i) \/ Raise(i)

Halted == status # "running" /\ UNCHANGED allVars

ProgramNext ==
  \/ \E t \in Types : Start(t)
  \/ Leave
  \/ \E i \in Task : Enter(i) \/ Execute(i)
  \/ Halted

ProgramSpec == ProgramInit /\ [][ProgramNext]_allVars

-----------------------------------------------------------------------------
(* Every variable has its type; a generator runs only while its task is the *)
(* head of the deque, a live task has activations and the callers wait at   *)
(* a call of the next inner activation.                                     *)
ProgramTypeOK ==
  /\ turn \in Task \cup {None} /\ (turn # None => IsHead(turn))
  /\ \A i \in Task : frames[i] # << >> <=> handlerOf[i] # None
  /\ \A i \in Task : \A k \in 2..Len(frames[i]) :
       /\ frames[i][k].code # << >>
       /\ LET st == Head(frames[i][k].code) IN
          st.op \in {"let", "set", "expr"} /\ st.e.k \in CallKinds /\ st.e.f = frames[i][k - 1].fn
  /\ \A x \in DOMAIN store : store[x].tag \in {"int", "rec", "ctor", "none"}
  /\ field \in Seq(Nat)
  /\ raised # None => status = "aborted"

(* The variables the next statement of an activation reads.                 *)
Reads(fr) ==
  IF fr.code = << >> THEN {} ELSE
  LET st == Head(fr.code) IN
  (IF st.op \in {"match", "setfield"} THEN {st.x} ELSE {})
    \cup (IF st.op \in {"let", "set", "expr", "if", "return", "emit"}
            /\ st.e.k \in CallKinds \cup {"var", "inc", "get", "less"} THEN {st.e.x} ELSE {})

(* A variable is bound when it is read: calls within and between sectors,   *)
(* suspended or not, run where the variables of their body are found        *)
(* (an unbound one would silently be None, runtime.py).                     *)
VariablesBound ==
  turn # None => \A x \in Reads(Top(turn)) : x \in DOMAIN Top(turn).env \/ Mine(Top(turn), x)

Echoes(i) ==
  /\ Len(frames[i]) > 1 /\ Len(frames'[i]) = Len(frames[i]) - 1
  /\ Top(i).fn \in prog.echoes
  => LET st == Head(frames[i][2].code) IN
     st.op = "let" /\ st.e.k # "send" =>
       Head(frames'[i]).env[st.x] = Read(frames[i][2], st.e.x)

(* A function that ends in returning its parameter, which it never assigns, *)
(* returns to each of its callers what that caller passed, although several *)
(* activations of it may be suspended at once and resumed in any order.     *)
EchoReturnsArgument == [][\A i \in Task : Echoes(i)]_allVars

(* An event is queued for a type, or sent to a task that awaits it, only if *)
(* its value is of that type: the type found at run time is the static one. *)
EmitKeepsType ==
  /\ \A t \in Types : \A k \in DOMAIN queue[t] : IsEvent(queue[t][k].payload, t)
  /\ \A i \in Task : pendingSend[i] # None =>
       IsEvent(pendingSend[i].payload, pendingSend[i].type)

(* A program the type checker accepts (emit takes an expression of an event *)
(* type, typecheck.py) never leaves the loop with an exception at an emit.  *)
(* Not so for an event in a second local.                                   *)
EmitAccepted == raised # "emit expects an event value"

(* "Sectors are the unit of state isolation" (DOCS.md): what a variable of  *)
(* a sector holds, fields included, changes only in a step that begins or   *)
(* ends in an activation of that sector. Not so for a record handed out.    *)
Content(x) == IF store[x].tag = "rec" THEN Num(field[store[x].n]) ELSE store[x]
Running == IF turn = None THEN {} ELSE {Top(turn).sector}
SectorsIsolated ==
  [][\A x \in DOMAIN store : Content(x)' # Content(x) =>
       prog.lets[x].sector \in Running \cup Running']_allVars
=============================================================================
