------------------------- MODULE SectorProgramProofs -------------------------
(* The interpreter of SectorProgram for every well typed program, set of     *)
(* event types, assignment of handlers and bound: a value has the type of    *)
(* the variable that holds it, a variable is bound when it is read, an event *)
(* is of the type it is queued for, and the programs run on the event loop.  *)
EXTENDS SectorTyping, EventLoopProofs

-----------------------------------------------------------------------------
(* What a frame, an environment and a stack of activations of program p are *)
(* when n records exist.                                                    *)
IsSeq(s) == s \in Seq(Range(s))

EnvTyped(p, f, env, n) ==
  \A x \in DOMAIN env : x \in DOMAIN Local(p, f) /\ HasType(env[x], Local(p, f)[x], n)

TypesKnown(p, f, types) ==
  \A x \in DOMAIN types : x \in DOMAIN Local(p, f) /\ Local(p, f)[x] = EventType(types[x])

Frame(f, s, code, env, types, saved) ==
  [fn |-> f, sector |-> s, code |-> code, env |-> env, types |-> types, saved |-> saved]
IsFrame(fr) == fr = Frame(fr.fn, fr.sector, fr.code, fr.env, fr.types, fr.saved)

(* An activation is at the point pt of its body.                            *)
IsAt(fr, pt) ==
  pt.code = fr.code /\ pt.depth = Len(fr.saved) /\ pt.bound \subseteq DOMAIN fr.env

FrameTyped(p, fr, n) ==
  /\ IsFrame(fr)
  /\ fr.fn \in BodyNames(p) /\ fr.sector = Home(p, fr.fn)
  /\ \E pt \in Points(p, fr.fn) : IsAt(fr, pt)
  /\ EnvTyped(p, fr.fn, fr.env, n) /\ TypesKnown(p, fr.fn, fr.types)
  /\ IsSeq(fr.saved) /\ \A k \in 1..Len(fr.saved) : EnvTyped(p, fr.fn, fr.saved[k], n)

Statement(st) == st.op \in {"let", "set", "expr"}

(* The activation fr waits for the result of the call of f.                 *)
CallsFor(fr, f) ==
  /\ fr.code # << >> /\ Statement(Head(fr.code))
  /\ Head(fr.code).e.k \in CallKinds /\ Head(fr.code).e.f = f

(* A function is at the bottom of no stack, a handler only there.           *)
StackTyped(p, fs, n) ==
  /\ IsSeq(fs)
  /\ \A k \in 1..Len(fs) :
       FrameTyped(p, fs[k], n) /\ (fs[k].fn \in DOMAIN p.handlers <=> k = Len(fs))
  /\ \A k \in 2..Len(fs) : CallsFor(fs[k], fs[k - 1].fn)

AwaitsIn(fs, t) ==
  /\ fs # << >> /\ Head(fs).code # << >>
  /\ LET st == Head(Head(fs).code) IN Statement(st) /\ st.e.k = "await" /\ st.e.t = t

(* Between its turns a task that awaits an event of type t is at an await   *)
(* of t; within its turn it has gone on.                                    *)
StacksTyped ==
  /\ DOMAIN frames = Task
  /\ \A i \in Task : /\ StackTyped(prog, frames[i], Len(field))
                     /\ frames[i] # << >> <=> handlerOf[i] # None
                     /\ awaited[i] # None /\ turn # i => AwaitsIn(frames[i], awaited[i])

StoreTyped ==
  /\ DOMAIN store = DOMAIN prog.lets /\ field \in Seq(Nat)
  /\ \A x \in DOMAIN store : HasType(store[x], SectorVar(prog)[x], Len(field))

EventsTyped ==
  /\ \A t \in Types : \A k \in 1..Len(queue[t]) : IsEventOf(queue[t][k].payload, t)
  /\ \A i \in Task : pendingSend[i] # None =>
       IsEventOf(pendingSend[i].payload, pendingSend[i].type)

TurnOK == /\ prog \in Programs
          /\ turn \in Task \cup {None} /\ (turn # None => IsHead(turn))
          /\ raised # None => status = "aborted"

LoopInv == TypeOK /\ OnePlace /\ QueueTyped /\ AnswerMatchesAwait
ProgramInv == LoopInv /\ TurnOK /\ StacksTyped /\ StoreTyped /\ EventsTyped

-----------------------------------------------------------------------------
LEMMA SeqInRange == ASSUME NEW S, NEW s \in Seq(S) PROVE IsSeq(s)
<1>1. \A k \in 1..Len(s) : s[k] \in Range(s)
  BY DEF Range
<1> QED BY <1>1 DEF IsSeq

LEMMA ConsSeq ==
  ASSUME NEW s, IsSeq(s), NEW x
  PROVE  LET c == << x >> \o s IN
         /\ IsSeq(c) /\ Len(c) = Len(s) + 1 /\ c # << >> /\ Head(c) = x
         /\ c[1] = x /\ \A k \in 2..Len(c) : c[k] = s[k - 1]
<1> DEFINE S == Range(s) \cup {x}  c == << x >> \o s
<1>1. s \in Seq(S) /\ << x >> \in Seq(S)
  <2>1. s \in Seq(Range(s))
    BY DEF IsSeq
  <2> QED BY <2>1
<1>2. c \in Seq(S) /\ Len(c) = Len(s) + 1 /\ c[1] = x
  BY <1>1
<1>3. \A k \in 2..Len(c) : c[k] = s[k - 1]
  BY <1>1
<1> HIDE DEF c
<1>4. IsSeq(c)
  BY <1>2, SeqInRange
<1>5. c # << >> /\ Head(c) = x
  BY <1>2, EmptySeq
<1> QED BY <1>2, <1>3, <1>4, <1>5 DEF c

LEMMA TailIsSeq ==
  ASSUME NEW s, IsSeq(s), s # << >>
  PROVE  /\ IsSeq(Tail(s)) /\ Len(Tail(s)) = Len(s) - 1 /\ Len(s) \in Nat \ {0}
         /\ Head(s) = s[1] /\ \A k \in 1..Len(s) - 1 : Tail(s)[k] = s[k + 1]
<1>1. s \in Seq(Range(s))
  BY DEF IsSeq
<1>2. /\ Tail(s) \in Seq(Range(s)) /\ Len(Tail(s)) = Len(s) - 1 /\ Len(s) \in Nat \ {0}
      /\ Head(s) = s[1] /\ \A k \in 1..Len(s) - 1 : Tail(s)[k] = s[k + 1]
  BY <1>1, EmptySeq
<1>3. IsSeq(Tail(s))
  BY <1>2, SeqInRange
<1> QED BY <1>2, <1>3

LEMMA EmptyIsSeq == IsSeq(<< >>) /\ Len(<< >>) = 0
<1>1. << >> \in Seq(Range(<< >>))
  OBVIOUS
<1> QED BY <1>1 DEF IsSeq

(* More records make no value lose its type.                                 *)
LEMMA HasTypeGrows ==
  ASSUME NEW v, NEW ty, NEW n \in Nat, NEW m \in Nat, n <= m, HasType(v, ty, n)
  PROVE  HasType(v, ty, m)
  BY DEF HasType

LEMMA EnvGrows ==
  ASSUME NEW p, NEW f, NEW env, NEW n \in Nat, NEW m \in Nat, n <= m, EnvTyped(p, f, env, n)
  PROVE  EnvTyped(p, f, env, m)
  BY HasTypeGrows DEF EnvTyped

LEMMA FrameGrows ==
  ASSUME NEW p, NEW fr, NEW n \in Nat, NEW m \in Nat, n <= m, FrameTyped(p, fr, n)
  PROVE  FrameTyped(p, fr, m)
  BY EnvGrows DEF FrameTyped

LEMMA StackGrows ==
  ASSUME NEW p, NEW fs, NEW n \in Nat, NEW m \in Nat, n <= m, StackTyped(p, fs, n)
  PROVE  StackTyped(p, fs, m)
  BY FrameGrows DEF StackTyped

LEMMA EmptyStack == ASSUME NEW p, NEW n PROVE StackTyped(p, << >>, n)
  BY EmptyIsSeq DEF StackTyped

LEMMA TopTyped ==
  ASSUME NEW p, NEW fs, NEW n, StackTyped(p, fs, n), fs # << >>
  PROVE  /\ FrameTyped(p, Head(fs), n) /\ Len(fs) \in Nat \ {0}
         /\ Len(fs) > 1 => Head(fs).fn \notin DOMAIN p.handlers
<1>1. Len(fs) \in Nat \ {0} /\ Head(fs) = fs[1]
  BY TailIsSeq DEF StackTyped
<1>2. PICK n1 \in Nat \ {0} : n1 = Len(fs)
  BY <1>1
<1>3. 1 \in 1..n1
  BY <1>2
<1>4. FrameTyped(p, fs[1], n) /\ (fs[1].fn \in DOMAIN p.handlers <=> 1 = n1)
  BY <1>2, <1>3 DEF StackTyped
<1>5. n1 > 1 => Head(fs).fn \notin DOMAIN p.handlers
  BY <1>1, <1>4
<1> QED BY <1>1, <1>2, <1>4, <1>5

LEMMA HandlerStack ==
  ASSUME NEW p, NEW fr, NEW n, FrameTyped(p, fr, n), fr.fn \in DOMAIN p.handlers
  PROVE  StackTyped(p, << fr >>, n) /\ << fr >> # << >>
<1>1. IsSeq(<< fr >>) /\ Len(<< fr >>) = 1 /\ << fr >>[1] = fr
  <2>1. << fr >> \in Seq({fr})
    OBVIOUS
  <2> QED BY <2>1, SeqInRange
<1> QED BY <1>1 DEF StackTyped

(* The innermost activation goes on.                                         *)
LEMMA ReplaceTop ==
  ASSUME NEW p, NEW fs, NEW n, StackTyped(p, fs, n), fs # << >>,
         NEW fr, FrameTyped(p, fr, n), fr.fn = Head(fs).fn
  PROVE  StackTyped(p, << fr >> \o Tail(fs), n) /\ << fr >> \o Tail(fs) # << >>
<1> DEFINE gs == << fr >> \o Tail(fs)
<1>1. /\ IsSeq(fs) /\ IsSeq(Tail(fs)) /\ Len(Tail(fs)) = Len(fs) - 1 /\ Len(fs) \in Nat \ {0}
      /\ Head(fs) = fs[1] /\ \A k \in 1..Len(fs) - 1 : Tail(fs)[k] = fs[k + 1]
  BY TailIsSeq DEF StackTyped
<1>2. /\ IsSeq(gs) /\ Len(gs) = Len(fs) /\ gs # << >> /\ gs[1] = fr
      /\ \A k \in 2..Len(fs) : gs[k] = fs[k]
  BY <1>1, ConsSeq
<1>3. ASSUME NEW k \in 1..Len(gs)
      PROVE  FrameTyped(p, gs[k], n) /\ gs[k].fn = fs[k].fn
  <2>1. CASE k = 1
    BY <2>1, <1>1, <1>2
  <2>2. CASE k # 1
    <3>1. gs[k] = fs[k] /\ k \in 1..Len(fs)
      BY <2>2, <1>1, <1>2
    <3>2. FrameTyped(p, fs[k], n)
      BY <3>1 DEF StackTyped
    <3> QED BY <3>1, <3>2
  <2> QED BY <2>1, <2>2
<1>4. ASSUME NEW k \in 2..Len(gs)
      PROVE  CallsFor(gs[k], gs[k - 1].fn)
  <2>1. gs[k] = fs[k] /\ gs[k - 1].fn = fs[k - 1].fn
    BY <1>1, <1>2, <1>3
  <2> QED BY <2>1, <1>1, <1>2 DEF StackTyped
<1>5. \A k \in 1..Len(gs) : gs[k].fn \in DOMAIN p.handlers <=> k = Len(gs)
  BY <1>1, <1>2, <1>3 DEF StackTyped
<1> HIDE DEF gs
<1>6. StackTyped(p, gs, n)
  BY <1>2, <1>3, <1>4, <1>5 DEF StackTyped
<1> QED BY <1>2, <1>6 DEF gs

(* A call of a function begins, and ends.                                    *)
LEMMA PushFrame ==
  ASSUME NEW p, NEW fs, NEW n, StackTyped(p, fs, n), fs # << >>,
         NEW fr, FrameTyped(p, fr, n), fr.fn \notin DOMAIN p.handlers, CallsFor(Head(fs), fr.fn)
  PROVE  StackTyped(p, << fr >> \o fs, n) /\ << fr >> \o fs # << >>
<1> DEFINE gs == << fr >> \o fs
<1>1. IsSeq(fs) /\ Len(fs) \in Nat \ {0} /\ Head(fs) = fs[1]
  BY TailIsSeq DEF StackTyped
<1>2. /\ IsSeq(gs) /\ Len(gs) = Len(fs) + 1 /\ gs # << >> /\ gs[1] = fr
      /\ \A k \in 2..Len(fs) + 1 : gs[k] = fs[k - 1]
  BY <1>1, ConsSeq
<1> HIDE DEF gs
<1>3. ASSUME NEW k \in 1..Len(gs)
      PROVE  FrameTyped(p, gs[k], n) /\ (gs[k].fn \in DOMAIN p.handlers <=> k = Len(gs))
  <2>1. CASE k = 1
    BY <2>1, <1>1, <1>2
  <2>2. CASE k # 1
    <3>1. gs[k] = fs[k - 1] /\ k - 1 \in 1..Len(fs)
      BY <2>2, <1>1, <1>2
    <3> QED BY <3>1, <1>1, <1>2 DEF StackTyped
  <2> QED BY <2>1, <2>2
<1>4. ASSUME NEW k \in 2..Len(gs)
      PROVE  CallsFor(gs[k], gs[k - 1].fn)
  <2>1. CASE k = 2
    BY <2>1, <1>1, <1>2
  <2>2. CASE k # 2
    <3>1. gs[k] = fs[k - 1] /\ gs[k - 1] = fs[k - 1 - 1] /\ k - 1 \in 2..Len(fs)
      BY <2>2, <1>1, <1>2
    <3> QED BY <3>1 DEF StackTyped
  <2> QED BY <2>1, <2>2
<1>5. StackTyped(p, gs, n)
  BY <1>2, <1>3, <1>4 DEF StackTyped
<1> QED BY <1>2, <1>5 DEF gs

LEMMA PopFrame ==
  ASSUME NEW p, NEW fs, NEW n, StackTyped(p, fs, n), Len(fs) > 1
  PROVE  /\ StackTyped(p, Tail(fs), n) /\ Tail(fs) # << >> /\ fs # << >>
         /\ CallsFor(Head(Tail(fs)), Head(fs).fn) /\ Head(Tail(fs)) = fs[2]
         /\ Len(Tail(fs)) = Len(fs) - 1
<1> DEFINE gs == Tail(fs)
<1>1. fs # << >>
  BY EmptyIsSeq
<1>2. /\ IsSeq(gs) /\ Len(gs) = Len(fs) - 1 /\ Len(fs) \in Nat \ {0} /\ Head(fs) = fs[1]
      /\ \A k \in 1..Len(fs) - 1 : gs[k] = fs[k + 1]
  BY <1>1, TailIsSeq DEF StackTyped
<1> HIDE DEF gs
<1>3. gs # << >> /\ gs[1] = fs[2]
  BY <1>2, EmptyIsSeq
<1>4. Head(gs) = fs[2]
  BY <1>2, <1>3, TailIsSeq
<1>5. ASSUME NEW k \in 1..Len(gs)
      PROVE  FrameTyped(p, gs[k], n) /\ (gs[k].fn \in DOMAIN p.handlers <=> k = Len(gs))
  <2>1. gs[k] = fs[k + 1] /\ k + 1 \in 1..Len(fs)
    BY <1>2
  <2> QED BY <2>1, <1>2 DEF StackTyped
<1>6. ASSUME NEW k \in 2..Len(gs)
      PROVE  CallsFor(gs[k], gs[k - 1].fn)
  <2>1. gs[k] = fs[k + 1] /\ gs[k - 1] = fs[k + 1 - 1] /\ k + 1 \in 2..Len(fs)
    BY <1>2
  <2> QED BY <2>1 DEF StackTyped
<1>7. CallsFor(fs[2], fs[1].fn)
  <2>1. 2 \in 2..Len(fs) /\ fs[2 - 1] = fs[1]
    BY <1>2
  <2> QED BY <2>1 DEF StackTyped
<1>8. StackTyped(p, gs, n)
  BY <1>2, <1>5, <1>6 DEF StackTyped
<1> QED BY <1>1, <1>2, <1>3, <1>4, <1>7, <1>8 DEF gs

-----------------------------------------------------------------------------
LEMMA KindsDiffer ==
  /\ IntType # RecordType /\ IntType # UnitType /\ RecordType # UnitType
  /\ \A t : EventType(t) \notin {IntType, RecordType, UnitType}
  /\ \A t, u : EventType(t) = EventType(u) => t = u
  BY DEF IntType, RecordType, UnitType, EventType

LEMMA ValuesOfTypes ==
  ASSUME NEW v, NEW n \in Nat
  PROVE  /\ HasType(v, IntType, n) <=> v = Num(v.n) /\ v.n \in Nat
         /\ HasType(v, RecordType, n) <=> v = Rec(v.n) /\ v.n \in 1..n
         /\ HasType(v, UnitType, n) <=> v = Nothing
         /\ \A t : HasType(v, EventType(t), n) <=> t \in Types /\ IsEventOf(v, t)
  BY KindsDiffer DEF HasType

LEMMA NumbersTyped ==
  ASSUME NEW m \in Nat, NEW n \in Nat
  PROVE  Num(m).n = m /\ HasType(Num(m), IntType, n)
  BY ValuesOfTypes DEF Num

LEMMA RecordsTyped ==
  ASSUME NEW n \in Nat, NEW r \in 1..n
  PROVE  HasType(Rec(r), RecordType, n)
  BY ValuesOfTypes DEF Rec

(* A constructor is an event of its owner, whatever holds it.                *)
LEMMA ConstructorsTyped ==
  ASSUME NEW v, NEW ty, NEW n, HasType(v, ty, n)
  PROVE  /\ v.tag \in {"int", "rec", "ctor", "none"}
         /\ v.tag = "ctor" => v.n \in DOMAIN Owner /\ v = Ctor(v.n)
  BY EntryValueAssumption DEF HasType, IsEventOf, Num, Rec, Nothing, Ctor

LEMMA EventsAreEvents ==
  ASSUME NEW v, NEW t, IsEventOf(v, t)
  PROVE  t \in Types /\ v \in Payload /\ IsEvent(v, t)
  BY EntryAssumption, OwnerAssumption DEF IsEventOf, IsEvent, Ctor

LEMMA PointFacts ==
  ASSUME NEW p \in Programs, NEW f \in BodyNames(p), NEW pt \in Points(p, f)
  PROVE  /\ pt.bound \subseteq DOMAIN Local(p, f) /\ pt.depth \in Nat
         /\ IF pt.code = << >> THEN f \in DOMAIN p.fns => Result(p)[f] = UnitType
            ELSE Accepted(p, f, pt.bound, pt.depth, Head(pt.code))
         /\ After(p, f, pt) \subseteq Points(p, f)
  BY ProgramsAssumption DEF WellTyped, PointTyped

LEMMA NamesDiffer ==
  ASSUME NEW p \in Programs
  PROVE  /\ \A f \in BodyNames(p) : /\ DOMAIN Local(p, f) \cap SectorVars(p, f) = {}
                                    /\ None \notin DOMAIN Local(p, f)
         /\ DOMAIN p.handlers \cap DOMAIN p.fns = {}
  BY ProgramsAssumption DEF WellTyped, SectorVars

LEMMA SectorVarsHere ==
  ASSUME NEW fr, fr.sector = Home(prog, fr.fn)
  PROVE  \A x : Mine(fr, x) <=> x \notin DOMAIN fr.env /\ x \in SectorVars(prog, fr.fn)
  BY DEF Mine, VarsOf, SectorVars

(* A variable in scope is bound and holds a value of its type.               *)
LEMMA ReadTyped ==
  ASSUME prog \in Programs, StoreTyped, NEW fr, FrameTyped(prog, fr, Len(field)),
         NEW B, B \subseteq DOMAIN fr.env, NEW x, NEW ty, Variable(prog, fr.fn, B, x, ty)
  PROVE  /\ HasType(Read(fr, x), ty, Len(field))
         /\ x \in DOMAIN fr.env \/ Mine(fr, x)
<1>1. fr.sector = Home(prog, fr.fn) /\ fr.fn \in BodyNames(prog)
      /\ EnvTyped(prog, fr.fn, fr.env, Len(field))
  BY DEF FrameTyped
<1>2. CASE x \in DOMAIN fr.env
  <2>1. Read(fr, x) = fr.env[x]
    BY <1>2 DEF Read
  <2> QED BY <1>1, <1>2, <2>1 DEF EnvTyped, Variable, TypeOf
<1>3. CASE x \notin DOMAIN fr.env
  <2>1. x \in SectorVars(prog, fr.fn) /\ Mine(fr, x)
    BY <1>1, <1>3, SectorVarsHere DEF Variable
  <2>2. x \notin DOMAIN Local(prog, fr.fn) /\ x \in DOMAIN store
    BY <1>1, <2>1, NamesDiffer DEF StoreTyped, SectorVars
  <2>3. ty = SectorVar(prog)[x] /\ Read(fr, x) = store[x]
    BY <1>3, <2>1, <2>2 DEF Variable, TypeOf, Read
  <2> QED BY <2>1, <2>2, <2>3 DEF StoreTyped
<1> QED BY <1>2, <1>3

LEMMA FieldLength == ASSUME StoreTyped PROVE Len(field) \in Nat
  BY DEF StoreTyped

(* An expression without a call or an await has a value of its type.         *)
LEMMA SimpleTyped ==
  ASSUME prog \in Programs, StoreTyped, NEW fr, FrameTyped(prog, fr, Len(field)),
         NEW B, B \subseteq DOMAIN fr.env, NEW e, NEW ty, e.k \in SimpleKinds,
         Typed(prog, fr.fn, B, e, ty)
  PROVE  HasType(Simple(fr, e), ty, Len(field))
<1>1. Len(field) \in Nat
  BY FieldLength
<1>2. CASE e.k = "lit"
  <2>1. HasType(e.v, ty, 0) /\ Simple(fr, e) = e.v
    BY <1>2 DEF Typed, CallKinds, Simple
  <2> QED BY <1>1, <2>1, HasTypeGrows
<1>3. CASE e.k = "var"
  <2>1. Variable(prog, fr.fn, B, e.x, ty) /\ Simple(fr, e) = Read(fr, e.x)
    BY <1>3 DEF Typed, CallKinds, Simple
  <2> QED BY <2>1, ReadTyped
<1>4. CASE e.k \in {"inc", "less"}
  <2>1. Variable(prog, fr.fn, B, e.x, IntType) /\ ty = IntType
    BY <1>4 DEF Typed, CallKinds
  <2>2. HasType(Read(fr, e.x), IntType, Len(field))
    BY <2>1, ReadTyped
  <2>3. Read(fr, e.x).n \in Nat
    BY <1>1, <2>2, ValuesOfTypes
  <2>4. \E m \in Nat : Simple(fr, e) = Num(m)
    <3>1. CASE e.k = "inc"
      BY <3>1, <2>3 DEF Simple
    <3>2. CASE e.k = "less"
      BY <3>2 DEF Simple
    <3> QED BY <1>4, <3>1, <3>2
  <2> QED BY <1>1, <2>1, <2>4, NumbersTyped
<1>5. CASE e.k = "get"
  <2>1. Variable(prog, fr.fn, B, e.x, RecordType) /\ ty = IntType
    BY <1>5 DEF Typed, CallKinds
  <2>2. HasType(Read(fr, e.x), RecordType, Len(field))
    BY <2>1, ReadTyped
  <2>3. Read(fr, e.x).n \in 1..Len(field)
    BY <1>1, <2>2, ValuesOfTypes
  <2>4. field[Read(fr, e.x).n] \in Nat /\ Simple(fr, e) = Num(field[Read(fr, e.x).n])
    BY <1>5, <2>3 DEF Simple, StoreTyped
  <2> QED BY <1>1, <2>1, <2>4, NumbersTyped
<1> QED BY <1>2, <1>3, <1>4, <1>5 DEF SimpleKinds

-----------------------------------------------------------------------------
LEMMA PutTyped ==
  ASSUME NEW p, NEW f, NEW env, NEW n, EnvTyped(p, f, env, n),
         NEW x \in DOMAIN Local(p, f), NEW v, HasType(v, Local(p, f)[x], n)
  PROVE  EnvTyped(p, f, Put(env, x, v), n)
<1> SUFFICES ASSUME NEW y \in DOMAIN Put(env, x, v)
             PROVE  y \in DOMAIN Local(p, f) /\ HasType(Put(env, x, v)[y], Local(p, f)[y], n)
  BY DEF EnvTyped
<1>1. CASE y = x
  BY <1>1 DEF Put
<1>2. CASE y # x
  <2>1. y \in DOMAIN env /\ Put(env, x, v)[y] = env[y]
    BY <1>2 DEF Put
  <2> QED BY <2>1 DEF EnvTyped
<1> QED BY <1>1, <1>2

LEMMA PutKnown ==
  ASSUME NEW p, NEW f, NEW types, TypesKnown(p, f, types),
         NEW x \in DOMAIN Local(p, f), NEW t, Local(p, f)[x] = EventType(t)
  PROVE  TypesKnown(p, f, Put(types, x, t))
<1> SUFFICES ASSUME NEW y \in DOMAIN Put(types, x, t)
             PROVE  y \in DOMAIN Local(p, f) /\ Local(p, f)[y] = EventType(Put(types, x, t)[y])
  BY DEF TypesKnown
<1>1. CASE y = x
  BY <1>1 DEF Put
<1>2. CASE y # x
  <2>1. y \in DOMAIN types /\ Put(types, x, t)[y] = types[y]
    BY <1>2 DEF Put
  <2> QED BY <2>1 DEF TypesKnown
<1> QED BY <1>1, <1>2

LEMMA FrameFields ==
  \A f, s, code, env, types, saved :
    LET fr == Frame(f, s, code, env, types, saved) IN
    /\ fr.fn = f /\ fr.sector = s /\ fr.code = code /\ fr.env = env
    /\ fr.types = types /\ fr.saved = saved /\ IsFrame(fr)
  BY DEF Frame, IsFrame

LEMMA FrameUpdates ==
  ASSUME NEW fr, IsFrame(fr), NEW code, NEW env, NEW saved
  PROVE  /\ [fr EXCEPT !.code = code] = Frame(fr.fn, fr.sector, code, fr.env, fr.types, fr.saved)
         /\ [fr EXCEPT !.env = env] = Frame(fr.fn, fr.sector, fr.code, env, fr.types, fr.saved)
         /\ [fr EXCEPT !.saved = saved]
              = Frame(fr.fn, fr.sector, fr.code, fr.env, fr.types, saved)
<1> DEFINE f == fr.fn  s == fr.sector  c == fr.code  e == fr.env  t == fr.types  v == fr.saved
<1>1. fr = [fn |-> f, sector |-> s, code |-> c, env |-> e, types |-> t, saved |-> v]
  BY DEF Frame, IsFrame
<1> HIDE DEF f, s, c, e, t, v
<1>2. [fr EXCEPT !.code = code] = Frame(f, s, code, e, t, v)
  BY <1>1 DEF Frame
<1>3. [fr EXCEPT !.env = env] = Frame(f, s, c, env, t, v)
  BY <1>1 DEF Frame
<1>4. [fr EXCEPT !.saved = saved] = Frame(f, s, c, e, t, saved)
  BY <1>1 DEF Frame
<1> QED BY <1>2, <1>3, <1>4 DEF f, s, c, e, t, v

LEMMA PastFrame ==
  ASSUME NEW fr, IsFrame(fr)
  PROVE  /\ Past(fr) = Frame(fr.fn, fr.sector, Tail(fr.code), fr.env, fr.types, fr.saved)
         /\ IsFrame(Past(fr)) /\ Past(fr).fn = fr.fn /\ Past(fr).sector = fr.sector
         /\ Past(fr).code = Tail(fr.code) /\ Past(fr).env = fr.env /\ Past(fr).types = fr.types
         /\ Past(fr).saved = fr.saved
<1>1. Past(fr) = Frame(fr.fn, fr.sector, Tail(fr.code), fr.env, fr.types, fr.saved)
  <2>1. [fr EXCEPT !.code = Tail(fr.code)]
          = Frame(fr.fn, fr.sector, Tail(fr.code), fr.env, fr.types, fr.saved)
    BY FrameUpdates
  <2> QED BY <2>1 DEF Past
<1> QED BY <1>1, FrameFields

LEMMA PastUpdates ==
  ASSUME NEW fr, IsFrame(fr), NEW env, NEW types
  PROVE  /\ [Past(fr) EXCEPT !.env = env, !.types = types]
              = Frame(fr.fn, fr.sector, Tail(fr.code), env, types, fr.saved)
         /\ [Past(fr) EXCEPT !.env = env]
              = Frame(fr.fn, fr.sector, Tail(fr.code), env, fr.types, fr.saved)
<1>1. PICK gr : gr = Past(fr)
  OBVIOUS
<1>2. /\ IsFrame(gr) /\ gr.fn = fr.fn /\ gr.sector = fr.sector /\ gr.code = Tail(fr.code)
      /\ gr.env = fr.env /\ gr.types = fr.types /\ gr.saved = fr.saved
  BY <1>1, PastFrame
<1>3. [gr EXCEPT !.env = env, !.types = types]
        = Frame(gr.fn, gr.sector, gr.code, env, types, gr.saved)
  <2>1. [gr EXCEPT !.env = env, !.types = types] = [[gr EXCEPT !.env = env] EXCEPT !.types = types]
    OBVIOUS
  <2>2. [gr EXCEPT !.env = env] = Frame(gr.fn, gr.sector, gr.code, env, gr.types, gr.saved)
    BY <1>2, FrameUpdates
  <2>3. [Frame(gr.fn, gr.sector, gr.code, env, gr.types, gr.saved) EXCEPT !.types = types]
          = Frame(gr.fn, gr.sector, gr.code, env, types, gr.saved)
    BY DEF Frame
  <2> QED BY <2>1, <2>2, <2>3
<1>4. [gr EXCEPT !.env = env] = Frame(gr.fn, gr.sector, gr.code, env, gr.types, gr.saved)
  BY <1>2, FrameUpdates
<1> QED BY <1>1, <1>2, <1>3, <1>4

(* A frame moves to another point of its body.                               *)
LEMMA MovedFrame ==
  ASSUME NEW p, NEW fr, NEW n, FrameTyped(p, fr, n),
         NEW code, NEW env, NEW types, NEW saved, NEW B, NEW d,
         Point(B, d, code) \in Points(p, fr.fn), d = Len(saved), B \subseteq DOMAIN env,
         EnvTyped(p, fr.fn, env, n), TypesKnown(p, fr.fn, types),
         IsSeq(saved), \A k \in 1..Len(saved) : EnvTyped(p, fr.fn, saved[k], n)
  PROVE  FrameTyped(p, Frame(fr.fn, fr.sector, code, env, types, saved), n)
<1> DEFINE gr == Frame(fr.fn, fr.sector, code, env, types, saved)
<1>1. /\ gr.fn = fr.fn /\ gr.sector = fr.sector /\ gr.code = code /\ gr.env = env
      /\ gr.types = types /\ gr.saved = saved /\ IsFrame(gr)
  BY FrameFields
<1> HIDE DEF gr
<1>2. \E pt \in Points(p, gr.fn) : IsAt(gr, pt)
  BY <1>1 DEF Point, IsAt
<1>3. FrameTyped(p, gr, n)
  BY <1>1, <1>2 DEF FrameTyped
<1> QED BY <1>3 DEF gr

(* The statement at a point, and what follows it.                            *)
LEMMA FramePoint ==
  ASSUME NEW p \in Programs, NEW fr, NEW n, FrameTyped(p, fr, n)
  PROVE  \E pt \in Points(p, fr.fn) :
           /\ IsAt(fr, pt) /\ pt.bound \subseteq DOMAIN Local(p, fr.fn)
           /\ IF fr.code = << >> THEN fr.fn \in DOMAIN p.fns => Result(p)[fr.fn] = UnitType
              ELSE Accepted(p, fr.fn, pt.bound, Len(fr.saved), Head(fr.code))
           /\ After(p, fr.fn, pt) \subseteq Points(p, fr.fn)
<1>1. fr.fn \in BodyNames(p)
  BY DEF FrameTyped
<1>2. PICK pt \in Points(p, fr.fn) : IsAt(fr, pt)
  BY DEF FrameTyped
<1>3. pt.code = fr.code /\ pt.depth = Len(fr.saved)
  BY <1>2 DEF IsAt
<1> QED BY <1>1, <1>2, <1>3, PointFacts

(* A statement that sets a variable leaves the activation and the store      *)
(* typed if the value has every type its expression has.                     *)
LEMMA BoundTyped ==
  ASSUME prog \in Programs, StoreTyped, NEW fr, NEW m \in Nat, Len(field) <= m,
         FrameTyped(prog, fr, m), NEW pt \in Points(prog, fr.fn), IsAt(fr, pt),
         Accepted(prog, fr.fn, pt.bound, pt.depth, Head(fr.code)),
         After(prog, fr.fn, pt) \subseteq Points(prog, fr.fn),
         fr.code # << >>, Statement(Head(fr.code)), NEW v,
         \A ty : Typed(prog, fr.fn, pt.bound, Head(fr.code).e, ty) => HasType(v, ty, m)
  PROVE  LET st == Head(fr.code) IN
         /\ FrameTyped(prog, Bound(fr, st, v), m) /\ Bound(fr, st, v).fn = fr.fn
         /\ DOMAIN Stored(fr, st, v) = DOMAIN store
         /\ \A x \in DOMAIN store : HasType(Stored(fr, st, v)[x], SectorVar(prog)[x], m)
<1> DEFINE st == Head(fr.code)  B == pt.bound  d == pt.depth  rest == Tail(fr.code)
           f == fr.fn
<1>1. /\ IsFrame(fr) /\ f \in BodyNames(prog) /\ fr.sector = Home(prog, f)
      /\ EnvTyped(prog, f, fr.env, m) /\ TypesKnown(prog, f, fr.types)
      /\ IsSeq(fr.saved) /\ \A k \in 1..Len(fr.saved) : EnvTyped(prog, f, fr.saved[k], m)
  BY DEF FrameTyped
<1>2. pt.code = fr.code /\ d = Len(fr.saved) /\ B \subseteq DOMAIN fr.env
  BY DEF IsAt
<1>3. Len(field) \in Nat
  BY FieldLength
<1>4. \A x \in DOMAIN store : HasType(store[x], SectorVar(prog)[x], m)
  BY <1>3, HasTypeGrows DEF StoreTyped
<1>5. CASE st.op = "let"
  <2>1. Point(B \cup {st.x}, d, rest) \in Points(prog, f)
    BY <1>2, <1>5 DEF After
  <2>2. st.x \in DOMAIN Local(prog, f) /\ Typed(prog, f, B, st.e, Local(prog, f)[st.x])
    BY <1>5 DEF Accepted
  <2>3. EnvTyped(prog, f, Put(fr.env, st.x, v), m) /\ B \cup {st.x} \subseteq DOMAIN Put(fr.env, st.x, v)
    <3>1. HasType(v, Local(prog, f)[st.x], m)
      BY <2>2
    <3>2. EnvTyped(prog, f, Put(fr.env, st.x, v), m)
      BY <1>1, <2>2, <3>1, PutTyped
    <3> QED BY <1>2, <3>2 DEF Put
  <2> DEFINE types == IF st.e.k = "await" THEN Put(fr.types, st.x, st.e.t) ELSE fr.types
  <2>4. TypesKnown(prog, f, types)
    <3>1. CASE st.e.k = "await"
      <4>1. Local(prog, f)[st.x] = EventType(st.e.t)
        BY <2>2, <3>1 DEF Typed, CallKinds
      <4> QED BY <1>1, <2>2, <3>1, <4>1, PutKnown
    <3> QED BY <1>1, <3>1
  <2>5. Bound(fr, st, v) = Frame(f, fr.sector, rest, Put(fr.env, st.x, v), types, fr.saved)
    <3>1. /\ IsFrame(Past(fr)) /\ Past(fr).fn = f /\ Past(fr).sector = fr.sector
          /\ Past(fr).code = rest /\ Past(fr).env = fr.env /\ Past(fr).types = fr.types
          /\ Past(fr).saved = fr.saved
      BY <1>1, PastFrame
    <3>2. Bound(fr, st, v) =
            [Past(fr) EXCEPT !.env = Put(Past(fr).env, st.x, v),
                             !.types = IF st.e.k = "await" THEN Put(Past(fr).types, st.x, st.e.t)
                                                           ELSE Past(fr).types]
      BY <1>5 DEF Bound
    <3>3. Bound(fr, st, v) = [Past(fr) EXCEPT !.env = Put(fr.env, st.x, v), !.types = types]
      BY <3>1, <3>2
    <3> HIDE DEF types
    <3> QED BY <1>1, <3>3, PastUpdates
  <2>6. FrameTyped(prog, Bound(fr, st, v), m)
    BY <1>1, <1>2, <2>1, <2>3, <2>4, <2>5, MovedFrame
  <2>7. Bound(fr, st, v).fn = f
    BY <2>5, FrameFields
  <2>8. Stored(fr, st, v) = store
    BY <1>5 DEF Stored
  <2> QED BY <1>4, <2>6, <2>7, <2>8
<1>6. CASE st.op = "set"
  <2>1. Point(B \cup ({st.x} \ SectorVars(prog, f)), d, rest) \in Points(prog, f)
    BY <1>2, <1>6 DEF After
  <2>2. /\ st.x \in DOMAIN Local(prog, f) \cup SectorVars(prog, f)
        /\ Typed(prog, f, B, st.e, TypeOf(prog, f, st.x))
    BY <1>6 DEF Accepted
  <2>3. Mine(fr, st.x) <=> st.x \notin DOMAIN fr.env /\ st.x \in SectorVars(prog, f)
    BY <1>1, SectorVarsHere
  <2>4. HasType(v, TypeOf(prog, f, st.x), m)
    BY <2>2
  <2>5. CASE Mine(fr, st.x)
    <3>1. Bound(fr, st, v) = Frame(f, fr.sector, rest, fr.env, fr.types, fr.saved)
      BY <1>1, <1>6, <2>5, PastFrame DEF Bound
    <3>2. FrameTyped(prog, Bound(fr, st, v), m)
      BY <1>1, <1>2, <2>1, <2>3, <2>5, <3>1, MovedFrame
    <3>3. Stored(fr, st, v) = [store EXCEPT ![st.x] = v]
      BY <1>6, <2>5 DEF Stored
    <3>4. st.x \notin DOMAIN Local(prog, f)
      BY <1>1, <2>3, <2>5, NamesDiffer
    <3>5. HasType(v, SectorVar(prog)[st.x], m)
      BY <2>4, <3>4 DEF TypeOf
    <3> QED BY <1>4, <3>1, <3>2, <3>3, <3>5, FrameFields
  <2>6. CASE ~Mine(fr, st.x)
    <3>1. Bound(fr, st, v) = Frame(f, fr.sector, rest, Put(fr.env, st.x, v), fr.types, fr.saved)
      <4>1. /\ IsFrame(Past(fr)) /\ Past(fr).fn = f /\ Past(fr).sector = fr.sector
            /\ Past(fr).code = rest /\ Past(fr).env = fr.env /\ Past(fr).types = fr.types
            /\ Past(fr).saved = fr.saved
        BY <1>1, PastFrame
      <4>2. Bound(fr, st, v) = [Past(fr) EXCEPT !.env = Put(fr.env, st.x, v)]
        BY <1>6, <2>6, <4>1 DEF Bound
      <4> QED BY <1>1, <4>2, PastUpdates
    <3>2. st.x \in DOMAIN Local(prog, f)
      BY <1>1, <2>2, <2>3, <2>6 DEF EnvTyped
    <3>3. /\ EnvTyped(prog, f, Put(fr.env, st.x, v), m)
          /\ B \cup ({st.x} \ SectorVars(prog, f)) \subseteq DOMAIN Put(fr.env, st.x, v)
      <4>1. HasType(v, Local(prog, f)[st.x], m)
        BY <2>4, <3>2 DEF TypeOf
      <4>2. EnvTyped(prog, f, Put(fr.env, st.x, v), m)
        BY <1>1, <3>2, <4>1, PutTyped
      <4> QED BY <1>2, <4>2 DEF Put
    <3>4. FrameTyped(prog, Bound(fr, st, v), m)
      BY <1>1, <1>2, <2>1, <3>1, <3>3, MovedFrame
    <3>5. Stored(fr, st, v) = store
      BY <2>6 DEF Stored
    <3> QED BY <1>4, <3>1, <3>4, <3>5, FrameFields
  <2> QED BY <2>5, <2>6
<1>7. CASE st.op = "expr"
  <2>1. Point(B, d, rest) \in Points(prog, f)
    BY <1>2, <1>7 DEF After
  <2>2. Bound(fr, st, v) = Frame(f, fr.sector, rest, fr.env, fr.types, fr.saved)
    BY <1>1, <1>7, PastFrame DEF Bound
  <2>3. FrameTyped(prog, Bound(fr, st, v), m)
    BY <1>1, <1>2, <2>1, <2>2, MovedFrame
  <2>4. Stored(fr, st, v) = store
    BY <1>7 DEF Stored
  <2> QED BY <1>4, <2>2, <2>3, <2>4, FrameFields
<1> QED BY <1>5, <1>6, <1>7 DEF Statement

-----------------------------------------------------------------------------
LEMMA LoopInvStep == LoopInv /\ [Next]_vars => LoopInv'
  BY NextType, OnePlaceStep, QueueTypedStep, AnswerStep DEF LoopInv

LEMMA HeadIsLive ==
  ASSUME TypeOK, OnePlace, NEW i \in Task, IsHead(i)
  PROVE  handlerOf[i] # None /\ \A t \in Types : i \notin Range(waiting[t])
<1>1. i \in Range(runnable)
  BY HeadInRange DEF TypeOK, IsHead
<1> QED BY <1>1 DEF OnePlace

(* The task whose generator runs.                                            *)
LEMMA RunningTask ==
  ASSUME ProgramInv, NEW i \in Task, turn = i
  PROVE  /\ IsHead(i) /\ status = "running" /\ prog \in Programs /\ Len(field) \in Nat
         /\ frames[i] # << >> /\ StackTyped(prog, frames[i], Len(field))
         /\ FrameTyped(prog, Top(i), Len(field))
         /\ Len(frames[i]) \in Nat \ {0}
         /\ Len(frames[i]) > 1 => Top(i).fn \notin DOMAIN prog.handlers
<1>1. i # None
  BY SectorTaskAssumption
<1>2. IsHead(i) /\ prog \in Programs
  BY <1>1 DEF ProgramInv, TurnOK
<1>3. handlerOf[i] # None
  BY <1>2, HeadIsLive DEF ProgramInv, LoopInv
<1>4. frames[i] # << >> /\ StackTyped(prog, frames[i], Len(field))
  BY <1>3 DEF ProgramInv, StacksTyped
<1>5. Len(field) \in Nat
  BY FieldLength DEF ProgramInv
<1> QED BY <1>2, <1>4, <1>5, TopTyped DEF Top, IsHead

LEMMA TypedEventsKept == EventsTyped /\ UNCHANGED <<queue, pendingSend>> => EventsTyped'
  BY DEF EventsTyped

(* A turn that goes on: only the stack of the running task changes, and the  *)
(* variables of its program.                                                 *)
LEMMA TurnGoesOn ==
  ASSUME ProgramInv, NEW i \in Task, turn \in {i, None}, turn' = i, IsHead(i),
         UNCHANGED <<vars, prog, raised>>,
         NEW gs, frames' = [frames EXCEPT ![i] = gs], gs # << >>,
         field' \in Seq(Nat), Len(field) <= Len(field'),
         StackTyped(prog, gs, Len(field')),
         DOMAIN store' = DOMAIN store,
         \A x \in DOMAIN store : HasType(store'[x], SectorVar(prog)[x], Len(field'))
  PROVE  ProgramInv'
<1>1. LoopInv'
  BY LoopInvStep DEF ProgramInv
<1>2. TurnOK'
  BY DEF ProgramInv, TurnOK, vars, IsHead
<1>3. StoreTyped'
  BY DEF ProgramInv, StoreTyped
<1>4. EventsTyped'
  BY TypedEventsKept DEF ProgramInv, vars
<1>5. StacksTyped'
  <2>1. handlerOf[i] # None
    BY HeadIsLive DEF ProgramInv, LoopInv
  <2>2. Len(field) \in Nat /\ Len(field') \in Nat
    BY FieldLength DEF ProgramInv
  <2>3. ASSUME NEW j \in Task
        PROVE  /\ StackTyped(prog, frames'[j], Len(field'))
               /\ frames'[j] # << >> <=> handlerOf[j] # None
               /\ awaited[j] # None /\ turn' # j => AwaitsIn(frames'[j], awaited[j])
    <3>1. CASE j = i
      BY <2>1, <3>1 DEF ProgramInv, StacksTyped
    <3>2. CASE j # i
      <4>1. frames'[j] = frames[j]
        BY <3>2
      <4>2. /\ StackTyped(prog, frames[j], Len(field))
            /\ frames[j] # << >> <=> handlerOf[j] # None
            /\ awaited[j] # None /\ turn # j => AwaitsIn(frames[j], awaited[j])
        BY DEF ProgramInv, StacksTyped
      <4>3. turn # j
        BY <3>2, SectorTaskAssumption
      <4> QED BY <2>2, <4>1, <4>2, <4>3, StackGrows
    <3> QED BY <3>1, <3>2
  <2>4. DOMAIN frames' = Task
    BY DEF ProgramInv, StacksTyped
  <2> QED BY <2>3, <2>4 DEF StacksTyped, vars
<1> QED BY <1>1, <1>2, <1>3, <1>4, <1>5 DEF ProgramInv

LEMMA GoesOn ==
  ASSUME ProgramInv, NEW i \in Task, turn = i, NEW fr, FrameTyped(prog, fr, Len(field)),
         fr.fn = Top(i).fn, Goto(i, fr), Inside, UNCHANGED store,
         field' \in Seq(Nat), Len(field) = Len(field')
  PROVE  ProgramInv'
<1> DEFINE gs == << fr >> \o Tail(frames[i])
<1>1. StackTyped(prog, gs, Len(field)) /\ gs # << >> /\ IsHead(i)
  BY RunningTask, ReplaceTop DEF Top
<1>2. frames' = [frames EXCEPT ![i] = gs]
  BY DEF Goto
<1>3. UNCHANGED <<vars, prog, raised>> /\ turn' = i
  BY DEF Inside
<1>4. \A x \in DOMAIN store : HasType(store'[x], SectorVar(prog)[x], Len(field'))
  BY DEF ProgramInv, StoreTyped
<1> HIDE DEF gs
<1>5. Len(field) <= Len(field') /\ StackTyped(prog, gs, Len(field'))
  BY <1>1, FieldLength DEF ProgramInv
<1> QED BY <1>1, <1>2, <1>3, <1>4, <1>5, TurnGoesOn

(* The value v is of the type of the expression that the activation fr is at *)
(* when n records exist.                                                     *)
ValueFor(fr, v, n) ==
  \A pt \in Points(prog, fr.fn) : IsAt(fr, pt) =>
    \A ty : Typed(prog, fr.fn, pt.bound, Head(fr.code).e, ty) => HasType(v, ty, n)

LEMMA Delivered ==
  ASSUME ProgramInv, NEW i \in Task, turn \in {i, None}, turn' = i, IsHead(i),
         UNCHANGED <<vars, prog, raised>>,
         field' \in Seq(Nat), Len(field) <= Len(field'),
         NEW fs, StackTyped(prog, fs, Len(field)), fs # << >>,
         Head(fs).code # << >>, Statement(Head(Head(fs).code)),
         NEW v, ValueFor(Head(fs), v, Len(field')), Deliver(i, fs, v)
  PROVE  ProgramInv'
<1> DEFINE fr == Head(fs)  st == Head(fr.code)  m == Len(field')
           gr == Bound(fr, st, v)  gs == << gr >> \o Tail(fs)
<1>1. frames' = [frames EXCEPT ![i] = gs] /\ store' = Stored(fr, st, v)
  BY DEF Deliver
<1>2. prog \in Programs /\ StoreTyped /\ Len(field) \in Nat /\ m \in Nat
  BY FieldLength DEF ProgramInv, TurnOK
<1>3. StackTyped(prog, fs, m)
  BY <1>2, StackGrows
<1>4. FrameTyped(prog, fr, m)
  BY <1>3, TopTyped
<1>5. PICK pt \in Points(prog, fr.fn) :
        /\ IsAt(fr, pt) /\ Accepted(prog, fr.fn, pt.bound, Len(fr.saved), st)
        /\ After(prog, fr.fn, pt) \subseteq Points(prog, fr.fn)
  BY <1>2, <1>4, FramePoint
<1>6. Accepted(prog, fr.fn, pt.bound, pt.depth, st)
  BY <1>5 DEF IsAt
<1>7. \A ty : Typed(prog, fr.fn, pt.bound, st.e, ty) => HasType(v, ty, m)
  BY <1>5 DEF ValueFor
<1>8. /\ FrameTyped(prog, gr, m) /\ gr.fn = fr.fn
      /\ DOMAIN store' = DOMAIN store
      /\ \A x \in DOMAIN store : HasType(store'[x], SectorVar(prog)[x], m)
  BY <1>1, <1>2, <1>4, <1>5, <1>6, <1>7, BoundTyped
<1> HIDE DEF gr
<1>9. StackTyped(prog, gs, m) /\ gs # << >>
  BY <1>3, <1>8, ReplaceTop
<1> HIDE DEF gs
<1> QED BY <1>1, <1>8, <1>9, TurnGoesOn

-----------------------------------------------------------------------------
(* The statements of a turn, one lemma per action.                           *)
LEMMA ComputeStep == ASSUME ProgramInv, NEW i \in Task, Compute(i) PROVE ProgramInv'
<1> DEFINE fs == frames[i]  fr == Head(fs)  st == Head(fr.code)  v == Simple(fr, st.e)
<1>1. /\ turn = i /\ fr.code # << >> /\ Statement(st) /\ st.e.k \in SimpleKinds
      /\ Deliver(i, fs, v) /\ turn' = turn /\ field' = field
      /\ UNCHANGED <<vars, prog, raised>>
  BY DEF Compute, Eval, At, Here, Top, Statement, SimpleKinds, Inside
<1>2. /\ IsHead(i) /\ prog \in Programs /\ Len(field) \in Nat /\ fs # << >>
      /\ StackTyped(prog, fs, Len(field)) /\ FrameTyped(prog, fr, Len(field))
  BY <1>1, RunningTask DEF Top
<1>3. ValueFor(fr, v, Len(field))
  BY <1>1, <1>2, SimpleTyped DEF ValueFor, IsAt, ProgramInv
<1>4. field' \in Seq(Nat) /\ Len(field) <= Len(field')
  BY <1>1, <1>2 DEF ProgramInv, StoreTyped
<1> HIDE DEF v
<1> QED BY <1>1, <1>2, <1>3, <1>4, Delivered

LEMMA CreateStep == ASSUME ProgramInv, NEW i \in Task, Create(i) PROVE ProgramInv'
<1> DEFINE fs == frames[i]  fr == Head(fs)  st == Head(fr.code)  v == Rec(Len(field) + 1)
<1>1. /\ turn = i /\ fr.code # << >> /\ Statement(st) /\ st.e.k = "record"
      /\ Deliver(i, fs, v) /\ turn' = turn /\ field' = Append(field, st.e.n)
      /\ UNCHANGED <<vars, prog, raised>>
  BY DEF Create, Eval, At, Here, Top, Statement, Inside
<1>2. /\ IsHead(i) /\ prog \in Programs /\ Len(field) \in Nat /\ fs # << >>
      /\ StackTyped(prog, fs, Len(field)) /\ FrameTyped(prog, fr, Len(field))
  BY <1>1, RunningTask DEF Top
<1>3. st.e.n \in Nat
  <2>1. PICK pt \in Points(prog, fr.fn) : Accepted(prog, fr.fn, pt.bound, Len(fr.saved), st)
    BY <1>1, <1>2, FramePoint
  <2>2. \E ty : Typed(prog, fr.fn, pt.bound, st.e, ty)
    BY <1>1, <2>1 DEF Accepted, Statement, HasSomeType
  <2> QED BY <1>1, <2>2 DEF Typed, CallKinds
<1>4. field' \in Seq(Nat) /\ Len(field') = Len(field) + 1
  BY <1>1, <1>3 DEF ProgramInv, StoreTyped
<1>5. HasType(v, RecordType, Len(field'))
  BY <1>2, <1>4, RecordsTyped
<1>6. ValueFor(fr, v, Len(field'))
  BY <1>1, <1>5 DEF ValueFor, Typed, CallKinds
<1>7. Len(field) <= Len(field')
  BY <1>2, <1>4
<1> HIDE DEF v
<1> QED BY <1>1, <1>2, <1>4, <1>6, <1>7, Delivered

(* A step to another point of the body that binds nothing.                   *)
LEMMA MovesOn ==
  ASSUME ProgramInv, NEW i \in Task, turn = i, NEW code, Top(i).code # << >>,
         \A pt \in Points(prog, Top(i).fn) :
           pt.code = Top(i).code =>
             Point(pt.bound, pt.depth, code) \in After(prog, Top(i).fn, pt),
         Goto(i, [Top(i) EXCEPT !.code = code]), Inside, UNCHANGED store,
         field' \in Seq(Nat), Len(field) = Len(field')
  PROVE  ProgramInv'
<1> DEFINE fr == Top(i)
<1>1. prog \in Programs /\ FrameTyped(prog, fr, Len(field))
  BY RunningTask
<1>2. PICK pt \in Points(prog, fr.fn) :
        IsAt(fr, pt) /\ After(prog, fr.fn, pt) \subseteq Points(prog, fr.fn)
  BY <1>1, FramePoint
<1>3. /\ Point(pt.bound, pt.depth, code) \in Points(prog, fr.fn)
      /\ pt.depth = Len(fr.saved) /\ pt.bound \subseteq DOMAIN fr.env
  BY <1>2 DEF IsAt
<1>4. /\ IsFrame(fr) /\ EnvTyped(prog, fr.fn, fr.env, Len(field))
      /\ TypesKnown(prog, fr.fn, fr.types) /\ IsSeq(fr.saved)
      /\ \A k \in 1..Len(fr.saved) : EnvTyped(prog, fr.fn, fr.saved[k], Len(field))
  BY <1>1 DEF FrameTyped
<1> DEFINE gr == Frame(fr.fn, fr.sector, code, fr.env, fr.types, fr.saved)
<1>5. FrameTyped(prog, gr, Len(field)) /\ gr.fn = fr.fn
  <2>1. FrameTyped(prog, gr, Len(field))
    BY <1>1, <1>3, <1>4, MovedFrame
  <2>2. gr.fn = fr.fn
    BY FrameFields
  <2> QED BY <2>1, <2>2
<1>6. [fr EXCEPT !.code = code] = gr
  BY <1>4, FrameUpdates
<1>7. Goto(i, gr)
  BY <1>6
<1> HIDE DEF gr
<1> QED BY <1>5, <1>7, GoesOn

LEMMA AssignFieldStep == ASSUME ProgramInv, NEW i \in Task, AssignField(i) PROVE ProgramInv'
<1> DEFINE fr == Top(i)  st == Head(fr.code)
<1>1. /\ turn = i /\ fr.code # << >> /\ st.op = "setfield" /\ Inside /\ UNCHANGED store
      /\ Goto(i, [fr EXCEPT !.code = Tail(fr.code)])
      /\ field' = [field EXCEPT ![Read(fr, st.x).n] = st.n]
  BY DEF AssignField, At, Here, Past
<1>2. prog \in Programs /\ FrameTyped(prog, fr, Len(field)) /\ Len(field) \in Nat
  BY <1>1, RunningTask
<1>3. PICK pt \in Points(prog, fr.fn) :
        IsAt(fr, pt) /\ Accepted(prog, fr.fn, pt.bound, Len(fr.saved), st)
  BY <1>1, <1>2, FramePoint
<1>4. Variable(prog, fr.fn, pt.bound, st.x, RecordType) /\ st.n \in Nat
  BY <1>1, <1>3 DEF Accepted
<1>5. HasType(Read(fr, st.x), RecordType, Len(field))
  BY <1>2, <1>3, <1>4, ReadTyped DEF IsAt, ProgramInv
<1>6. Read(fr, st.x).n \in 1..Len(field)
  BY <1>2, <1>5, ValuesOfTypes
<1>7. field' \in Seq(Nat) /\ Len(field) = Len(field')
  BY <1>1, <1>4, <1>6 DEF ProgramInv, StoreTyped
<1>8. ASSUME NEW q \in Points(prog, fr.fn), q.code = fr.code
      PROVE  Point(q.bound, q.depth, Tail(fr.code)) \in After(prog, fr.fn, q)
  BY <1>1, <1>8 DEF After
<1> QED BY <1>1, <1>7, <1>8, MovesOn

LEMMA FieldKept == ProgramInv /\ UNCHANGED field => field' \in Seq(Nat) /\ Len(field) = Len(field')
  BY DEF ProgramInv, StoreTyped

LEMMA IfStep == ASSUME ProgramInv, NEW i \in Task, IfStmt(i) PROVE ProgramInv'
<1> DEFINE fr == Top(i)  st == Head(fr.code)  c == Simple(fr, st.e)
           code == (IF c.n # 0 THEN st.then ELSE st.else) \o Tail(fr.code)
<1>1. /\ turn = i /\ fr.code # << >> /\ st.op = "if" /\ Inside /\ UNCHANGED <<store, field>>
      /\ Goto(i, [fr EXCEPT !.code = code])
  BY DEF IfStmt, At, Here
<1>2. code = st.then \o Tail(fr.code) \/ code = st.else \o Tail(fr.code)
  OBVIOUS
<1> HIDE DEF code
<1>3. ASSUME NEW q \in Points(prog, fr.fn), q.code = fr.code
      PROVE  Point(q.bound, q.depth, code) \in After(prog, fr.fn, q)
  BY <1>1, <1>2, <1>3 DEF After
<1> QED BY <1>1, <1>3, FieldKept, MovesOn

LEMMA YieldStep == ASSUME ProgramInv, NEW i \in Task, YieldStmt(i) PROVE ProgramInv'
<1> DEFINE fr == Top(i)  st == Head(fr.code)
<1>1. /\ turn = i /\ fr.code # << >> /\ st.op = "yield" /\ Inside /\ UNCHANGED <<store, field>>
      /\ Goto(i, [fr EXCEPT !.code = Tail(fr.code)])
  BY DEF YieldStmt, At, Here, Past
<1>2. ASSUME NEW q \in Points(prog, fr.fn), q.code = fr.code
      PROVE  Point(q.bound, q.depth, Tail(fr.code)) \in After(prog, fr.fn, q)
  BY <1>1, <1>2 DEF After
<1> QED BY <1>1, <1>2, FieldKept, MovesOn

(* A step to another point of the body that binds variables.                 *)
LEMMA MovesTo ==
  ASSUME ProgramInv, NEW i \in Task, turn = i, NEW code, NEW env, NEW saved, NEW B, NEW d,
         Point(B, d, code) \in Points(prog, Top(i).fn), d = Len(saved), B \subseteq DOMAIN env,
         EnvTyped(prog, Top(i).fn, env, Len(field)),
         IsSeq(saved), \A k \in 1..Len(saved) : EnvTyped(prog, Top(i).fn, saved[k], Len(field)),
         Goto(i, Frame(Top(i).fn, Top(i).sector, code, env, Top(i).types, saved)),
         Inside, UNCHANGED <<store, field>>
  PROVE  ProgramInv'
<1> DEFINE fr == Top(i)  gr == Frame(fr.fn, fr.sector, code, env, fr.types, saved)
<1>1. FrameTyped(prog, fr, Len(field))
  BY RunningTask
<1>2. TypesKnown(prog, fr.fn, fr.types)
  BY <1>1 DEF FrameTyped
<1>3. FrameTyped(prog, gr, Len(field))
  BY <1>1, <1>2, MovedFrame
<1>4. gr.fn = fr.fn
  BY FrameFields
<1> HIDE DEF gr
<1>5. Goto(i, gr)
  BY DEF gr
<1> QED BY <1>3, <1>4, <1>5, FieldKept, GoesOn

(* What is known of the running activation.                                  *)
LEMMA RunningFrame ==
  ASSUME ProgramInv, NEW i \in Task, turn = i
  PROVE  LET fr == Top(i) IN
         /\ prog \in Programs /\ Len(field) \in Nat /\ IsFrame(fr) /\ fr.fn \in BodyNames(prog)
         /\ fr.sector = Home(prog, fr.fn)
         /\ EnvTyped(prog, fr.fn, fr.env, Len(field)) /\ TypesKnown(prog, fr.fn, fr.types)
         /\ IsSeq(fr.saved)
         /\ \A k \in 1..Len(fr.saved) : EnvTyped(prog, fr.fn, fr.saved[k], Len(field))
         /\ \E pt \in Points(prog, fr.fn) :
              /\ pt.code = fr.code /\ pt.depth = Len(fr.saved) /\ pt.bound \subseteq DOMAIN fr.env
              /\ pt.bound \subseteq DOMAIN Local(prog, fr.fn) /\ pt.depth \in Nat
              /\ IF fr.code = << >> THEN fr.fn \in DOMAIN prog.fns => Result(prog)[fr.fn] = UnitType
                 ELSE Accepted(prog, fr.fn, pt.bound, pt.depth, Head(fr.code))
              /\ After(prog, fr.fn, pt) \subseteq Points(prog, fr.fn)
<1> DEFINE fr == Top(i)
<1>1. FrameTyped(prog, fr, Len(field)) /\ prog \in Programs /\ Len(field) \in Nat
  BY RunningTask
<1>2. PICK pt \in Points(prog, fr.fn) : IsAt(fr, pt)
  BY <1>1 DEF FrameTyped
<1>3. fr.fn \in BodyNames(prog)
  BY <1>1 DEF FrameTyped
<1>4. pt.code = fr.code /\ pt.depth = Len(fr.saved) /\ pt.bound \subseteq DOMAIN fr.env
  BY <1>2 DEF IsAt
<1> QED BY <1>1, <1>3, <1>4, PointFacts DEF FrameTyped

LEMMA EnvCodeUpdate ==
  ASSUME NEW fr, IsFrame(fr), NEW code, NEW env
  PROVE  [fr EXCEPT !.env = env, !.code = code]
           = Frame(fr.fn, fr.sector, code, env, fr.types, fr.saved)
<1> DEFINE f == fr.fn  s == fr.sector  c == fr.code  t == fr.types  v == fr.saved
<1>1. [fr EXCEPT !.env = env] = Frame(f, s, c, env, t, v)
  BY FrameUpdates
<1> HIDE DEF f, s, c, t, v
<1>2. [Frame(f, s, c, env, t, v) EXCEPT !.code = code] = Frame(f, s, code, env, t, v)
  BY DEF Frame
<1>3. [fr EXCEPT !.env = env, !.code = code] = [[fr EXCEPT !.env = env] EXCEPT !.code = code]
  OBVIOUS
<1>4. [fr EXCEPT !.env = env, !.code = code] = Frame(f, s, code, env, t, v)
  BY <1>1, <1>2, <1>3
<1> QED BY <1>4 DEF f, s, c, t, v

(* The activation fr at the beginning of the arm that a match has chosen.    *)
InArm(fr, env, saved, code) == [fr EXCEPT !.env = env, !.saved = saved, !.code = code]
LEMMA MatchUpdate ==
  ASSUME NEW fr, IsFrame(fr), NEW code, NEW env, NEW saved
  PROVE  InArm(fr, env, saved, code)
           = Frame(fr.fn, fr.sector, code, env, fr.types, saved)
<1> DEFINE f == fr.fn  s == fr.sector  c == fr.code  t == fr.types  v == fr.saved
<1>1. [fr EXCEPT !.env = env] = Frame(f, s, c, env, t, v)
  BY FrameUpdates
<1> HIDE DEF f, s, c, t, v
<1>2. [Frame(f, s, c, env, t, v) EXCEPT !.saved = saved] = Frame(f, s, c, env, t, saved)
  BY DEF Frame
<1>3. [Frame(f, s, c, env, t, saved) EXCEPT !.code = code] = Frame(f, s, code, env, t, saved)
  BY DEF Frame
<1>4. [fr EXCEPT !.env = env, !.saved = saved, !.code = code]
        = [[[fr EXCEPT !.env = env] EXCEPT !.saved = saved] EXCEPT !.code = code]
  OBVIOUS
<1>5. [fr EXCEPT !.env = env, !.saved = saved, !.code = code] = Frame(f, s, code, env, t, saved)
  BY <1>1, <1>2, <1>3, <1>4
<1> QED BY <1>5 DEF InArm, f, s, c, t, v

LEMMA RestoreUpdate ==
  ASSUME NEW fr, IsFrame(fr), NEW env, NEW saved
  PROVE  [Past(fr) EXCEPT !.saved = saved, !.env = env]
           = Frame(fr.fn, fr.sector, Tail(fr.code), env, fr.types, saved)
<1> DEFINE f == fr.fn  s == fr.sector  c == Tail(fr.code)  e == fr.env  t == fr.types
           v == fr.saved
<1>1. Past(fr) = Frame(f, s, c, e, t, v)
  BY PastFrame
<1> HIDE DEF f, s, c, e, t, v
<1>2. [Frame(f, s, c, e, t, v) EXCEPT !.saved = saved] = Frame(f, s, c, e, t, saved)
  BY DEF Frame
<1>3. [Frame(f, s, c, e, t, saved) EXCEPT !.env = env] = Frame(f, s, c, env, t, saved)
  BY DEF Frame
<1>4. [Past(fr) EXCEPT !.saved = saved, !.env = env]
        = [[Past(fr) EXCEPT !.saved = saved] EXCEPT !.env = env]
  OBVIOUS
<1>5. [Past(fr) EXCEPT !.saved = saved, !.env = env] = Frame(f, s, c, env, t, saved)
  BY <1>1, <1>2, <1>3, <1>4
<1> QED BY <1>5 DEF f, s, c, e, t, v

LEMMA ForStep == ASSUME ProgramInv, NEW i \in Task, ForStmt(i) PROVE ProgramInv'
<1> DEFINE fr == Top(i)  st == Head(fr.code)
<1>1. turn = i /\ fr.code # << >> /\ st.op = "for" /\ Inside /\ UNCHANGED <<store, field>>
  BY DEF ForStmt, At, Here
<1>2. CASE st.xs = << >>
  <2>1. Goto(i, [fr EXCEPT !.code = Tail(fr.code)])
    BY <1>2 DEF ForStmt, Here, Past
  <2>2. ASSUME NEW q \in Points(prog, fr.fn), q.code = fr.code
        PROVE  Point(q.bound, q.depth, Tail(fr.code)) \in After(prog, fr.fn, q)
    BY <1>1, <1>2, <2>2 DEF After
  <2> QED BY <1>1, <2>1, <2>2, FieldKept, MovesOn
<1>3. CASE st.xs # << >>
  <2> DEFINE code == st.body \o << [st EXCEPT !.xs = Tail(@)] >> \o Tail(fr.code)
             env == Put(fr.env, st.x, Head(st.xs))
  <2>1. Goto(i, [fr EXCEPT !.env = env, !.code = code])
    BY <1>3 DEF ForStmt, Here
  <2>2. /\ prog \in Programs /\ Len(field) \in Nat /\ IsFrame(fr)
        /\ EnvTyped(prog, fr.fn, fr.env, Len(field))
        /\ IsSeq(fr.saved)
        /\ \A k \in 1..Len(fr.saved) : EnvTyped(prog, fr.fn, fr.saved[k], Len(field))
    BY <1>1, RunningFrame
  <2>3. PICK pt \in Points(prog, fr.fn) :
          /\ pt.code = fr.code /\ pt.depth = Len(fr.saved) /\ pt.bound \subseteq DOMAIN fr.env
          /\ Accepted(prog, fr.fn, pt.bound, pt.depth, st)
          /\ After(prog, fr.fn, pt) \subseteq Points(prog, fr.fn)
    BY <1>1, RunningFrame
  <2>4. Point(pt.bound \cup {st.x}, pt.depth, code) \in Points(prog, fr.fn)
    BY <1>1, <1>3, <2>3 DEF After
  <2>5. /\ st.x \in DOMAIN Local(prog, fr.fn) /\ st.xs \in Seq(Range(st.xs))
        /\ \A v \in Range(st.xs) : HasType(v, Local(prog, fr.fn)[st.x], 0)
    BY <1>1, <2>3 DEF Accepted
  <2>6. Head(st.xs) \in Range(st.xs)
    BY <1>3, <2>5, HeadInRange
  <2>7. HasType(Head(st.xs), Local(prog, fr.fn)[st.x], Len(field))
    BY <2>2, <2>5, <2>6, HasTypeGrows
  <2>8. EnvTyped(prog, fr.fn, env, Len(field))
    BY <2>2, <2>5, <2>7, PutTyped
  <2>9. pt.bound \cup {st.x} \subseteq DOMAIN env
    BY <2>3 DEF Put
  <2> HIDE DEF code, env
  <2>10. [fr EXCEPT !.env = env, !.code = code]
           = Frame(fr.fn, fr.sector, code, env, fr.types, fr.saved)
    BY <2>2, EnvCodeUpdate
  <2>11. Goto(i, Frame(fr.fn, fr.sector, code, env, fr.types, fr.saved))
    BY <2>1, <2>10
  <2> QED BY <1>1, <2>2, <2>3, <2>4, <2>8, <2>9, <2>11, MovesTo
<1> QED BY <1>2, <1>3

(* A match keeps what the variable of the arm was before.                    *)
LEMMA MatchStep == ASSUME ProgramInv, NEW i \in Task, MatchStmt(i) PROVE ProgramInv'
<1> DEFINE fr == Top(i)  st == Head(fr.code)  v == Read(fr, st.x)
<1>1. turn = i /\ fr.code # << >> /\ st.op = "match" /\ Inside /\ UNCHANGED <<store, field>>
  BY DEF MatchStmt, At, Here
<1>2. PICK k \in DOMAIN st.arms :
        Goto(i, [fr EXCEPT
          !.env = IF st.arms[k].x = None THEN fr.env ELSE Put(fr.env, st.arms[k].x, v),
          !.saved = << [y \in DOMAIN fr.env \cap {st.arms[k].x} |-> fr.env[y]] >> \o fr.saved,
          !.code = st.arms[k].body \o << [op |-> "restore", x |-> st.arms[k].x] >> \o Tail(fr.code)])
  BY DEF MatchStmt, Here
<1> DEFINE arm == st.arms[k]
           prev == [y \in DOMAIN fr.env \cap {arm.x} |-> fr.env[y]]
           env == IF arm.x = None THEN fr.env ELSE Put(fr.env, arm.x, v)
           saved == << prev >> \o fr.saved
           code == arm.body \o << [op |-> "restore", x |-> arm.x] >> \o Tail(fr.code)
<1>3. Goto(i, InArm(fr, env, saved, code))
  BY <1>2 DEF InArm
<1>4. arm \in Range(st.arms)
  BY DEF Range
<1>5. /\ prog \in Programs /\ Len(field) \in Nat /\ IsFrame(fr)
      /\ EnvTyped(prog, fr.fn, fr.env, Len(field)) /\ IsSeq(fr.saved)
      /\ \A l \in 1..Len(fr.saved) : EnvTyped(prog, fr.fn, fr.saved[l], Len(field))
      /\ FrameTyped(prog, fr, Len(field)) /\ StoreTyped
  BY <1>1, RunningFrame, RunningTask DEF ProgramInv
<1>6. PICK pt \in Points(prog, fr.fn) :
        /\ pt.code = fr.code /\ pt.depth = Len(fr.saved) /\ pt.bound \subseteq DOMAIN fr.env
        /\ Accepted(prog, fr.fn, pt.bound, pt.depth, st)
        /\ After(prog, fr.fn, pt) \subseteq Points(prog, fr.fn)
  BY <1>1, RunningFrame
<1>7. Point(pt.bound \cup ({arm.x} \ {None}), pt.depth + 1, code) \in Points(prog, fr.fn)
  BY <1>1, <1>4, <1>6 DEF After
<1>8. /\ Variable(prog, fr.fn, pt.bound, st.x, TypeOf(prog, fr.fn, st.x))
      /\ arm.x # None => /\ arm.x \in DOMAIN Local(prog, fr.fn)
                         /\ Local(prog, fr.fn)[arm.x] = TypeOf(prog, fr.fn, st.x)
  BY <1>1, <1>4, <1>6 DEF Accepted
<1>9. HasType(v, TypeOf(prog, fr.fn, st.x), Len(field))
  BY <1>5, <1>6, <1>8, ReadTyped
<1> HIDE DEF v, arm, code
<1>10. /\ EnvTyped(prog, fr.fn, env, Len(field))
      /\ pt.bound \cup ({arm.x} \ {None}) \subseteq DOMAIN env
  <2>1. CASE arm.x = None
    BY <2>1, <1>5, <1>6
  <2>2. CASE arm.x # None
    <3>1. EnvTyped(prog, fr.fn, Put(fr.env, arm.x, v), Len(field))
      BY <2>2, <1>5, <1>8, <1>9, PutTyped
    <3>2. DOMAIN Put(fr.env, arm.x, v) = DOMAIN fr.env \cup {arm.x}
      BY DEF Put
    <3> QED BY <2>2, <3>1, <3>2, <1>6
  <2> QED BY <2>1, <2>2
<1>11. EnvTyped(prog, fr.fn, prev, Len(field))
  BY <1>5 DEF EnvTyped
<1> HIDE DEF prev, env
<1>12. /\ IsSeq(saved) /\ pt.depth + 1 = Len(saved)
       /\ \A l \in 1..Len(saved) : EnvTyped(prog, fr.fn, saved[l], Len(field))
  <2>1. /\ IsSeq(saved) /\ Len(saved) = Len(fr.saved) + 1 /\ saved[1] = prev
        /\ \A l \in 2..Len(saved) : saved[l] = fr.saved[l - 1]
    BY <1>5, ConsSeq
  <2>2. Len(fr.saved) \in Nat
    BY <1>5 DEF IsSeq
  <2>3. ASSUME NEW l \in 1..Len(saved)
        PROVE  EnvTyped(prog, fr.fn, saved[l], Len(field))
    <3>1. CASE l = 1
      BY <3>1, <2>1, <1>11
    <3>2. CASE l # 1
      <4>1. l \in 2..Len(saved) /\ l - 1 \in 1..Len(fr.saved)
        BY <3>2, <2>1, <2>2
      <4> QED BY <4>1, <2>1, <1>5
    <3> QED BY <3>1, <3>2
  <2> QED BY <1>6, <2>1, <2>3
<1> HIDE DEF saved
<1>13. Goto(i, Frame(fr.fn, fr.sector, code, env, fr.types, saved))
  BY <1>5, <1>3, MatchUpdate
<1> QED BY <1>1, <1>7, <1>10, <1>12, <1>13, MovesTo

LEMMA RestoreStep == ASSUME ProgramInv, NEW i \in Task, Restore(i) PROVE ProgramInv'
<1> DEFINE fr == Top(i)  st == Head(fr.code)  prev == Head(fr.saved)  x == st.x
           saved == Tail(fr.saved)
           env == [y \in (DOMAIN fr.env \ {x}) \cup (DOMAIN prev \cap {x}) |->
                     IF y = x THEN prev[y] ELSE fr.env[y]]
<1>1. turn = i /\ fr.code # << >> /\ st.op = "restore" /\ Inside /\ UNCHANGED <<store, field>>
  BY DEF Restore, At, Here
<1>2. /\ IsFrame(fr) /\ EnvTyped(prog, fr.fn, fr.env, Len(field)) /\ IsSeq(fr.saved)
      /\ \A l \in 1..Len(fr.saved) : EnvTyped(prog, fr.fn, fr.saved[l], Len(field))
  BY <1>1, RunningFrame
<1>3. PICK pt \in Points(prog, fr.fn) :
        /\ pt.code = fr.code /\ pt.depth = Len(fr.saved) /\ pt.bound \subseteq DOMAIN fr.env
        /\ Accepted(prog, fr.fn, pt.bound, pt.depth, st)
        /\ After(prog, fr.fn, pt) \subseteq Points(prog, fr.fn)
  BY <1>1, RunningFrame
<1>4. pt.depth > 0
  BY <1>1, <1>3 DEF Accepted
<1>5. /\ IsSeq(saved) /\ Len(saved) = pt.depth - 1 /\ Len(fr.saved) \in Nat \ {0}
      /\ prev = fr.saved[1] /\ \A k \in 1..Len(fr.saved) - 1 : saved[k] = fr.saved[k + 1]
  <2>1. fr.saved # << >>
    BY <1>3, <1>4, EmptyIsSeq
  <2> QED BY <1>2, <1>3, <2>1, TailIsSeq
<1>6. \A k \in 1..Len(saved) : EnvTyped(prog, fr.fn, saved[k], Len(field))
  BY <1>2, <1>3, <1>5
<1>7. EnvTyped(prog, fr.fn, prev, Len(field))
  BY <1>2, <1>5
<1>8. Point(pt.bound \ {x}, pt.depth - 1, Tail(fr.code)) \in Points(prog, fr.fn)
  BY <1>1, <1>3 DEF After
<1>9. EnvTyped(prog, fr.fn, env, Len(field)) /\ pt.bound \ {x} \subseteq DOMAIN env
  BY <1>2, <1>3, <1>7 DEF EnvTyped
<1>10. Goto(i, [Past(fr) EXCEPT !.saved = saved, !.env = env])
  <2>1. Past(fr).saved = fr.saved /\ Past(fr).env = fr.env
    BY <1>2, PastFrame
  <2>2. Goto(i, [Past(fr) EXCEPT
          !.saved = Tail(Past(fr).saved),
          !.env = [y \in (DOMAIN Past(fr).env \ {x}) \cup (DOMAIN prev \cap {x}) |->
                     IF y = x THEN prev[y] ELSE Past(fr).env[y]]])
    BY DEF Restore, Here
  <2> QED BY <2>1, <2>2
<1> HIDE DEF saved, env, prev
<1>11. Goto(i, Frame(fr.fn, fr.sector, Tail(fr.code), env, fr.types, saved))
  BY <1>2, <1>10, RestoreUpdate
<1> QED BY <1>1, <1>5, <1>6, <1>8, <1>9, <1>11, MovesTo

-----------------------------------------------------------------------------
(* Calls: a function starts with its parameter, in its own sector, and what  *)
(* it returns is of its result type.                                         *)
LEMMA CallTyped ==
  ASSUME NEW p, NEW f, NEW B, NEW e, NEW ty, e.k \in CallKinds, Typed(p, f, B, e, ty)
  PROVE  /\ e.f \in DOMAIN p.fns
         /\ Variable(p, f, B, e.x, Local(p, e.f)[p.fns[e.f].param])
         /\ e.k = "call" => Home(p, e.f) = Home(p, f)
         /\ ty = IF e.k = "send" THEN UnitType ELSE Result(p)[e.f]
  BY DEF Typed, CallKinds

LEMMA StatementTyped ==
  ASSUME NEW p, NEW f, NEW B, NEW d, NEW st, Statement(st), Accepted(p, f, B, d, st)
  PROVE  \E ty : Typed(p, f, B, st.e, ty)
  BY DEF Statement, Accepted, HasSomeType

LEMMA FunctionsTyped ==
  ASSUME NEW p \in Programs, NEW f \in DOMAIN p.fns
  PROVE  /\ f \in BodyNames(p) /\ f \notin DOMAIN p.handlers /\ Home(p, f) = p.fns[f].sector
         /\ p.fns[f].param \in DOMAIN Local(p, f)
         /\ Point({p.fns[f].param}, 0, p.fns[f].body) \in Points(p, f)
<1>1. WellTyped(p)
  BY ProgramsAssumption
<1>2. f \notin DOMAIN p.handlers /\ FnTyped(p, f)
  BY <1>1 DEF WellTyped
<1> QED BY <1>2 DEF FnTyped, Home, BodyNames

LEMMA CalleeTyped ==
  ASSUME NEW p \in Programs, NEW n, NEW f \in DOMAIN p.fns,
         NEW v, HasType(v, Local(p, f)[p.fns[f].param], n)
  PROVE  FrameTyped(p, Frame(f, p.fns[f].sector, p.fns[f].body,
                             Put(Empty, p.fns[f].param, v), Empty, << >>), n)
<1> DEFINE x == p.fns[f].param  env == Put(Empty, x, v)
           fr == Frame(f, p.fns[f].sector, p.fns[f].body, env, Empty, << >>)
<1>1. /\ fr.fn = f /\ fr.sector = p.fns[f].sector /\ fr.code = p.fns[f].body /\ fr.env = env
      /\ fr.types = Empty /\ fr.saved = << >> /\ IsFrame(fr)
  BY FrameFields
<1>2. EnvTyped(p, f, env, n)
  <2>1. EnvTyped(p, f, Empty, n)
    BY DEF EnvTyped, Empty
  <2> QED BY <2>1, FunctionsTyped, PutTyped
<1>3. TypesKnown(p, f, Empty) /\ DOMAIN env = {x}
  BY DEF TypesKnown, Empty, Put
<1> HIDE DEF fr, env
<1>4. IsAt(fr, Point({x}, 0, p.fns[f].body))
  BY <1>1, <1>3, EmptyIsSeq DEF IsAt, Point
<1>5. /\ f \in BodyNames(p) /\ Home(p, f) = p.fns[f].sector
      /\ Point({x}, 0, p.fns[f].body) \in Points(p, f)
  BY FunctionsTyped
<1> HIDE DEF x
<1>6. \A k \in 1..Len(fr.saved) : EnvTyped(p, f, fr.saved[k], n)
  BY <1>1, EmptyIsSeq
<1>7. FrameTyped(p, fr, n)
  BY <1>1, <1>2, <1>3, <1>4, <1>5, <1>6, EmptyIsSeq DEF FrameTyped
<1> QED BY <1>7 DEF fr, env, x

LEMMA CallStep == ASSUME ProgramInv, NEW i \in Task, Call(i) PROVE ProgramInv'
<1> DEFINE fr == Top(i)  st == Head(fr.code)  e == st.e  f == e.f  n == Len(field)
           v == Read(fr, e.x)
           gr == Frame(f, prog.fns[f].sector, prog.fns[f].body,
                       Put(Empty, prog.fns[f].param, v), Empty, << >>)
           gs == << gr >> \o frames[i]
<1>1. /\ turn = i /\ fr.code # << >> /\ Statement(st) /\ e.k \in CallKinds
      /\ Inside /\ UNCHANGED <<store, field>>
  BY DEF Call, Eval, At, Here, Statement
<1>2. /\ prog \in Programs /\ n \in Nat /\ IsHead(i) /\ frames[i] # << >>
      /\ StackTyped(prog, frames[i], n) /\ FrameTyped(prog, fr, n) /\ StoreTyped
  BY <1>1, RunningTask DEF ProgramInv
<1>3. PICK pt \in Points(prog, fr.fn) :
        /\ IsAt(fr, pt) /\ Accepted(prog, fr.fn, pt.bound, Len(fr.saved), st)
  BY <1>1, <1>2, FramePoint
<1>4. PICK ty : Typed(prog, fr.fn, pt.bound, e, ty)
  BY <1>1, <1>3, StatementTyped
<1>5. /\ f \in DOMAIN prog.fns
      /\ Variable(prog, fr.fn, pt.bound, e.x, Local(prog, f)[prog.fns[f].param])
      /\ e.k = "call" => Home(prog, f) = Home(prog, fr.fn)
  BY <1>1, <1>4, CallTyped
<1>6. HasType(v, Local(prog, f)[prog.fns[f].param], n)
  BY <1>2, <1>3, <1>5, ReadTyped DEF IsAt
<1>7. FrameTyped(prog, gr, n)
  BY <1>2, <1>5, <1>6, CalleeTyped
<1>8. gr.fn = f
  BY FrameFields
<1>9. frames' = [frames EXCEPT ![i] = gs]
  <2>1. CalleeSector(fr, e) = prog.fns[f].sector
    <3>1. fr.sector = Home(prog, fr.fn)
      BY <1>2 DEF FrameTyped
    <3>2. Home(prog, f) = prog.fns[f].sector
      BY <1>2, <1>5, FunctionsTyped
    <3> QED BY <1>5, <3>1, <3>2 DEF CalleeSector
  <2>2. frames' = [frames EXCEPT ![i] = Pushed(i,
          [fn |-> f, sector |-> CalleeSector(fr, e), code |-> prog.fns[f].body,
           env |-> ArgEnv(fr, f, e.x), types |-> Empty, saved |-> << >>])]
    BY DEF Call, Here
  <2> QED BY <2>1, <2>2 DEF Pushed, ArgEnv, Frame
<1>10. CallsFor(Head(frames[i]), f) /\ f \notin DOMAIN prog.handlers
  <2>1. f \notin DOMAIN prog.handlers
    BY <1>2, <1>5, FunctionsTyped
  <2> QED BY <1>1, <2>1 DEF CallsFor, Top
<1> HIDE DEF gr
<1>11. StackTyped(prog, gs, n) /\ gs # << >>
  BY <1>2, <1>7, <1>8, <1>10, PushFrame
<1>12. /\ UNCHANGED <<vars, prog, raised>> /\ turn' = i /\ store' = store
       /\ field' \in Seq(Nat) /\ Len(field') = n
  BY <1>1, FieldKept DEF Inside
<1>13. \A x \in DOMAIN store : HasType(store'[x], SectorVar(prog)[x], Len(field'))
  BY <1>2, <1>12 DEF StoreTyped
<1> HIDE DEF gs
<1>14. StackTyped(prog, gs, Len(field')) /\ Len(field) <= Len(field')
  BY <1>2, <1>11, <1>12
<1>15. DOMAIN store' = DOMAIN store /\ turn \in {i, None}
  BY <1>1, <1>12
<1> QED BY <1>2, <1>9, <1>11, <1>12, <1>13, <1>14, <1>15, TurnGoesOn

(* The caller of the running function is given a value of its result type.   *)
LEMMA CallerGets ==
  ASSUME ProgramInv, NEW i \in Task, turn = i, Len(frames[i]) > 1, Inside, UNCHANGED field,
         NEW v, HasType(v, Result(prog)[Top(i).fn], Len(field)),
         Deliver(i, Tail(frames[i]), ResultSeen(i, v))
  PROVE  ProgramInv'
<1> DEFINE fs == Tail(frames[i])  gr == Head(fs)  n == Len(field)  w == ResultSeen(i, v)
<1>1. prog \in Programs /\ n \in Nat /\ IsHead(i) /\ StackTyped(prog, frames[i], n)
  BY RunningTask
<1>2. /\ StackTyped(prog, fs, n) /\ fs # << >>
      /\ CallsFor(gr, Top(i).fn) /\ gr = frames[i][2]
  BY <1>1, PopFrame DEF Top
<1>3. gr.code # << >> /\ Statement(Head(gr.code))
  BY <1>2 DEF CallsFor
<1>4. ASSUME NEW pt \in Points(prog, gr.fn), NEW ty,
             Typed(prog, gr.fn, pt.bound, Head(gr.code).e, ty)
      PROVE  HasType(w, ty, n)
  <2>1. Head(gr.code).e.k \in CallKinds /\ Head(gr.code).e.f = Top(i).fn
    BY <1>2 DEF CallsFor
  <2>2. ty = IF Head(gr.code).e.k = "send" THEN UnitType ELSE Result(prog)[Top(i).fn]
    BY <1>4, <2>1, CallTyped
  <2>3. w = IF Head(gr.code).e.k = "send" THEN Nothing ELSE v
    BY <1>2 DEF ResultSeen
  <2>4. HasType(Nothing, UnitType, n)
    BY <1>1, ValuesOfTypes
  <2> QED BY <2>2, <2>3, <2>4
<1>5. ValueFor(gr, w, n)
  BY <1>4 DEF ValueFor
<1>6. /\ UNCHANGED <<vars, prog, raised>> /\ turn' = i /\ turn \in {i, None}
      /\ field' \in Seq(Nat) /\ Len(field) <= Len(field') /\ Len(field') = n
  BY <1>1, FieldKept DEF Inside
<1> HIDE DEF w, fs
<1>7. Deliver(i, fs, w)
  BY DEF w, fs
<1>8. ValueFor(Head(fs), w, Len(field'))
  BY <1>5, <1>6
<1> QED BY <1>1, <1>2, <1>3, <1>6, <1>7, <1>8, Delivered

LEMMA ReturnStep == ASSUME ProgramInv, NEW i \in Task, ReturnStmt(i) PROVE ProgramInv'
<1> DEFINE fr == Top(i)  st == Head(fr.code)  v == Simple(fr, st.e)
<1>1. /\ turn = i /\ fr.code # << >> /\ st.op = "return" /\ Len(frames[i]) > 1
      /\ Inside /\ UNCHANGED field
      /\ Deliver(i, Tail(frames[i]), ResultSeen(i, v))
  BY DEF ReturnStmt, At, Here
<1>2. /\ prog \in Programs /\ FrameTyped(prog, fr, Len(field)) /\ StoreTyped
      /\ fr.fn \notin DOMAIN prog.handlers
  <2>1. /\ prog \in Programs /\ FrameTyped(prog, fr, Len(field))
        /\ Len(frames[i]) > 1 => fr.fn \notin DOMAIN prog.handlers
    BY <1>1, RunningTask
  <2> QED BY <1>1, <2>1 DEF ProgramInv
<1>3. fr.fn \in DOMAIN prog.fns
  BY <1>2 DEF FrameTyped, BodyNames
<1>4. PICK pt \in Points(prog, fr.fn) :
        IsAt(fr, pt) /\ Accepted(prog, fr.fn, pt.bound, Len(fr.saved), st)
  BY <1>1, <1>2, FramePoint
<1>5. st.e.k \in SimpleKinds /\ Typed(prog, fr.fn, pt.bound, st.e, Result(prog)[fr.fn])
  BY <1>1, <1>3, <1>4 DEF Accepted
<1>6. HasType(v, Result(prog)[fr.fn], Len(field))
  BY <1>2, <1>4, <1>5, SimpleTyped DEF IsAt
<1> HIDE DEF v
<1> QED BY <1>1, <1>6, CallerGets

LEMMA EndOfFnStep == ASSUME ProgramInv, NEW i \in Task, EndOfFn(i) PROVE ProgramInv'
<1> DEFINE fr == Top(i)
<1>1. /\ turn = i /\ fr.code = << >> /\ Len(frames[i]) > 1 /\ Inside /\ UNCHANGED field
      /\ Deliver(i, Tail(frames[i]), Nothing)
  BY DEF EndOfFn
<1>2. /\ prog \in Programs /\ FrameTyped(prog, fr, Len(field)) /\ Len(field) \in Nat
      /\ fr.fn \notin DOMAIN prog.handlers
  <2>1. /\ prog \in Programs /\ FrameTyped(prog, fr, Len(field)) /\ Len(field) \in Nat
        /\ Len(frames[i]) > 1 => fr.fn \notin DOMAIN prog.handlers
    BY <1>1, RunningTask
  <2> QED BY <1>1, <2>1
<1>3. fr.fn \in DOMAIN prog.fns
  BY <1>2 DEF FrameTyped, BodyNames
<1>4. Result(prog)[fr.fn] = UnitType
  BY <1>1, <1>2, <1>3, FramePoint
<1>5. HasType(Nothing, Result(prog)[fr.fn], Len(field))
  BY <1>2, <1>4, ValuesOfTypes
<1>6. ResultSeen(i, Nothing) = Nothing
  BY DEF ResultSeen
<1> QED BY <1>1, <1>5, <1>6, CallerGets

-----------------------------------------------------------------------------
(* The turn of a task begins: an await gets an event of the type it awaits.  *)
LEMMA EnterStep == ASSUME ProgramInv, NEW i \in Task, Enter(i) PROVE ProgramInv'
<1> DEFINE n == Len(field)
<1>1. /\ turn = None /\ IsHead(i) /\ turn' = i /\ UNCHANGED <<vars, prog, field, raised>>
  BY DEF Enter
<1>2. /\ prog \in Programs /\ n \in Nat /\ StackTyped(prog, frames[i], n) /\ frames[i] # << >>
  <2>1. handlerOf[i] # None
    BY <1>1, HeadIsLive DEF ProgramInv, LoopInv
  <2> QED BY <2>1, FieldLength DEF ProgramInv, TurnOK, StacksTyped
<1>3. field' \in Seq(Nat) /\ Len(field) <= Len(field') /\ Len(field') = n
  BY <1>1, <1>2, FieldKept
<1>4. CASE pendingSend[i] = None
  <2>1. frames' = frames /\ store' = store
    BY <1>4 DEF Enter
  <2>2. LoopInv'
    BY <1>1, LoopInvStep DEF ProgramInv
  <2>3. TurnOK'
    BY <1>1 DEF ProgramInv, TurnOK, vars, IsHead
  <2>4. StoreTyped' /\ EventsTyped'
    BY <1>1, <2>1, TypedEventsKept DEF ProgramInv, StoreTyped, vars
  <2>5. StacksTyped'
    BY <1>1, <2>1, SectorTaskAssumption DEF ProgramInv, StacksTyped, vars
  <2> QED BY <2>2, <2>3, <2>4, <2>5 DEF ProgramInv
<1>5. CASE pendingSend[i] # None
  <2> DEFINE ev == pendingSend[i]  v == ev.payload  fr == Head(frames[i])
  <2>1. Deliver(i, frames[i], v)
    BY <1>5 DEF Enter
  <2>2. IsEventOf(v, ev.type) /\ awaited[i] = ev.type
    BY <1>5 DEF ProgramInv, LoopInv, EventsTyped, AnswerMatchesAwait
  <2>3. ev.type \in Types
    BY <2>2, EventsAreEvents
  <2>4. awaited[i] # None /\ turn # i
    BY <1>1, <2>2, <2>3, NoneAssumption, SectorTaskAssumption
  <2>5. AwaitsIn(frames[i], ev.type)
    BY <2>2, <2>4 DEF ProgramInv, StacksTyped
  <2>6. /\ fr.code # << >> /\ Statement(Head(fr.code))
        /\ Head(fr.code).e.k = "await" /\ Head(fr.code).e.t = ev.type
    BY <2>5 DEF AwaitsIn
  <2>7. ValueFor(fr, v, n)
    <3>1. HasType(v, EventType(ev.type), n)
      BY <1>2, <2>2, <2>3, ValuesOfTypes
    <3> QED BY <2>6, <3>1 DEF ValueFor, Typed, CallKinds
  <2> HIDE DEF v
  <2> QED BY <1>1, <1>2, <1>3, <2>1, <2>6, <2>7, Delivered
<1> QED BY <1>4, <1>5

-----------------------------------------------------------------------------
(* Dispatch: each handler of the event starts with the event in its binder.  *)
LEMMA HandlerFrameTyped ==
  ASSUME prog \in Programs, NEW n, NEW t \in Types, NEW h \in Range(Handlers[t]),
         NEW ev, ev.type = t, IsEventOf(ev.payload, t)
  PROVE  FrameTyped(prog, HandlerFrame(h, ev), n) /\ HandlerFrame(h, ev).fn = h
         /\ h \in DOMAIN prog.handlers
<1> DEFINE d == prog.handlers[h]  x == d.binder  B == {x} \ {None}
           env == IF x = None THEN Empty ELSE Put(Empty, x, ev.payload)
           types == IF x = None THEN Empty ELSE Put(Empty, x, ev.type)
           fr == HandlerFrame(h, ev)
<1>1. WellTyped(prog)
  BY ProgramsAssumption
<1>2. h \in DOMAIN prog.handlers
  <2>1. h \in Handler
    BY DEF Handler
  <2> QED BY <1>1, <2>1 DEF WellTyped
<1>3. /\ Point(B, 0, d.body) \in Points(prog, h) /\ B \subseteq DOMAIN Local(prog, h)
      /\ \A y \in B : Local(prog, h)[y] = EventType(t)
  BY <1>1, <1>2 DEF WellTyped, HandlerTyped
<1>4. fr = Frame(h, d.sector, d.body, env, types, << >>)
  BY DEF HandlerFrame, Frame
<1>5. /\ fr.fn = h /\ fr.sector = d.sector /\ fr.code = d.body /\ fr.env = env
      /\ fr.types = types /\ fr.saved = << >> /\ IsFrame(fr)
  BY <1>4, FrameFields
<1>6. EnvTyped(prog, h, env, n) /\ TypesKnown(prog, h, types) /\ B \subseteq DOMAIN env
  <2>1. EnvTyped(prog, h, Empty, n) /\ TypesKnown(prog, h, Empty)
    BY DEF EnvTyped, TypesKnown, Empty
  <2>2. CASE x = None
    BY <2>1, <2>2
  <2>3. CASE x # None
    <3>1. x \in DOMAIN Local(prog, h) /\ Local(prog, h)[x] = EventType(t)
      BY <1>3, <2>3
    <3>2. HasType(ev.payload, Local(prog, h)[x], n)
      BY <3>1 DEF HasType
    <3>3. EnvTyped(prog, h, Put(Empty, x, ev.payload), n)
      BY <2>1, <3>1, <3>2, PutTyped
    <3>4. TypesKnown(prog, h, Put(Empty, x, ev.type))
      BY <2>1, <3>1, PutKnown
    <3>5. DOMAIN Put(Empty, x, ev.payload) = DOMAIN Empty \cup {x}
      BY DEF Put
    <3> QED BY <2>3, <3>3, <3>4, <3>5
  <2> QED BY <2>2, <2>3
<1>7. h \in BodyNames(prog) /\ Home(prog, h) = d.sector
  BY <1>2 DEF BodyNames, Home
<1> HIDE DEF fr, env, types, d, B
<1>8. IsAt(fr, Point(B, 0, d.body))
  BY <1>5, <1>6, EmptyIsSeq DEF IsAt, Point
<1>9. \A k \in 1..Len(fr.saved) : EnvTyped(prog, h, fr.saved[k], n)
  BY <1>5, EmptyIsSeq
<1>10. FrameTyped(prog, fr, n)
  BY <1>3, <1>5, <1>6, <1>7, <1>8, <1>9, EmptyIsSeq DEF FrameTyped
<1> QED BY <1>2, <1>5, <1>10 DEF fr

-----------------------------------------------------------------------------
(* Events keep their type on their way through the queues and to the tasks.  *)
LEMMA EventsKept ==
  ASSUME TypeOK, EventsTyped,
         \A u \in Types : \/ queue'[u] = queue[u]
                          \/ queue[u] # << >> /\ queue'[u] = Tail(queue[u])
                          \/ \E p : IsEventOf(p, u) /\ queue'[u] = Append(queue[u], Ev(u, p)),
         \A j \in Task : \/ pendingSend'[j] \in {None, pendingSend[j]}
                         \/ IsEventOf(pendingSend'[j].payload, pendingSend'[j].type)
  PROVE  EventsTyped'
<1>1. ASSUME NEW u \in Types
      PROVE  \A k \in 1..Len(queue'[u]) : IsEventOf(queue'[u][k].payload, u)
  <2>0. queue[u] \in Seq(Event) /\ \A k \in 1..Len(queue[u]) : IsEventOf(queue[u][k].payload, u)
    BY DEF EventsTyped, TypeOK
  <2>1. CASE queue'[u] = queue[u]
    BY <2>0, <2>1
  <2>2. CASE queue[u] # << >> /\ queue'[u] = Tail(queue[u])
    <3>1. /\ Len(queue'[u]) = Len(queue[u]) - 1
          /\ \A k \in 1..Len(queue'[u]) : queue'[u][k] = queue[u][k + 1]
      BY <2>0, <2>2, HeadTailProperties
    <3> QED BY <2>0, <3>1
  <2>3. CASE \E p : IsEventOf(p, u) /\ queue'[u] = Append(queue[u], Ev(u, p))
    <3>1. PICK p : IsEventOf(p, u) /\ queue'[u] = Append(queue[u], Ev(u, p))
      BY <2>3
    <3>2. Ev(u, p).payload = p
      BY DEF Ev
    <3> HIDE DEF Ev
    <3> QED BY <2>0, <3>1, <3>2
  <2> QED BY <2>1, <2>2, <2>3
<1>2. ASSUME NEW j \in Task, pendingSend'[j] # None
      PROVE  IsEventOf(pendingSend'[j].payload, pendingSend'[j].type)
  BY <1>2 DEF EventsTyped
<1> QED BY <1>1, <1>2 DEF EventsTyped

LEMMA FirstEvent ==
  ASSUME ProgramInv, NEW t \in Types, queue[t] # << >>
  PROVE  Head(queue[t]).type = t /\ IsEventOf(Head(queue[t]).payload, t)
<1>1. queue[t] \in Seq(Event)
  BY DEF ProgramInv, LoopInv, TypeOK
<1>2. 1 \in 1..Len(queue[t]) /\ Head(queue[t]) = queue[t][1]
  BY <1>1, HeadTailProperties
<1>3. queue[t][1].type = t
  BY <1>2 DEF ProgramInv, LoopInv, QueueTyped
<1>4. IsEventOf(queue[t][1].payload, t)
  BY <1>2 DEF ProgramInv, EventsTyped
<1> QED BY <1>2, <1>3, <1>4

LEMMA TasksStarted ==
  ASSUME TypeOK, NEW t \in Types, Dispatch(t), NEW j \in Task
  PROVE  \/ handlerOf'[j] = handlerOf[j]
         \/ /\ handlerOf[j] = None /\ handlerOf'[j] \in Range(Handlers[t])
            /\ binding'[j] = Head(queue[t])
<1>1. PICK s \in Slots(Len(Handlers[t])) :
         /\ handlerOf' = [i \in Task |-> IF i \in Range(s)
                            THEN Handlers[t][CHOOSE k \in DOMAIN s : s[k] = i]
                            ELSE handlerOf[i]]
         /\ binding' = [i \in Task |-> IF i \in Range(s) THEN Head(queue[t])
                                                         ELSE binding[i]]
  BY DEF Dispatch
<1>2. s \in [1..Len(Handlers[t]) -> Task] /\ \A i \in Range(s) : handlerOf[i] = None
  BY DEF Slots, Free, Range
<1>3. CASE j \in Range(s)
  <2>1. \E k \in DOMAIN s : s[k] = j
    BY <1>3 DEF Range
  <2>2. (CHOOSE k \in DOMAIN s : s[k] = j) \in 1..Len(Handlers[t])
    BY <2>1, <1>2
  <2>3. Handlers[t][CHOOSE k \in DOMAIN s : s[k] = j] \in Range(Handlers[t])
    <3>1. DOMAIN Handlers[t] = 1..Len(Handlers[t])
      BY HandlersType
    <3>2. \A c \in DOMAIN Handlers[t] : Handlers[t][c] \in Range(Handlers[t])
      BY DEF Range
    <3> QED BY <2>2, <3>1, <3>2
  <2>4. handlerOf'[j] = Handlers[t][CHOOSE k \in DOMAIN s : s[k] = j]
    BY <1>1, <1>3
  <2>5. handlerOf[j] = None /\ binding'[j] = Head(queue[t])
    BY <1>1, <1>2, <1>3
  <2> QED BY <2>3, <2>4, <2>5
<1>4. CASE j \notin Range(s)
  BY <1>1, <1>4
<1> QED BY <1>3, <1>4

LEMMA StartStep == ASSUME ProgramInv, NEW t \in Types, Start(t) PROVE ProgramInv'
<1> DEFINE n == Len(field)
<1>1. /\ turn = None /\ Dispatch(t) /\ UNCHANGED <<prog, turn, store, field, raised>>
      /\ frames' = [i \in Task |-> IF handlerOf[i] = None /\ handlerOf'[i] # None
                       THEN << HandlerFrame(handlerOf'[i], binding'[i]) >> ELSE frames[i]]
  BY DEF Start
<1>2. /\ TypeOK /\ status = "running" /\ queue[t] # << >> /\ awaited' = awaited
      /\ pendingSend' = pendingSend /\ queue' = [queue EXCEPT ![t] = Tail(queue[t])]
  BY <1>1 DEF ProgramInv, LoopInv, Dispatch, IsNext
<1>3. LoopInv'
  BY <1>1, LoopInvStep DEF ProgramInv, Next, Iterate
<1>4. TurnOK'
  <2>1. raised = None
    BY <1>2 DEF ProgramInv, TurnOK
  <2> QED BY <1>1, <2>1 DEF ProgramInv, TurnOK
<1>5. StoreTyped'
  BY <1>1 DEF ProgramInv, StoreTyped
<1>6. EventsTyped'
  <2>1. \A u \in Types : queue'[u] = queue[u] \/ (queue[u] # << >> /\ queue'[u] = Tail(queue[u]))
    BY <1>2 DEF TypeOK
  <2> QED BY <1>2, <2>1, EventsKept DEF ProgramInv
<1>7. StacksTyped'
  <2>1. Head(queue[t]).type = t /\ IsEventOf(Head(queue[t]).payload, t)
    BY <1>2, FirstEvent
  <2>2. ASSUME NEW j \in Task
        PROVE  /\ StackTyped(prog, frames'[j], n)
               /\ frames'[j] # << >> <=> handlerOf'[j] # None
               /\ awaited[j] # None => AwaitsIn(frames'[j], awaited[j])
    <3>0. /\ StackTyped(prog, frames[j], n)
          /\ frames[j] # << >> <=> handlerOf[j] # None
          /\ awaited[j] # None => AwaitsIn(frames[j], awaited[j])
      BY <1>1, SectorTaskAssumption DEF ProgramInv, StacksTyped
    <3>1. CASE handlerOf'[j] = handlerOf[j]
      BY <1>1, <3>0, <3>1
    <3>2. CASE /\ handlerOf[j] = None /\ handlerOf'[j] \in Range(Handlers[t])
               /\ binding'[j] = Head(queue[t])
      <4> DEFINE h == handlerOf'[j]  fr == HandlerFrame(h, Head(queue[t]))
      <4>1. h # None
        BY <3>2, HandlersAssumption
      <4>2. frames'[j] = << fr >>
        BY <1>1, <3>2, <4>1
      <4>3. FrameTyped(prog, fr, n) /\ fr.fn = h /\ h \in DOMAIN prog.handlers
        BY <2>1, <3>2, HandlerFrameTyped DEF ProgramInv, TurnOK
      <4> HIDE DEF fr
      <4>4. StackTyped(prog, << fr >>, n) /\ << fr >> # << >>
        BY <4>3, HandlerStack
      <4>5. awaited[j] = None
        BY <3>0, <3>2 DEF AwaitsIn
      <4> QED BY <4>1, <4>2, <4>4, <4>5
    <3> QED BY <1>2, <3>1, <3>2, <1>1, TasksStarted
  <2>3. DOMAIN frames' = Task
    BY <1>1
  <2> QED BY <1>1, <1>2, <2>2, <2>3 DEF StacksTyped
<1> QED BY <1>3, <1>4, <1>5, <1>6, <1>7 DEF ProgramInv

LEMMA LeaveStep == ASSUME ProgramInv, Leave PROVE ProgramInv'
<1>1. Return /\ turn = None /\ UNCHANGED <<prog, turn, frames, store, field, raised>>
  BY DEF Leave, progVars
<1>2. /\ status = "running"
      /\ UNCHANGED <<queue, pendingSend, handlerOf, awaited>>
  BY <1>1 DEF Return, taskVars
<1>3. LoopInv'
  BY <1>1, LoopInvStep DEF ProgramInv, Next, Iterate
<1>4. TurnOK'
  <2>1. raised = None
    BY <1>2 DEF ProgramInv, TurnOK
  <2> QED BY <1>1, <2>1 DEF ProgramInv, TurnOK
<1>5. StoreTyped' /\ EventsTyped'
  BY <1>1, <1>2, TypedEventsKept DEF ProgramInv, StoreTyped
<1>6. StacksTyped'
  BY <1>1, <1>2 DEF ProgramInv, StacksTyped
<1> QED BY <1>3, <1>4, <1>5, <1>6 DEF ProgramInv

-----------------------------------------------------------------------------
(* The last step of a turn is an iteration of the loop.                      *)
LEMMA TurnEnds ==
  ASSUME ProgramInv, NEW i \in Task, turn = i, turn' = None, Next,
         UNCHANGED <<prog, store, field>>, raised' # None => status' = "aborted",
         EventsTyped', DOMAIN frames' = Task,
         StackTyped(prog, frames'[i], Len(field)),
         frames'[i] # << >> <=> handlerOf'[i] # None,
         awaited'[i] # None => AwaitsIn(frames'[i], awaited'[i]),
         \A j \in Task : j # i => /\ frames'[j] = frames[j] /\ handlerOf'[j] = handlerOf[j]
                                  /\ awaited'[j] = awaited[j]
  PROVE  ProgramInv'
<1>1. LoopInv'
  BY LoopInvStep DEF ProgramInv
<1>2. TurnOK'
  BY DEF ProgramInv, TurnOK
<1>3. StoreTyped'
  BY DEF ProgramInv, StoreTyped
<1>4. ASSUME NEW j \in Task
      PROVE  /\ StackTyped(prog, frames'[j], Len(field))
             /\ frames'[j] # << >> <=> handlerOf'[j] # None
             /\ awaited'[j] # None => AwaitsIn(frames'[j], awaited'[j])
  <2>1. CASE j = i
    BY <2>1
  <2>2. CASE j # i
    <3>1. /\ StackTyped(prog, frames[j], Len(field))
          /\ frames[j] # << >> <=> handlerOf[j] # None
          /\ awaited[j] # None => AwaitsIn(frames[j], awaited[j])
      BY <2>2 DEF ProgramInv, StacksTyped
    <3> QED BY <2>2, <3>1
  <2> QED BY <2>1, <2>2
<1>5. StacksTyped'
  BY <1>4 DEF StacksTyped
<1> QED BY <1>1, <1>2, <1>3, <1>5 DEF ProgramInv

LEMMA NotRaised == ASSUME ProgramInv, NEW i \in Task, turn = i PROVE raised = None
  BY RunningTask DEF ProgramInv, TurnOK

(* The type found for a value that is emitted is the type of the event.      *)
LEMMA InferredType ==
  ASSUME prog \in Programs, StoreTyped, NEW fr, FrameTyped(prog, fr, Len(field)),
         fr.code # << >>, Head(fr.code).op = "emit",
         NEW t, t = InferType(fr, Head(fr.code).e), t # None
  PROVE  IsEventOf(Simple(fr, Head(fr.code).e), t)
<1> DEFINE e == Head(fr.code).e  v == Simple(fr, e)  n == Len(field)
<1>1. PICK pt \in Points(prog, fr.fn) :
        IsAt(fr, pt) /\ Accepted(prog, fr.fn, pt.bound, Len(fr.saved), Head(fr.code))
  BY FramePoint
<1>2. PICK ty : e.k \in SimpleKinds /\ Typed(prog, fr.fn, pt.bound, e, ty)
  BY <1>1 DEF Accepted, HasSomeType
<1>3. HasType(v, ty, n) /\ n \in Nat
  BY <1>1, <1>2, SimpleTyped, FieldLength DEF IsAt
<1>4. CASE e.k = "var" /\ e.x \in DOMAIN fr.types
  <2>1. t = fr.types[e.x]
    BY <1>4 DEF InferType
  <2>2. e.x \in DOMAIN Local(prog, fr.fn) /\ Local(prog, fr.fn)[e.x] = EventType(t)
    BY <1>4, <2>1 DEF FrameTyped, TypesKnown
  <2>3. ty = EventType(t)
    BY <1>2, <1>4, <2>2 DEF Typed, Variable, TypeOf, CallKinds
  <2> QED BY <1>3, <2>3, ValuesOfTypes
<1>5. CASE ~(e.k = "var" /\ e.x \in DOMAIN fr.types)
  <2>1. t = IF v.tag = "ctor" THEN Owner[v.n] ELSE None
    BY <1>5 DEF InferType
  <2>2. v.tag = "ctor" /\ t = Owner[v.n]
    BY <2>1
  <2>3. v.n \in DOMAIN Owner /\ v = Ctor(v.n)
    BY <1>3, <2>2, ConstructorsTyped
  <2> QED BY <2>2, <2>3 DEF IsEventOf
<1> QED BY <1>4, <1>5

LEMMA EmitStep == ASSUME ProgramInv, NEW i \in Task, EmitStmt(i) PROVE ProgramInv' /\ Next
<1> DEFINE fr == Top(i)  st == Head(fr.code)  t == InferType(fr, st.e)  v == Simple(fr, st.e)
           n == Len(field)  gr == Past(fr)  fs == frames[i]
<1>1. /\ turn = i /\ fr.code # << >> /\ st.op = "emit" /\ t # None /\ Goto(i, gr)
      /\ EmitToWaiter(i, t, v) \/ EmitToQueue(i, t, v)
      /\ turn' = None /\ UNCHANGED <<prog, store, field, raised>>
  BY DEF EmitStmt, At, Here
<1>2. /\ prog \in Programs /\ FrameTyped(prog, fr, n) /\ StoreTyped /\ TypeOK
      /\ StackTyped(prog, fs, n) /\ fs # << >> /\ IsHead(i)
  BY <1>1, RunningTask DEF ProgramInv, LoopInv
<1>3. IsEventOf(v, t)
  BY <1>1, <1>2, InferredType
<1>4. t \in Types /\ v \in Payload
  BY <1>3, EventsAreEvents
<1>5. Next
  BY <1>1, <1>4 DEF Next, Iterate
<1>6. FrameTyped(prog, gr, n) /\ gr.fn = fr.fn
  <2>1. PICK pt \in Points(prog, fr.fn) :
          IsAt(fr, pt) /\ After(prog, fr.fn, pt) \subseteq Points(prog, fr.fn)
    BY <1>2, FramePoint
  <2>2. /\ Point(pt.bound, pt.depth, Tail(fr.code)) \in Points(prog, fr.fn)
        /\ pt.depth = Len(fr.saved) /\ pt.bound \subseteq DOMAIN fr.env
    BY <1>1, <2>1 DEF IsAt, After
  <2>3. /\ IsFrame(fr) /\ EnvTyped(prog, fr.fn, fr.env, n)
        /\ TypesKnown(prog, fr.fn, fr.types) /\ IsSeq(fr.saved)
        /\ \A k \in 1..Len(fr.saved) : EnvTyped(prog, fr.fn, fr.saved[k], n)
    BY <1>2 DEF FrameTyped
  <2>4. FrameTyped(prog, Frame(fr.fn, fr.sector, Tail(fr.code), fr.env, fr.types, fr.saved), n)
    BY <1>2, <2>2, <2>3, MovedFrame
  <2>5. gr = Frame(fr.fn, fr.sector, Tail(fr.code), fr.env, fr.types, fr.saved) /\ gr.fn = fr.fn
    BY <2>3, PastFrame
  <2> QED BY <2>4, <2>5
<1> HIDE DEF gr, t, v
<1>7. StackTyped(prog, << gr >> \o Tail(fs), n) /\ << gr >> \o Tail(fs) # << >>
  BY <1>2, <1>6, ReplaceTop DEF Top
<1>8. frames' = [frames EXCEPT ![i] = << gr >> \o Tail(fs)] /\ DOMAIN frames = Task
  BY <1>1 DEF Goto, ProgramInv, StacksTyped
<1>9. /\ StackTyped(prog, frames'[i], n) /\ frames'[i] # << >> /\ DOMAIN frames' = Task
      /\ \A j \in Task : j # i => frames'[j] = frames[j]
  BY <1>7, <1>8
<1>10. /\ handlerOf' = handlerOf /\ awaited' = [awaited EXCEPT ![i] = None]
       /\ handlerOf[i] # None
  BY <1>1, <1>2, HeadIsLive DEF EmitToWaiter, EmitToQueue, Advance, ProgramInv, LoopInv
<1>11. awaited'[i] = None /\ \A j \in Task : j # i => awaited'[j] = awaited[j]
  BY <1>2, <1>10 DEF TypeOK
<1>12. EventsTyped'
  <2>1. CASE EmitToWaiter(i, t, v)
    <3>1. /\ queue' = queue
          /\ pendingSend' = [[pendingSend EXCEPT ![i] = None] EXCEPT ![Head(waiting[t])] = Ev(t, v)]
      BY <2>1 DEF EmitToWaiter, Taken
    <3>2. Ev(t, v).type = t /\ Ev(t, v).payload = v
      BY DEF Ev
    <3> HIDE DEF Ev
    <3>3. \A j \in Task : pendingSend'[j] \in {None, pendingSend[j], Ev(t, v)}
      BY <1>2, <3>1 DEF TypeOK
    <3>4. \A j \in Task : \/ pendingSend'[j] \in {None, pendingSend[j]}
                          \/ IsEventOf(pendingSend'[j].payload, pendingSend'[j].type)
      BY <1>3, <3>2, <3>3
    <3> QED BY <1>2, <3>1, <3>4, EventsKept DEF ProgramInv
  <2>2. CASE EmitToQueue(i, t, v)
    <3>1. /\ queue' = [queue EXCEPT ![t] = Append(@, Ev(t, v))]
          /\ pendingSend' = [pendingSend EXCEPT ![i] = None]
      BY <2>2 DEF EmitToQueue, Taken
    <3>2. \A u \in Types : queue'[u] = queue[u] \/ (u = t /\ queue'[u] = Append(queue[u], Ev(t, v)))
      BY <1>2, <3>1 DEF TypeOK
    <3>3. \A u \in Types : \/ queue'[u] = queue[u]
                           \/ \E p : IsEventOf(p, u) /\ queue'[u] = Append(queue[u], Ev(u, p))
      BY <1>3, <3>2
    <3>4. \A j \in Task : pendingSend'[j] \in {None, pendingSend[j]}
      BY <1>2, <3>1 DEF TypeOK
    <3> QED BY <1>2, <3>3, <3>4, EventsKept DEF ProgramInv
  <2> QED BY <1>1, <2>1, <2>2
<1>13. raised' = None
  BY <1>1, NotRaised
<1> HIDE DEF fs
<1> QED BY <1>1, <1>5, <1>9, <1>10, <1>11, <1>12, <1>13, TurnEnds

LEMMA AwaitStep == ASSUME ProgramInv, NEW i \in Task, AwaitExpr(i) PROVE ProgramInv' /\ Next
<1> DEFINE fr == Top(i)  st == Head(fr.code)  t == st.e.t  n == Len(field)
<1>1. /\ turn = i /\ fr.code # << >> /\ Statement(st) /\ st.e.k = "await"
      /\ AwaitQueued(i, t) \/ AwaitSuspend(i, t)
      /\ turn' = None /\ UNCHANGED <<prog, frames, store, field, raised>>
  BY DEF AwaitExpr, Eval, At, Here, Statement
<1>2. /\ prog \in Programs /\ FrameTyped(prog, fr, n) /\ TypeOK
      /\ StackTyped(prog, frames[i], n) /\ frames[i] # << >> /\ IsHead(i)
  BY <1>1, RunningTask DEF ProgramInv, LoopInv
<1>3. t \in Types
  <2>1. PICK pt \in Points(prog, fr.fn) : Accepted(prog, fr.fn, pt.bound, Len(fr.saved), st)
    BY <1>1, <1>2, FramePoint
  <2>2. PICK ty : Typed(prog, fr.fn, pt.bound, st.e, ty)
    BY <1>1, <2>1, StatementTyped
  <2> QED BY <1>1, <2>2 DEF Typed, CallKinds
<1>4. Next
  BY <1>1, <1>3 DEF Next, Iterate
<1>5. AwaitsIn(frames[i], t)
  BY <1>1, <1>2 DEF AwaitsIn, Top
<1> HIDE DEF t
<1>6. /\ handlerOf' = handlerOf /\ awaited' = [awaited EXCEPT ![i] = t]
      /\ handlerOf[i] # None
  BY <1>1, <1>2, HeadIsLive DEF AwaitQueued, AwaitSuspend, Advance, ProgramInv, LoopInv
<1>7. awaited'[i] = t /\ \A j \in Task : j # i => awaited'[j] = awaited[j]
  BY <1>2, <1>6 DEF TypeOK
<1>8. EventsTyped'
  <2>1. CASE AwaitQueued(i, t)
    <3>1. /\ queue' = [queue EXCEPT ![t] = Tail(@)] /\ queue[t] # << >>
          /\ pendingSend' = [[pendingSend EXCEPT ![i] = None] EXCEPT ![i] = Head(queue[t])]
      BY <2>1 DEF AwaitQueued, Taken
    <3>2. Head(queue[t]).type = t /\ IsEventOf(Head(queue[t]).payload, t)
      BY <1>3, <3>1, FirstEvent
    <3>3. \A u \in Types : queue'[u] = queue[u] \/ (queue[u] # << >> /\ queue'[u] = Tail(queue[u]))
      BY <1>2, <3>1 DEF TypeOK
    <3>4. \A j \in Task : pendingSend'[j] \in {pendingSend[j], Head(queue[t])}
      BY <1>2, <3>1 DEF TypeOK
    <3>5. \A j \in Task : \/ pendingSend'[j] \in {None, pendingSend[j]}
                          \/ IsEventOf(pendingSend'[j].payload, pendingSend'[j].type)
      BY <3>2, <3>4
    <3> QED BY <1>2, <3>3, <3>5, EventsKept DEF ProgramInv
  <2>2. CASE AwaitSuspend(i, t)
    <3>1. queue' = queue /\ pendingSend' = [pendingSend EXCEPT ![i] = None]
      BY <2>2 DEF AwaitSuspend, Taken
    <3>2. \A j \in Task : pendingSend'[j] \in {None, pendingSend[j]}
      BY <1>2, <3>1 DEF TypeOK
    <3> QED BY <1>2, <3>1, <3>2, EventsKept DEF ProgramInv
  <2> QED BY <1>1, <2>1, <2>2
<1>9. raised' = None
  BY <1>1, NotRaised
<1>10. /\ DOMAIN frames' = Task /\ frames'[i] = frames[i]
       /\ \A j \in Task : j # i => frames'[j] = frames[j]
  BY <1>1 DEF ProgramInv, StacksTyped
<1> QED BY <1>1, <1>2, <1>4, <1>5, <1>6, <1>7, <1>8, <1>9, <1>10, TurnEnds

(* The generator ends: the task is gone, with its activations.               *)
LEMMA OverStep ==
  ASSUME ProgramInv, NEW i \in Task, turn = i, NEW how, Over(i, how),
         Finish(i) \/ Stop(i) \/ Abort(i), how # None => Abort(i)
  PROVE  ProgramInv' /\ Next
<1>1. Next
  BY DEF Next, Iterate
<1>2. /\ turn' = None /\ frames' = [frames EXCEPT ![i] = << >>] /\ raised' = how
      /\ UNCHANGED <<prog, store, field>>
  BY DEF Over
<1>3. /\ handlerOf' = [handlerOf EXCEPT ![i] = None] /\ awaited' = [awaited EXCEPT ![i] = None]
      /\ queue' = queue /\ pendingSend' = [pendingSend EXCEPT ![i] = None]
  BY DEF Finish, Stop, Abort, End, Taken
<1>4. TypeOK /\ DOMAIN frames = Task
  BY DEF ProgramInv, LoopInv, StacksTyped
<1>5. /\ handlerOf'[i] = None /\ awaited'[i] = None /\ frames'[i] = << >>
      /\ DOMAIN frames' = Task
      /\ \A j \in Task : j # i => /\ frames'[j] = frames[j] /\ handlerOf'[j] = handlerOf[j]
                                  /\ awaited'[j] = awaited[j]
  BY <1>2, <1>3, <1>4 DEF TypeOK
<1>6. EventsTyped'
  <2>1. \A j \in Task : pendingSend'[j] \in {None, pendingSend[j]}
    BY <1>3, <1>4 DEF TypeOK
  <2> QED BY <1>3, <1>4, <2>1, EventsKept DEF ProgramInv
<1>7. raised' # None => status' = "aborted"
  BY <1>2 DEF Abort, End
<1>8. StackTyped(prog, frames'[i], Len(field))
  BY <1>5, EmptyStack
<1> QED BY <1>1, <1>2, <1>5, <1>6, <1>7, <1>8, TurnEnds

LEMMA RunOver ==
  ASSUME ProgramInv, NEW i \in Task,
         HandlerEnd(i) \/ StopStmt(i) \/ AbortHandlerStmt(i) \/ Raise(i)
  PROVE  ProgramInv' /\ Next
<1>1. turn = i
  BY DEF HandlerEnd, StopStmt, AbortHandlerStmt, Raise, At
<1>2. ASSUME HandlerEnd(i) PROVE Finish(i) /\ Over(i, None)
  BY <1>2 DEF HandlerEnd
<1>3. ASSUME StopStmt(i) PROVE Stop(i) /\ Over(i, None)
  BY <1>3 DEF StopStmt
<1>4. ASSUME AbortHandlerStmt(i) \/ Raise(i) PROVE \E how : Abort(i) /\ Over(i, how)
  BY <1>4 DEF AbortHandlerStmt, Raise
<1> QED BY <1>1, <1>2, <1>3, <1>4, OverStep

-----------------------------------------------------------------------------
LEMMA InitInv == ProgramInit => ProgramInv
<1> SUFFICES ASSUME ProgramInit PROVE ProgramInv
  OBVIOUS
<1>1. /\ Init /\ prog \in Programs /\ turn = None /\ raised = None
      /\ frames = [i \in Task |-> << >>]
      /\ store = [x \in DOMAIN prog.lets |-> prog.lets[x].init]
      /\ field = prog.records
  BY DEF ProgramInit
<1>2. WellTyped(prog)
  BY <1>1, ProgramsAssumption
<1>3. LoopInv
  <2>1. OnePlace
    BY <1>1 DEF Init, OnePlace, Range, IsInjective
  <2>2. QueueTyped
    BY <1>1, EntryAssumption DEF Init, QueueTyped
  <2>3. AnswerMatchesAwait
    BY <1>1, NoneAssumption DEF Init, AnswerMatchesAwait, Range
  <2> QED BY <1>1, <2>1, <2>2, <2>3, InitType DEF LoopInv
<1>4. TurnOK
  BY <1>1 DEF TurnOK
<1>5. StoreTyped
  BY <1>1, <1>2 DEF StoreTyped, WellTyped
<1>6. StacksTyped
  <2>1. \A i \in Task : frames[i] = << >> /\ handlerOf[i] = None /\ awaited[i] = None
    BY <1>1 DEF Init
  <2>2. \A i \in Task : StackTyped(prog, frames[i], Len(field))
    BY <2>1, EmptyStack
  <2>3. DOMAIN frames = Task
    BY <1>1
  <2> QED BY <2>1, <2>2, <2>3 DEF StacksTyped
<1>7. EventsTyped
  <2>1. ASSUME NEW t \in Types
        PROVE  \A k \in 1..Len(queue[t]) : IsEventOf(queue[t][k].payload, t)
    <3>1. queue[t] = IF t = EntryType THEN << [type |-> t, payload |-> EntryValue] >> ELSE << >>
      BY <1>1 DEF Init
    <3>2. CASE t = EntryType
      <4>1. Len(queue[t]) = 1 /\ queue[t][1].payload = EntryValue
        BY <3>1, <3>2
      <4> QED BY <3>2, <4>1 DEF IsEventOf
    <3>3. CASE t # EntryType
      BY <3>1, <3>3
    <3> QED BY <3>2, <3>3
  <2>2. \A i \in Task : pendingSend[i] = None
    BY <1>1 DEF Init
  <2> QED BY <2>1, <2>2 DEF EventsTyped
<1> QED BY <1>3, <1>4, <1>5, <1>6, <1>7 DEF ProgramInv

LEMMA UnchangedInv == ProgramInv /\ UNCHANGED allVars => ProgramInv'
<1> SUFFICES ASSUME ProgramInv, UNCHANGED allVars PROVE ProgramInv'
  OBVIOUS
<1>1. UNCHANGED <<vars, prog, turn, frames, store, field, raised>>
  BY DEF allVars, progVars
<1>2. LoopInv'
  BY <1>1, LoopInvStep DEF ProgramInv
<1>3. TurnOK'
  BY <1>1 DEF ProgramInv, TurnOK, vars, IsHead
<1>4. StacksTyped'
  BY <1>1 DEF ProgramInv, StacksTyped, vars
<1>5. StoreTyped' /\ EventsTyped'
  BY <1>1, TypedEventsKept DEF ProgramInv, StoreTyped, vars
<1> QED BY <1>2, <1>3, <1>4, <1>5 DEF ProgramInv

(* A step inside of a turn leaves the loop as it is, any other step is one   *)
(* iteration of it.                                                          *)
LEMMA StepInv == ProgramInv /\ [ProgramNext]_allVars => ProgramInv' /\ [Next]_vars
<1> SUFFICES ASSUME ProgramInv, [ProgramNext]_allVars PROVE ProgramInv' /\ [Next]_vars
  OBVIOUS
<1>1. ASSUME NEW t \in Types, Start(t) PROVE ProgramInv' /\ Next
  BY <1>1, StartStep DEF Start, Next, Iterate
<1>2. CASE Leave
  BY <1>2, LeaveStep DEF Leave, Next, Iterate
<1>3. ASSUME NEW i \in Task, Enter(i) PROVE ProgramInv' /\ UNCHANGED vars
  BY <1>3, EnterStep DEF Enter
<1>4. ASSUME NEW i \in Task, Execute(i) PROVE ProgramInv' /\ [Next]_vars
  <2>1. ASSUME Compute(i) \/ Create(i) \/ AssignField(i) \/ IfStmt(i) \/ ForStmt(i)
               \/ MatchStmt(i) \/ Restore(i) \/ YieldStmt(i) \/ Call(i) \/ ReturnStmt(i)
               \/ EndOfFn(i)
        PROVE  ProgramInv' /\ UNCHANGED vars
    <3>1. UNCHANGED vars
      BY <2>1 DEF Compute, Create, AssignField, IfStmt, ForStmt, MatchStmt, Restore, YieldStmt,
                  Call, ReturnStmt, EndOfFn, Inside
    <3>2. ProgramInv'
      BY <2>1, ComputeStep, CreateStep, AssignFieldStep, IfStep, ForStep, MatchStep, RestoreStep,
         YieldStep, CallStep, ReturnStep, EndOfFnStep
    <3> QED BY <3>1, <3>2
  <2>2. ASSUME EmitStmt(i) \/ AwaitExpr(i) \/ HandlerEnd(i) \/ StopStmt(i)
               \/ AbortHandlerStmt(i) \/ Raise(i)
        PROVE  ProgramInv' /\ Next
    BY <2>2, EmitStep, AwaitStep, RunOver
  <2> QED BY <1>4, <2>1, <2>2 DEF Execute
<1>5. CASE UNCHANGED allVars
  BY <1>5, UnchangedInv DEF allVars
<1> QED BY <1>1, <1>2, <1>3, <1>4, <1>5 DEF ProgramNext, Halted

LEMMA ProgramsTyped == ProgramSpec => []ProgramInv
<1>1. ProgramInv /\ [ProgramNext]_allVars => ProgramInv'
  BY StepInv
<1> QED BY <1>1, InitInv, PTL DEF ProgramSpec

(* The programs run on the event loop of EventLoop: whatever the handlers    *)
(* and functions do, a step of the interpreter is an iteration of the loop   *)
(* or leaves it as it is. So the theorems about the loop hold of them.       *)
THEOREM ProgramsRunOnLoop == ProgramSpec => Spec
<1>1. ProgramInit => Init
  BY DEF ProgramInit
<1>2. ProgramInv /\ [ProgramNext]_allVars => [Next]_vars
  BY StepInv
<1> QED BY <1>1, <1>2, ProgramsTyped, PTL DEF ProgramSpec, Spec

(* What two sectors and their programs promise each other through events:    *)
(* the loop under them is the event bus.                                     *)
THEOREM ProgramsUseBus == ProgramSpec => ImplementsEventBus
  BY ProgramsRunOnLoop, LoopImplementsBus, PTL

(* Every variable has its type, a live task has activations and each caller  *)
(* waits at the call of the next inner one.                                  *)
THEOREM ProgramTypeCorrect == ProgramSpec => []ProgramTypeOK
<1>1. ASSUME ProgramInv PROVE ProgramTypeOK
  <2>1. \A i \in Task : frames[i] # << >> <=> handlerOf[i] # None
    BY <1>1 DEF ProgramInv, StacksTyped
  <2>2. ASSUME NEW i \in Task, NEW k \in 2..Len(frames[i])
        PROVE  CallsFor(frames[i][k], frames[i][k - 1].fn)
    BY <1>1 DEF ProgramInv, StacksTyped, StackTyped
  <2>3. \A x \in DOMAIN store : store[x].tag \in {"int", "rec", "ctor", "none"}
    BY <1>1, ConstructorsTyped DEF ProgramInv, StoreTyped
  <2> QED BY <1>1, <2>1, <2>2, <2>3
        DEF ProgramTypeOK, CallsFor, Statement, ProgramInv, TurnOK, StoreTyped
<1> QED BY <1>1, ProgramsTyped, PTL

(* A value is queued for a type, or sent to a task that awaits it, only if   *)
(* it is an event of that type: the type the interpreter finds at run time   *)
(* is the static one, whatever the programs, constructors and handlers are.  *)
THEOREM EmitsKeepTheirType == ProgramSpec => []EmitKeepsType
<1>1. ASSUME ProgramInv PROVE EmitKeepsType
  <2>1. ASSUME NEW t \in Types, NEW k \in DOMAIN queue[t]
        PROVE  IsEvent(queue[t][k].payload, t)
    <3>1. k \in 1..Len(queue[t])
      BY <1>1 DEF ProgramInv, LoopInv, TypeOK
    <3> QED BY <1>1, <3>1, EventsAreEvents DEF ProgramInv, EventsTyped
  <2>2. \A i \in Task : pendingSend[i] # None =>
          IsEvent(pendingSend[i].payload, pendingSend[i].type)
    BY <1>1, EventsAreEvents DEF ProgramInv, EventsTyped
  <2> QED BY <2>1, <2>2 DEF EmitKeepsType
<1> QED BY <1>1, ProgramsTyped, PTL

(* The variables that a statement reads are in scope at its point.           *)
LEMMA ReadsInScope ==
  ASSUME NEW p, NEW f, NEW B, NEW d, NEW fr, fr.code # << >>,
         Accepted(p, f, B, d, Head(fr.code)), NEW x \in Reads(fr)
  PROVE  \E ty : Variable(p, f, B, x, ty)
<1> DEFINE st == Head(fr.code)
<1>1. CASE st.op \in {"match", "setfield"}
  <2>1. x = st.x
    BY <1>1 DEF Reads
  <2> QED BY <1>1, <2>1 DEF Accepted
<1>2. CASE st.op \notin {"match", "setfield"}
  <2>1. /\ st.op \in {"let", "set", "expr", "if", "return", "emit"} /\ x = st.e.x
        /\ st.e.k \in CallKinds \cup {"var", "inc", "get", "less"}
    BY <1>2 DEF Reads
  <2>2. \E ty : Typed(p, f, B, st.e, ty)
    BY <2>1 DEF Accepted, HasSomeType
  <2> QED BY <2>1, <2>2 DEF Typed, CallKinds
<1> QED BY <1>1, <1>2

(* A variable is bound when it is read, in the activations of handlers and   *)
(* of functions called within and between sectors, however the tasks         *)
(* interleave: no read falls through to Python's None.                       *)
THEOREM ReadsAreBound == ProgramSpec => []VariablesBound
<1>1. ASSUME ProgramInv PROVE VariablesBound
  <2> SUFFICES ASSUME turn # None, NEW x \in Reads(Top(turn))
               PROVE  x \in DOMAIN Top(turn).env \/ Mine(Top(turn), x)
    BY DEF VariablesBound
  <2>1. PICK i \in Task : turn = i
    BY <1>1 DEF ProgramInv, TurnOK
  <2> DEFINE fr == Top(i)
  <2>2. prog \in Programs /\ FrameTyped(prog, fr, Len(field)) /\ StoreTyped
    BY <1>1, <2>1, RunningTask DEF ProgramInv
  <2>3. fr.code # << >>
    BY <2>1 DEF Reads
  <2>4. PICK pt \in Points(prog, fr.fn) :
          IsAt(fr, pt) /\ Accepted(prog, fr.fn, pt.bound, Len(fr.saved), Head(fr.code))
    BY <2>2, <2>3, FramePoint
  <2>5. PICK ty : Variable(prog, fr.fn, pt.bound, x, ty)
    BY <2>1, <2>3, <2>4, ReadsInScope
  <2> QED BY <2>1, <2>2, <2>4, <2>5, ReadTyped DEF IsAt
<1> QED BY <1>1, ProgramsTyped, PTL

-----------------------------------------------------------------------------
(* A function in echoes that is called with a local variable of its caller   *)
(* holds the value of that variable in its parameter until it returns.       *)
Echoed(callee, caller) ==
  LET x == prog.fns[callee.fn].param  y == Head(caller.code).e.x IN
  callee.fn \in prog.echoes =>
    /\ x \in DOMAIN callee.env /\ y \in DOMAIN caller.env
    /\ callee.env[x] = caller.env[y]
EchoStack(fs) == \A k \in 2..Len(fs) : Echoed(fs[k - 1], fs[k])
EchoInv == \A i \in Task : EchoStack(frames[i])

(* The activation goes on and keeps its parameter.                           *)
KeepsParam(fr, gr) ==
  LET x == prog.fns[fr.fn].param IN
  /\ gr.fn = fr.fn
  /\ fr.fn \in prog.echoes /\ x \in DOMAIN fr.env =>
       x \in DOMAIN gr.env /\ gr.env[x] = fr.env[x]

LEMMA EchoedKept ==
  ASSUME NEW fr, NEW gr, NEW caller, Echoed(fr, caller), KeepsParam(fr, gr)
  PROVE  Echoed(gr, caller)
  BY DEF Echoed, KeepsParam

LEMMA EchoReplace ==
  ASSUME NEW fs, IsSeq(fs), fs # << >>, EchoStack(fs), NEW gr, KeepsParam(Head(fs), gr)
  PROVE  EchoStack(<< gr >> \o Tail(fs)) /\ Len(<< gr >> \o Tail(fs)) = Len(fs)
<1> DEFINE gs == << gr >> \o Tail(fs)
<1>1. /\ IsSeq(Tail(fs)) /\ Len(Tail(fs)) = Len(fs) - 1 /\ Len(fs) \in Nat \ {0}
      /\ Head(fs) = fs[1] /\ \A k \in 1..Len(fs) - 1 : Tail(fs)[k] = fs[k + 1]
  BY TailIsSeq
<1>2. Len(gs) = Len(fs) /\ gs[1] = gr /\ \A k \in 2..Len(fs) : gs[k] = fs[k]
  BY <1>1, ConsSeq
<1> HIDE DEF gs
<1>3. ASSUME NEW k \in 2..Len(gs) PROVE Echoed(gs[k - 1], gs[k])
  <2>1. Echoed(fs[k - 1], fs[k]) /\ gs[k] = fs[k]
    BY <1>2 DEF EchoStack
  <2>2. CASE k = 2
    <3>1. fs[k - 1] = Head(fs) /\ gs[k - 1] = gr
      BY <1>1, <1>2, <2>2
    <3> QED BY <2>1, <3>1, EchoedKept
  <2>3. CASE k # 2
    <3>1. gs[k - 1] = fs[k - 1]
      BY <1>1, <1>2, <2>3
    <3> QED BY <2>1, <3>1
  <2> QED BY <2>2, <2>3
<1>4. EchoStack(gs)
  BY <1>3 DEF EchoStack
<1> QED BY <1>2, <1>4 DEF gs

LEMMA EchoTail ==
  ASSUME NEW fs, IsSeq(fs), fs # << >>, EchoStack(fs)
  PROVE  EchoStack(Tail(fs))
<1> DEFINE gs == Tail(fs)
<1>1. /\ Len(gs) = Len(fs) - 1 /\ Len(fs) \in Nat \ {0}
      /\ \A k \in 1..Len(fs) - 1 : gs[k] = fs[k + 1]
  BY TailIsSeq
<1> HIDE DEF gs
<1>2. ASSUME NEW k \in 2..Len(gs) PROVE Echoed(gs[k - 1], gs[k])
  <2>1. gs[k] = fs[k + 1] /\ gs[k - 1] = fs[k + 1 - 1] /\ k + 1 \in 2..Len(fs)
    BY <1>1
  <2> QED BY <2>1 DEF EchoStack
<1>3. EchoStack(gs)
  BY <1>2 DEF EchoStack
<1> QED BY <1>3 DEF gs

LEMMA EchoPush ==
  ASSUME NEW fs, IsSeq(fs), fs # << >>, EchoStack(fs), NEW fr, Echoed(fr, Head(fs))
  PROVE  EchoStack(<< fr >> \o fs) /\ Len(<< fr >> \o fs) = Len(fs) + 1
<1> DEFINE gs == << fr >> \o fs
<1>1. Len(fs) \in Nat \ {0} /\ Head(fs) = fs[1]
  BY TailIsSeq
<1>2. Len(gs) = Len(fs) + 1 /\ gs[1] = fr /\ \A k \in 2..Len(fs) + 1 : gs[k] = fs[k - 1]
  BY <1>1, ConsSeq
<1> HIDE DEF gs
<1>3. ASSUME NEW k \in 2..Len(gs) PROVE Echoed(gs[k - 1], gs[k])
  <2>1. CASE k = 2
    BY <1>1, <1>2, <2>1
  <2>2. CASE k # 2
    <3>1. gs[k] = fs[k - 1] /\ gs[k - 1] = fs[k - 1 - 1] /\ k - 1 \in 2..Len(fs)
      BY <1>1, <1>2, <2>2
    <3> QED BY <3>1 DEF EchoStack
  <2> QED BY <2>1, <2>2
<1>4. EchoStack(gs)
  BY <1>3 DEF EchoStack
<1> QED BY <1>2, <1>4 DEF gs

LEMMA PutOthers ==
  \A env, x, v :
    /\ x \in DOMAIN Put(env, x, v) /\ Put(env, x, v)[x] = v
    /\ \A y \in DOMAIN env : y \in DOMAIN Put(env, x, v)
                             /\ (y # x => Put(env, x, v)[y] = env[y])
  BY DEF Put

(* A statement changes no other variable than its own.                       *)
LEMMA BoundEnv ==
  ASSUME NEW fr, IsFrame(fr), NEW st, Statement(st), NEW v
  PROVE  /\ Bound(fr, st, v).fn = fr.fn
         /\ st.op = "let" => Bound(fr, st, v).env[st.x] = v
         /\ \A y \in DOMAIN fr.env :
              st.op = "expr" \/ y # st.x => /\ y \in DOMAIN Bound(fr, st, v).env
                                           /\ Bound(fr, st, v).env[y] = fr.env[y]
<1> DEFINE gr == Bound(fr, st, v)
<1>1. /\ IsFrame(Past(fr)) /\ Past(fr).fn = fr.fn /\ Past(fr).env = fr.env
      /\ Past(fr).types = fr.types
  BY PastFrame
<1>2. CASE st.op = "let"
  <2> DEFINE types == IF st.e.k = "await" THEN Put(fr.types, st.x, st.e.t) ELSE fr.types
  <2>1. gr = [Past(fr) EXCEPT !.env = Put(Past(fr).env, st.x, v),
                              !.types = IF st.e.k = "await" THEN Put(Past(fr).types, st.x, st.e.t)
                                                            ELSE Past(fr).types]
    BY <1>2 DEF Bound
  <2>2. gr = [Past(fr) EXCEPT !.env = Put(fr.env, st.x, v), !.types = types]
    BY <1>1, <2>1
  <2> HIDE DEF types
  <2>3. gr = Frame(fr.fn, fr.sector, Tail(fr.code), Put(fr.env, st.x, v), types, fr.saved)
    BY <2>2, PastUpdates
  <2> HIDE DEF gr
  <2>4. gr.fn = fr.fn /\ gr.env = Put(fr.env, st.x, v)
    BY <2>3, FrameFields
  <2>5. /\ gr.fn = fr.fn /\ gr.env[st.x] = v
        /\ \A y \in DOMAIN fr.env : y # st.x => y \in DOMAIN gr.env /\ gr.env[y] = fr.env[y]
    BY <2>4, PutOthers
  <2> QED BY <1>2, <2>5 DEF gr
<1>3. CASE st.op = "set" /\ ~Mine(fr, st.x)
  <2>1. gr = [Past(fr) EXCEPT !.env = Put(fr.env, st.x, v)]
    BY <1>1, <1>3 DEF Bound
  <2>2. gr = Frame(fr.fn, fr.sector, Tail(fr.code), Put(fr.env, st.x, v), fr.types, fr.saved)
    BY <2>1, PastUpdates
  <2> HIDE DEF gr
  <2>3. gr.fn = fr.fn /\ gr.env = Put(fr.env, st.x, v)
    BY <2>2, FrameFields
  <2>4. /\ gr.fn = fr.fn
        /\ \A y \in DOMAIN fr.env : y # st.x => y \in DOMAIN gr.env /\ gr.env[y] = fr.env[y]
    BY <2>3, PutOthers
  <2> QED BY <1>3, <2>4 DEF gr
<1>4. CASE st.op # "let" /\ ~(st.op = "set" /\ ~Mine(fr, st.x))
  <2>1. gr = Past(fr)
    BY <1>4 DEF Bound
  <2> QED BY <1>1, <1>4, <2>1
<1> QED BY <1>2, <1>3, <1>4

LEMMA EchoPoint ==
  ASSUME prog \in Programs, NEW fr, NEW n, FrameTyped(prog, fr, n), fr.fn \in prog.echoes
  PROVE  LET st == Head(fr.code)  x == prog.fns[fr.fn].param IN
         /\ fr.code # << >> /\ x \in DOMAIN fr.env
         /\ st.op = "return" => st.e.k = "var" /\ st.e.x = x
         /\ st.op \in {"let", "set", "for", "restore"} => st.x # x
         /\ st.op = "match" => \A arm \in Range(st.arms) : arm.x # x
<1>1. PICK pt \in Points(prog, fr.fn) : IsAt(fr, pt)
  BY DEF FrameTyped
<1>2. ReturnsParameter(prog, fr.fn, pt)
  BY <1>1, EchoesAssumption
<1>3. pt.code = fr.code /\ pt.bound \subseteq DOMAIN fr.env
  BY <1>1 DEF IsAt
<1> QED BY <1>2, <1>3 DEF ReturnsParameter

(* A step in which no function returns to its caller.                        *)
NoneReturns == \A j \in Task : Len(frames[j]) > 1 => Len(frames'[j]) # Len(frames[j]) - 1

LEMMA SameDepth ==
  ASSUME NEW a, NEW b, IsSeq(a), Len(b) = Len(a)
  PROVE  Len(a) > 1 => Len(b) # Len(a) - 1
<1>1. Len(a) \in Nat
  BY DEF IsSeq
<1> QED BY <1>1

LEMMA StacksAreSeqs ==
  ASSUME ProgramInv
  PROVE  /\ DOMAIN frames = Task
         /\ \A j \in Task : IsSeq(frames[j])
  BY DEF ProgramInv, StacksTyped, StackTyped

(* One stack changes to gs.                                                  *)
LEMMA EchoOne ==
  ASSUME ProgramInv, EchoInv, NEW i \in Task, UNCHANGED prog,
         NEW gs, EchoStack(gs), frames' = [frames EXCEPT ![i] = gs]
  PROVE  /\ EchoInv' /\ frames'[i] = gs
         /\ \A j \in Task : j # i => frames'[j] = frames[j]
<1>1. frames'[i] = gs /\ \A j \in Task : j # i => frames'[j] = frames[j]
  BY StacksAreSeqs
<1>2. \A j \in Task : EchoStack(frames[j])
  BY DEF EchoInv
<1>3. ASSUME NEW j \in Task PROVE EchoStack(frames[j])'
  <2>1. CASE j = i
    BY <1>1, <2>1 DEF EchoStack, Echoed
  <2>2. CASE j # i
    BY <1>1, <1>2, <2>2 DEF EchoStack, Echoed
  <2> QED BY <2>1, <2>2
<1> QED BY <1>1, <1>3 DEF EchoInv

LEMMA EchoSame ==
  ASSUME ProgramInv, EchoInv, UNCHANGED <<prog, frames>>
  PROVE  EchoInv' /\ NoneReturns
<1>1. EchoInv'
  BY DEF EchoInv, EchoStack, Echoed
<1>2. NoneReturns
  BY StacksAreSeqs, SameDepth DEF NoneReturns
<1> QED BY <1>1, <1>2

LEMMA EchoGoto ==
  ASSUME ProgramInv, EchoInv, NEW i \in Task, turn = i, UNCHANGED prog,
         NEW gr, KeepsParam(Top(i), gr), Goto(i, gr)
  PROVE  EchoInv' /\ NoneReturns
<1> DEFINE gs == << gr >> \o Tail(frames[i])
<1>1. IsSeq(frames[i]) /\ frames[i] # << >> /\ EchoStack(frames[i])
  BY RunningTask DEF StackTyped, EchoInv
<1>2. EchoStack(gs) /\ Len(gs) = Len(frames[i])
  BY <1>1, EchoReplace DEF Top
<1>3. frames' = [frames EXCEPT ![i] = gs]
  BY DEF Goto
<1> HIDE DEF gs
<1>4. EchoInv' /\ frames'[i] = gs /\ \A j \in Task : j # i => frames'[j] = frames[j]
  BY <1>2, <1>3, EchoOne
<1>5. \A j \in Task : Len(frames'[j]) = Len(frames[j])
  BY <1>2, <1>4
<1>6. NoneReturns
  BY <1>5, StacksAreSeqs, SameDepth DEF NoneReturns
<1> QED BY <1>4, <1>6

LEMMA BoundKeepsParam ==
  ASSUME prog \in Programs, NEW fr, NEW n, FrameTyped(prog, fr, n),
         Statement(Head(fr.code)), NEW v
  PROVE  KeepsParam(fr, Bound(fr, Head(fr.code), v))
<1> DEFINE st == Head(fr.code)  gr == Bound(fr, st, v)
<1>1. /\ gr.fn = fr.fn
      /\ \A y \in DOMAIN fr.env :
           st.op = "expr" \/ y # st.x => y \in DOMAIN gr.env /\ gr.env[y] = fr.env[y]
  BY BoundEnv DEF FrameTyped
<1>2. fr.fn \in prog.echoes => st.op = "expr" \/ prog.fns[fr.fn].param # st.x
  BY EchoPoint DEF Statement
<1> HIDE DEF gr
<1>3. KeepsParam(fr, gr)
  BY <1>1, <1>2 DEF KeepsParam
<1> QED BY <1>3 DEF gr

LEMMA EchoDeliver ==
  ASSUME ProgramInv, EchoInv, NEW i \in Task, UNCHANGED prog,
         NEW fs, StackTyped(prog, fs, Len(field)), EchoStack(fs), fs # << >>,
         Statement(Head(Head(fs).code)), NEW v, Deliver(i, fs, v)
  PROVE  /\ EchoInv' /\ Len(frames'[i]) = Len(fs)
         /\ Head(frames'[i]) = Bound(Head(fs), Head(Head(fs).code), v)
         /\ \A j \in Task : j # i => frames'[j] = frames[j]
<1> DEFINE fr == Head(fs)  gr == Bound(fr, Head(fr.code), v)  gs == << gr >> \o Tail(fs)
<1>1. prog \in Programs /\ FrameTyped(prog, fr, Len(field)) /\ IsSeq(fs)
  BY TopTyped DEF ProgramInv, TurnOK, StackTyped
<1>2. KeepsParam(fr, gr)
  BY <1>1, BoundKeepsParam
<1> HIDE DEF gr
<1>3. EchoStack(gs) /\ Len(gs) = Len(fs)
  BY <1>1, <1>2, EchoReplace
<1>4. Head(gs) = gr
  BY <1>1, TailIsSeq, ConsSeq
<1>5. frames' = [frames EXCEPT ![i] = gs]
  BY DEF Deliver, gr
<1> HIDE DEF gs
<1>6. EchoInv' /\ frames'[i] = gs /\ \A j \in Task : j # i => frames'[j] = frames[j]
  BY <1>3, <1>5, EchoOne
<1> QED BY <1>3, <1>4, <1>6 DEF gr

LEMMA EchoOnTop ==
  ASSUME ProgramInv, EchoInv, NEW i \in Task, UNCHANGED prog, frames[i] # << >>,
         Statement(Head(Top(i).code)), NEW v, Deliver(i, frames[i], v)
  PROVE  EchoInv' /\ NoneReturns
<1>1. StackTyped(prog, frames[i], Len(field)) /\ EchoStack(frames[i])
  BY DEF ProgramInv, StacksTyped, EchoInv
<1>2. /\ EchoInv' /\ Len(frames'[i]) = Len(frames[i])
      /\ \A j \in Task : j # i => frames'[j] = frames[j]
  BY <1>1, EchoDeliver DEF Top
<1>3. \A j \in Task : Len(frames'[j]) = Len(frames[j])
  BY <1>2
<1>4. NoneReturns
  BY <1>3, StacksAreSeqs, SameDepth DEF NoneReturns
<1> QED BY <1>2, <1>4

LEMMA EchoEnter ==
  ASSUME ProgramInv, EchoInv, NEW i \in Task, Enter(i) PROVE EchoInv' /\ NoneReturns
<1>1. turn = None /\ IsHead(i) /\ UNCHANGED prog
  BY DEF Enter
<1>2. CASE pendingSend[i] = None
  BY <1>1, <1>2, EchoSame DEF Enter
<1>3. CASE pendingSend[i] # None
  <2>1. Deliver(i, frames[i], pendingSend[i].payload)
    BY <1>3 DEF Enter
  <2>2. /\ IsEventOf(pendingSend[i].payload, pendingSend[i].type)
        /\ awaited[i] = pendingSend[i].type
    BY <1>3 DEF ProgramInv, LoopInv, EventsTyped, AnswerMatchesAwait
  <2>3. awaited[i] # None /\ turn # i
    BY <1>1, <2>2, EventsAreEvents, NoneAssumption, SectorTaskAssumption
  <2>4. AwaitsIn(frames[i], awaited[i])
    BY <2>3 DEF ProgramInv, StacksTyped
  <2>5. frames[i] # << >> /\ Statement(Head(Top(i).code))
    BY <2>4 DEF AwaitsIn, Top
  <2> QED BY <1>1, <2>1, <2>5, EchoOnTop
<1> QED BY <1>2, <1>3

LEMMA EchoCompute ==
  ASSUME ProgramInv, EchoInv, NEW i \in Task, Compute(i) \/ Create(i)
  PROVE  EchoInv' /\ NoneReturns
<1>1. /\ turn = i /\ Statement(Head(Top(i).code)) /\ UNCHANGED prog
      /\ \E v : Deliver(i, frames[i], v)
  BY DEF Compute, Create, Eval, At, Here, Statement, Inside
<1>2. frames[i] # << >>
  BY <1>1, RunningTask
<1> QED BY <1>1, <1>2, EchoOnTop

(* The other statements leave the parameter of a function in echoes alone.   *)
LEMMA EchoPast ==
  ASSUME ProgramInv, EchoInv, NEW i \in Task, turn = i, UNCHANGED prog, NEW code,
         Goto(i, [Top(i) EXCEPT !.code = code])
  PROVE  EchoInv' /\ NoneReturns
<1>1. IsFrame(Top(i))
  BY RunningTask DEF FrameTyped
<1> DEFINE fr == Top(i)  gr == [fr EXCEPT !.code = code]
<1>2. gr = Frame(fr.fn, fr.sector, code, fr.env, fr.types, fr.saved)
  BY <1>1, FrameUpdates
<1> HIDE DEF gr
<1>3. gr.fn = fr.fn /\ gr.env = fr.env
  BY <1>2, FrameFields
<1>4. KeepsParam(fr, gr)
  BY <1>3 DEF KeepsParam
<1>5. Goto(i, gr)
  BY DEF gr
<1> QED BY <1>4, <1>5, EchoGoto

LEMMA EchoFor ==
  ASSUME ProgramInv, EchoInv, NEW i \in Task, ForStmt(i) PROVE EchoInv' /\ NoneReturns
<1> DEFINE fr == Top(i)  st == Head(fr.code)
<1>1. turn = i /\ fr.code # << >> /\ st.op = "for" /\ UNCHANGED prog
  BY DEF ForStmt, At, Here, Inside
<1>2. CASE st.xs = << >>
  <2>1. Goto(i, [fr EXCEPT !.code = Tail(fr.code)])
    BY <1>2 DEF ForStmt, Here, Past
  <2> QED BY <1>1, <2>1, EchoPast
<1>3. CASE st.xs # << >>
  <2> DEFINE code == st.body \o << [st EXCEPT !.xs = Tail(@)] >> \o Tail(fr.code)
             env == Put(fr.env, st.x, Head(st.xs))
             gr == Frame(fr.fn, fr.sector, code, env, fr.types, fr.saved)
  <2>1. Goto(i, [fr EXCEPT !.env = env, !.code = code])
    BY <1>3 DEF ForStmt, Here
  <2>2. prog \in Programs /\ FrameTyped(prog, fr, Len(field)) /\ IsFrame(fr)
    BY <1>1, RunningTask DEF FrameTyped
  <2> HIDE DEF code
  <2>3. Goto(i, gr)
    <3> HIDE DEF env
    <3>1. [fr EXCEPT !.env = env, !.code = code] = gr
      BY <2>2, EnvCodeUpdate
    <3> QED BY <2>1, <3>1
  <2>4. gr.fn = fr.fn /\ gr.env = env
    BY FrameFields
  <2> HIDE DEF gr
  <2>5. fr.fn \in prog.echoes => prog.fns[fr.fn].param # st.x
    BY <1>1, <2>2, EchoPoint
  <2>6. KeepsParam(fr, gr)
    BY <2>4, <2>5, PutOthers DEF KeepsParam
  <2> QED BY <1>1, <2>3, <2>6, EchoGoto
<1> QED BY <1>2, <1>3

LEMMA EchoMatch ==
  ASSUME ProgramInv, EchoInv, NEW i \in Task, MatchStmt(i) PROVE EchoInv' /\ NoneReturns
<1> DEFINE fr == Top(i)  st == Head(fr.code)  v == Read(fr, st.x)
<1>1. turn = i /\ fr.code # << >> /\ st.op = "match" /\ UNCHANGED prog
  BY DEF MatchStmt, At, Here, Inside
<1>2. PICK k \in DOMAIN st.arms :
        Goto(i, [fr EXCEPT
          !.env = IF st.arms[k].x = None THEN fr.env ELSE Put(fr.env, st.arms[k].x, v),
          !.saved = << [y \in DOMAIN fr.env \cap {st.arms[k].x} |-> fr.env[y]] >> \o fr.saved,
          !.code = st.arms[k].body \o << [op |-> "restore", x |-> st.arms[k].x] >> \o Tail(fr.code)])
  BY DEF MatchStmt, Here
<1> DEFINE arm == st.arms[k]
           env == IF arm.x = None THEN fr.env ELSE Put(fr.env, arm.x, v)
           saved == << [y \in DOMAIN fr.env \cap {arm.x} |-> fr.env[y]] >> \o fr.saved
           code == arm.body \o << [op |-> "restore", x |-> arm.x] >> \o Tail(fr.code)
           gr == Frame(fr.fn, fr.sector, code, env, fr.types, saved)
<1>3. Goto(i, InArm(fr, env, saved, code))
  BY <1>2 DEF InArm
<1>4. arm \in Range(st.arms)
  BY DEF Range
<1>5. prog \in Programs /\ FrameTyped(prog, fr, Len(field)) /\ IsFrame(fr)
  BY <1>1, RunningTask DEF FrameTyped
<1> HIDE DEF v, arm, code, saved
<1>6. Goto(i, gr)
  <2> HIDE DEF env
  <2>1. InArm(fr, env, saved, code) = gr
    BY <1>5, MatchUpdate
  <2> QED BY <1>3, <2>1
<1>7. gr.fn = fr.fn /\ gr.env = env
  BY FrameFields
<1> HIDE DEF gr
<1>8. fr.fn \in prog.echoes => prog.fns[fr.fn].param # arm.x
  BY <1>1, <1>4, <1>5, EchoPoint
<1>9. KeepsParam(fr, gr)
  <2>1. CASE arm.x = None
    BY <1>7, <2>1 DEF KeepsParam
  <2>2. CASE arm.x # None
    <3>1. env = Put(fr.env, arm.x, v)
      BY <2>2
    <3> HIDE DEF env
    <3> QED BY <1>7, <1>8, <3>1, PutOthers DEF KeepsParam
  <2> QED BY <2>1, <2>2
<1> QED BY <1>1, <1>6, <1>9, EchoGoto

LEMMA EchoRestore ==
  ASSUME ProgramInv, EchoInv, NEW i \in Task, Restore(i) PROVE EchoInv' /\ NoneReturns
<1> DEFINE fr == Top(i)  st == Head(fr.code)  prev == Head(fr.saved)  x == st.x
           saved == Tail(fr.saved)
           env == [y \in (DOMAIN fr.env \ {x}) \cup (DOMAIN prev \cap {x}) |->
                     IF y = x THEN prev[y] ELSE fr.env[y]]
           gr == Frame(fr.fn, fr.sector, Tail(fr.code), env, fr.types, saved)
<1>1. turn = i /\ fr.code # << >> /\ st.op = "restore" /\ UNCHANGED prog
  BY DEF Restore, At, Here, Inside
<1>2. prog \in Programs /\ FrameTyped(prog, fr, Len(field)) /\ IsFrame(fr)
  BY <1>1, RunningTask DEF FrameTyped
<1>3. Goto(i, [Past(fr) EXCEPT !.saved = saved, !.env = env])
  <2>1. Past(fr).saved = fr.saved /\ Past(fr).env = fr.env
    BY <1>2, PastFrame
  <2>2. Goto(i, [Past(fr) EXCEPT
          !.saved = Tail(Past(fr).saved),
          !.env = [y \in (DOMAIN Past(fr).env \ {x}) \cup (DOMAIN prev \cap {x}) |->
                     IF y = x THEN prev[y] ELSE Past(fr).env[y]]])
    BY DEF Restore, Here
  <2> QED BY <2>1, <2>2
<1>4. fr.fn \in prog.echoes => prog.fns[fr.fn].param # x
  BY <1>1, <1>2, EchoPoint
<1>5. \A y \in DOMAIN fr.env : y # x => y \in DOMAIN env /\ env[y] = fr.env[y]
  OBVIOUS
<1> HIDE DEF saved, env, prev
<1>6. Goto(i, gr)
  BY <1>2, <1>3, RestoreUpdate
<1>7. gr.fn = fr.fn /\ gr.env = env
  BY FrameFields
<1> HIDE DEF gr
<1>8. KeepsParam(fr, gr)
  BY <1>4, <1>5, <1>7 DEF KeepsParam
<1> QED BY <1>1, <1>6, <1>8, EchoGoto

LEMMA EchoMoves ==
  ASSUME ProgramInv, EchoInv, NEW i \in Task,
         AssignField(i) \/ IfStmt(i) \/ YieldStmt(i) \/ EmitStmt(i)
  PROVE  EchoInv' /\ NoneReturns
<1>1. turn = i /\ UNCHANGED prog
  BY DEF AssignField, IfStmt, YieldStmt, EmitStmt, At, Inside
<1>2. ASSUME AssignField(i) \/ YieldStmt(i) \/ EmitStmt(i)
      PROVE  Goto(i, [Top(i) EXCEPT !.code = Tail(Top(i).code)])
  BY <1>2 DEF AssignField, YieldStmt, EmitStmt, Past
<1>3. ASSUME IfStmt(i) PROVE \E code : Goto(i, [Top(i) EXCEPT !.code = code])
  BY <1>3 DEF IfStmt
<1> QED BY <1>1, <1>2, <1>3, EchoPast

LEMMA EchoCall ==
  ASSUME ProgramInv, EchoInv, NEW i \in Task, Call(i) PROVE EchoInv' /\ NoneReturns
<1> DEFINE fr == Top(i)  st == Head(fr.code)  e == st.e  f == e.f  v == Read(fr, e.x)
           x == prog.fns[f].param
           gr == [fn |-> f, sector |-> CalleeSector(fr, e), code |-> prog.fns[f].body,
                  env |-> ArgEnv(fr, f, e.x), types |-> Empty, saved |-> << >>]
           gs == << gr >> \o frames[i]
<1>1. /\ turn = i /\ fr.code # << >> /\ Statement(st) /\ e.k \in CallKinds /\ UNCHANGED prog
      /\ frames' = [frames EXCEPT ![i] = gs]
  BY DEF Call, Eval, At, Here, Statement, Inside, Pushed
<1>2. /\ prog \in Programs /\ FrameTyped(prog, fr, Len(field)) /\ frames[i] # << >>
      /\ IsSeq(frames[i]) /\ EchoStack(frames[i])
  BY <1>1, RunningTask DEF StackTyped, EchoInv
<1>3. f \in prog.echoes => e.x \in DOMAIN fr.env
  <2>1. PICK pt \in Points(prog, fr.fn) : IsAt(fr, pt)
    BY <1>2 DEF FrameTyped
  <2>2. fr.fn \in BodyNames(prog)
    BY <1>2 DEF FrameTyped
  <2>3. CalledWithLocal(prog, pt)
    BY <1>2, <2>1, <2>2, EchoesAssumption
  <2> QED BY <1>1, <2>1, <2>3 DEF CalledWithLocal, IsAt, Statement
<1>4. gr.fn = f /\ gr.env = Put(Empty, x, v)
  BY DEF ArgEnv
<1> HIDE DEF gr
<1>5. x \in DOMAIN gr.env /\ gr.env[x] = v
  <2> HIDE DEF x, v
  <2>1. x \in DOMAIN Put(Empty, x, v) /\ Put(Empty, x, v)[x] = v
    BY PutOthers
  <2> QED BY <1>4, <2>1
<1>6. Echoed(gr, fr)
  <2>1. e.x \in DOMAIN fr.env => v = fr.env[e.x]
    BY DEF Read
  <2>2. prog.fns[gr.fn].param = x /\ gr.fn = f
    BY <1>4
  <2> HIDE DEF v, x, f
  <2> QED BY <1>3, <1>5, <2>1, <2>2 DEF Echoed
<1>7. EchoStack(gs) /\ Len(gs) = Len(frames[i]) + 1
  BY <1>2, <1>6, EchoPush DEF Top
<1> HIDE DEF gs
<1>8. EchoInv' /\ frames'[i] = gs /\ \A j \in Task : j # i => frames'[j] = frames[j]
  BY <1>1, <1>7, EchoOne
<1>9. NoneReturns
  <2>1. \A j \in Task : Len(frames[j]) \in Nat
    BY StacksAreSeqs DEF IsSeq
  <2>2. \A j \in Task : Len(frames'[j]) = Len(frames[j]) \/ Len(frames'[j]) = Len(frames[j]) + 1
    BY <1>7, <1>8
  <2> QED BY <2>1, <2>2 DEF NoneReturns
<1> QED BY <1>8, <1>9

LEMMA EchoOver ==
  ASSUME ProgramInv, EchoInv, NEW i \in Task,
         HandlerEnd(i) \/ StopStmt(i) \/ AbortHandlerStmt(i) \/ Raise(i)
  PROVE  EchoInv' /\ NoneReturns
<1>1. UNCHANGED prog /\ frames' = [frames EXCEPT ![i] = << >>]
  BY DEF HandlerEnd, StopStmt, AbortHandlerStmt, Raise, Over
<1>2. EchoStack(<< >>) /\ Len(<< >>) = 0
  BY EmptyIsSeq DEF EchoStack
<1>3. EchoInv' /\ frames'[i] = << >> /\ \A j \in Task : j # i => frames'[j] = frames[j]
  BY <1>1, <1>2, EchoOne
<1>4. NoneReturns
  <2>1. \A j \in Task : Len(frames[j]) \in Nat
    BY StacksAreSeqs DEF IsSeq
  <2>2. \A j \in Task : Len(frames'[j]) = Len(frames[j]) \/ Len(frames'[j]) = 0
    BY <1>2, <1>3
  <2> QED BY <2>1, <2>2 DEF NoneReturns
<1> QED BY <1>3, <1>4

LEMMA EchoStart ==
  ASSUME ProgramInv, EchoInv, NEW t \in Types, Start(t) PROVE EchoInv' /\ NoneReturns
<1>1. /\ UNCHANGED prog
      /\ frames' = [i \in Task |-> IF handlerOf[i] = None /\ handlerOf'[i] # None
                       THEN << HandlerFrame(handlerOf'[i], binding'[i]) >> ELSE frames[i]]
  BY DEF Start
<1>2. ASSUME NEW j \in Task
      PROVE  frames'[j] = frames[j] \/ (frames[j] = << >> /\ Len(frames'[j]) = 1)
  <2>1. CASE handlerOf[j] = None /\ handlerOf'[j] # None
    <3>1. frames[j] = << >>
      BY <2>1 DEF ProgramInv, StacksTyped
    <3>2. PICK fr : frames'[j] = << fr >>
      BY <1>1, <2>1
    <3> QED BY <3>1, <3>2
  <2>2. CASE ~(handlerOf[j] = None /\ handlerOf'[j] # None)
    BY <1>1, <2>2
  <2> QED BY <2>1, <2>2
<1>3. ASSUME NEW j \in Task PROVE EchoStack(frames[j])'
  <2>1. CASE frames'[j] = frames[j]
    BY <1>1, <2>1 DEF EchoInv, EchoStack, Echoed
  <2>2. CASE Len(frames'[j]) = 1
    BY <2>2 DEF EchoStack
  <2> QED BY <1>2, <2>1, <2>2
<1>4. NoneReturns
  BY <1>2, StacksAreSeqs, SameDepth, EmptyIsSeq DEF NoneReturns
<1> QED BY <1>3, <1>4 DEF EchoInv

LEMMA NoneReturnsEchoes == ASSUME NoneReturns PROVE \A j \in Task : Echoes(j)
  BY DEF NoneReturns, Echoes

(* A function returns to its caller, at the top of the stack below.          *)
LEMMA EchoReturn ==
  ASSUME ProgramInv, EchoInv, NEW i \in Task, turn = i, Len(frames[i]) > 1,
         UNCHANGED prog, NEW v, Deliver(i, Tail(frames[i]), v)
  PROVE  /\ EchoInv' /\ \A j \in Task : j # i => frames'[j] = frames[j]
         /\ Head(frames'[i]) = Bound(frames[i][2], Head(frames[i][2].code), v)
         /\ IsFrame(frames[i][2]) /\ CallsFor(frames[i][2], Top(i).fn)
<1> DEFINE fs == Tail(frames[i])
<1>1. StackTyped(prog, frames[i], Len(field)) /\ EchoStack(frames[i])
  BY RunningTask DEF EchoInv
<1>2. /\ StackTyped(prog, fs, Len(field)) /\ fs # << >> /\ frames[i] # << >>
      /\ CallsFor(Head(fs), Top(i).fn) /\ Head(fs) = frames[i][2]
  BY <1>1, PopFrame DEF Top
<1>3. EchoStack(fs)
  BY <1>1, <1>2, EchoTail DEF StackTyped
<1>4. Statement(Head(Head(fs).code)) /\ IsFrame(Head(fs))
  BY <1>2, TopTyped DEF CallsFor, FrameTyped
<1> HIDE DEF fs
<1>5. Deliver(i, fs, v)
  BY DEF fs
<1>6. /\ EchoInv' /\ Head(frames'[i]) = Bound(Head(fs), Head(Head(fs).code), v)
      /\ \A j \in Task : j # i => frames'[j] = frames[j]
  BY <1>2, <1>3, <1>4, <1>5, EchoDeliver
<1> QED BY <1>2, <1>4, <1>6

LEMMA OthersEcho ==
  ASSUME ProgramInv, NEW i \in Task, \A j \in Task : j # i => frames'[j] = frames[j], Echoes(i)
  PROVE  \A j \in Task : Echoes(j)
<1>1. ASSUME NEW j \in Task, j # i PROVE Echoes(j)
  BY <1>1, StacksAreSeqs, SameDepth DEF Echoes
<1> QED BY <1>1

LEMMA EchoReturnStmt ==
  ASSUME ProgramInv, EchoInv, NEW i \in Task, ReturnStmt(i)
  PROVE  EchoInv' /\ \A j \in Task : Echoes(j)
<1> DEFINE fr == Top(i)  st == Head(fr.code)  caller == frames[i][2]  v == Simple(fr, st.e)
           at == Head(caller.code)  w == ResultSeen(i, v)
<1>1. /\ turn = i /\ fr.code # << >> /\ st.op = "return" /\ Len(frames[i]) > 1 /\ UNCHANGED prog
      /\ Deliver(i, Tail(frames[i]), w)
  BY DEF ReturnStmt, At, Here, Inside
<1> HIDE DEF w
<1>2. /\ EchoInv' /\ \A j \in Task : j # i => frames'[j] = frames[j]
      /\ Head(frames'[i]) = Bound(caller, at, w)
      /\ IsFrame(caller) /\ CallsFor(caller, fr.fn)
  BY <1>1, EchoReturn
<1>3. ASSUME fr.fn \in prog.echoes, at.op = "let", at.e.k # "send"
      PROVE  Head(frames'[i]).env[at.x] = Read(caller, at.e.x)
  <2>1. Head(frames'[i]).env[at.x] = w
    BY <1>2, <1>3, BoundEnv DEF Statement
  <2>2. w = v
    BY <1>3 DEF w, ResultSeen
  <2>3. prog \in Programs /\ FrameTyped(prog, fr, Len(field)) /\ IsSeq(frames[i]) /\ frames[i] # << >>
    BY <1>1, RunningTask DEF StackTyped
  <2>4. st.e.k = "var" /\ st.e.x = prog.fns[fr.fn].param
    BY <1>1, <1>3, <2>3, EchoPoint
  <2>5. v = Read(fr, prog.fns[fr.fn].param)
    BY <2>4 DEF Simple
  <2>6. Echoed(fr, caller)
    <3>1. 2 \in 2..Len(frames[i]) /\ frames[i][2 - 1] = fr
      BY <1>1, <2>3, TailIsSeq DEF Top
    <3>2. EchoStack(frames[i])
      BY DEF EchoInv
    <3> QED BY <3>1, <3>2 DEF EchoStack
  <2>7. v = caller.env[at.e.x] /\ at.e.x \in DOMAIN caller.env
    BY <1>3, <2>5, <2>6 DEF Echoed, Read
  <2>8. Read(caller, at.e.x) = caller.env[at.e.x]
    BY <2>7 DEF Read
  <2> HIDE DEF v
  <2> QED BY <2>1, <2>2, <2>7, <2>8
<1>4. Echoes(i)
  BY <1>3 DEF Echoes
<1> QED BY <1>2, <1>4, OthersEcho

LEMMA EchoEnd ==
  ASSUME ProgramInv, EchoInv, NEW i \in Task, EndOfFn(i)
  PROVE  EchoInv' /\ \A j \in Task : Echoes(j)
<1>1. /\ turn = i /\ Top(i).code = << >> /\ Len(frames[i]) > 1 /\ UNCHANGED prog
      /\ Deliver(i, Tail(frames[i]), Nothing)
  BY DEF EndOfFn, Inside
<1>2. EchoInv' /\ \A j \in Task : j # i => frames'[j] = frames[j]
  BY <1>1, EchoReturn
<1>3. Top(i).fn \notin prog.echoes
  <2>1. prog \in Programs /\ FrameTyped(prog, Top(i), Len(field))
    BY <1>1, RunningTask
  <2> QED BY <1>1, <2>1, EchoPoint
<1>4. Echoes(i)
  BY <1>3 DEF Echoes
<1> QED BY <1>2, <1>4, OthersEcho

LEMMA EchoStep ==
  ProgramInv /\ EchoInv /\ [ProgramNext]_allVars =>
    EchoInv' /\ [\A i \in Task : Echoes(i)]_allVars
<1> SUFFICES ASSUME ProgramInv, EchoInv, [ProgramNext]_allVars
             PROVE  EchoInv' /\ [\A i \in Task : Echoes(i)]_allVars
  OBVIOUS
<1>1. ASSUME NEW t \in Types, Start(t) PROVE EchoInv' /\ NoneReturns
  BY <1>1, EchoStart
<1>2. CASE Leave \/ UNCHANGED allVars
  <2>1. UNCHANGED <<prog, frames>>
    BY <1>2 DEF Leave, allVars, progVars
  <2>2. EchoInv' /\ NoneReturns
    BY <2>1, EchoSame
  <2> QED BY <2>2, NoneReturnsEchoes
<1>3. ASSUME NEW i \in Task, Enter(i) PROVE EchoInv' /\ NoneReturns
  BY <1>3, EchoEnter
<1>4. ASSUME NEW i \in Task, Execute(i) PROVE EchoInv' /\ \A j \in Task : Echoes(j)
  <2>1. CASE AwaitExpr(i)
    BY <2>1, EchoSame, NoneReturnsEchoes DEF AwaitExpr
  <2>2. CASE ReturnStmt(i) \/ EndOfFn(i)
    BY <2>2, EchoReturnStmt, EchoEnd
  <2>3. ASSUME Compute(i) \/ Create(i) \/ AssignField(i) \/ IfStmt(i) \/ ForStmt(i)
               \/ MatchStmt(i) \/ Restore(i) \/ YieldStmt(i) \/ Call(i) \/ EmitStmt(i)
               \/ HandlerEnd(i) \/ StopStmt(i) \/ AbortHandlerStmt(i) \/ Raise(i)
        PROVE  EchoInv' /\ NoneReturns
    BY <2>3, EchoCompute, EchoMoves, EchoFor, EchoMatch, EchoRestore, EchoCall, EchoOver
  <2> QED BY <1>4, <2>1, <2>2, <2>3, NoneReturnsEchoes DEF Execute
<1> QED BY <1>1, <1>2, <1>3, <1>4, NoneReturnsEchoes DEF ProgramNext, Halted

(* A function that returns its parameter returns to each of its callers what *)
(* that caller passed, although several of its activations are suspended at  *)
(* once and resumed in any order: an activation has an environment of its    *)
(* own, and a result goes to the statement of the caller below it.           *)
THEOREM ResultsReachTheirCallers == ProgramSpec => EchoReturnsArgument
<1>1. ProgramInit => EchoInv
  <2> SUFFICES ASSUME ProgramInit, NEW i \in Task PROVE EchoStack(frames[i])
    BY DEF EchoInv
  <2>1. frames[i] = << >>
    BY DEF ProgramInit
  <2> QED BY <2>1, EmptyIsSeq DEF EchoStack
<1>2. ProgramSpec => []EchoInv
  <2>1. ProgramInv /\ EchoInv /\ [ProgramNext]_allVars => EchoInv'
    BY EchoStep
  <2> QED BY <1>1, <2>1, ProgramsTyped, PTL DEF ProgramSpec
<1>3. ProgramInv /\ EchoInv /\ [ProgramNext]_allVars => [\A i \in Task : Echoes(i)]_allVars
  BY EchoStep
<1> QED BY <1>2, <1>3, ProgramsTyped, PTL DEF ProgramSpec, EchoReturnsArgument
=============================================================================
