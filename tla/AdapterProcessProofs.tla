------------------------- MODULE AdapterProcessProofs -------------------------
(***************************************************************************)
(* Proofs about AdapterProcess, for any threads, requests and bounds: the  *)
(* variables keep their types, the table of registered calls matches the   *)
(* calls in progress, and a call that returns a payload returns the        *)
(* answer to its own request.                                              *)
(***************************************************************************)
EXTENDS AdapterProcess, FiniteSetTheorems, TLAPS

Label == {"idle", "spawn", "register", "write", "blocked", "flush", "wait", "late", "close", "closing"}
Active == {"write", "blocked", "flush", "wait", "late"}

(* The bounds that Begin checks leave room for what the callers will do.    *)
CountOK ==
  /\ nextId + Cardinality(At({"spawn", "register"})) <= MaxCalls + 1
  /\ spawned + Cardinality(At({"spawn"})) <= MaxProcs

(* What a caller knows where it stands, and which ids are in use.           *)
CallOK ==
  /\ \A c \in Callers :
       /\ at[c] \in {"spawn", "register"} => rid[c] = None /\ result[c] = None /\ arg[c] \in Args
       /\ at[c] \in Active => rid[c] \in Rid /\ result[c] = None /\ arg[c] \in Args
       /\ rid[c] \in Rid => rid[c] < nextId
  /\ \A r \in pending : r < nextId

-----------------------------------------------------------------------------
(* How many callers stand somewhere, after one of them has moved.           *)
LEMMA Count ==
  ASSUME NEW S, NEW c \in Callers, NEW l, at \in [Callers -> Label], Goto(c, l)
  PROVE  /\ Cardinality(At(S)) \in Nat /\ Cardinality(At(S)') \in Nat
         /\ at[c] \in S /\ l \notin S => Cardinality(At(S)') = Cardinality(At(S)) - 1
         /\ at[c] \in S /\ l \in S => Cardinality(At(S)') = Cardinality(At(S))
         /\ at[c] \notin S /\ l \in S => Cardinality(At(S)') = Cardinality(At(S)) + 1
         /\ at[c] \notin S /\ l \notin S => Cardinality(At(S)') = Cardinality(At(S))
<1>1. IsFiniteSet(At(S)) /\ IsFiniteSet(At(S)')
  <2>1. At(S) \in SUBSET Callers /\ At(S)' \in SUBSET Callers
    BY DEF At
  <2> QED BY <2>1, FS_Subset, CallersAssumption
<1>2. CASE l \in S
  <2>1. At(S)' = At(S) \cup {c} /\ (c \in At(S) <=> at[c] \in S)
    BY <1>2 DEF At, Goto
  <2> QED BY <1>1, <1>2, <2>1, FS_AddElement, FS_CardinalityType
<1>3. CASE l \notin S
  <2>1. At(S)' = At(S) \ {c} /\ (c \in At(S) <=> at[c] \in S)
    BY <1>3 DEF At, Goto
  <2> QED BY <1>1, <1>3, <2>1, FS_RemoveElement, FS_CardinalityType
<1> QED BY <1>2, <1>3

LEMMA CountNotMore ==
  ASSUME NEW S, NEW c \in Callers, NEW l, l \notin S, at \in [Callers -> Label], Goto(c, l)
  PROVE  /\ Cardinality(At(S)) \in Nat /\ Cardinality(At(S)') \in Nat
         /\ Cardinality(At(S)') <= Cardinality(At(S))
<1>1. CASE at[c] \in S
  <2>1. /\ Cardinality(At(S)) \in Nat /\ Cardinality(At(S)') \in Nat
        /\ Cardinality(At(S)') = Cardinality(At(S)) - 1
    BY <1>1, Count
  <2> QED BY <2>1
<1>2. CASE at[c] \notin S
  <2>1. /\ Cardinality(At(S)) \in Nat /\ Cardinality(At(S)') = Cardinality(At(S))
    BY <1>2, Count
  <2> QED BY <2>1
<1> QED BY <1>1, <1>2

LEMMA CountSame ==
  ASSUME NEW S, at' = at PROVE Cardinality(At(S)') = Cardinality(At(S))
BY DEF At

(* A caller that is about to spawn or to register finds room.               *)
LEMMA Room ==
  ASSUME TypeOK, CountOK, NEW c \in Callers
  PROVE  /\ at[c] = "spawn" => spawned + 1 \in Proc /\ spawned + 1 <= MaxProcs
         /\ at[c] \in {"spawn", "register"} => nextId \in Rid
<1>1. /\ IsFiniteSet(At({"spawn"})) /\ IsFiniteSet(At({"spawn", "register"}))
  <2>1. At({"spawn"}) \in SUBSET Callers /\ At({"spawn", "register"}) \in SUBSET Callers
    BY DEF At
  <2> QED BY <2>1, FS_Subset, CallersAssumption
<1>2. ASSUME at[c] = "spawn" PROVE Cardinality(At({"spawn"})) \in Nat \ {0}
  BY <1>1, <1>2, FS_EmptySet, FS_CardinalityType DEF At
<1>3. ASSUME at[c] \in {"spawn", "register"} PROVE Cardinality(At({"spawn", "register"})) \in Nat \ {0}
  BY <1>1, <1>3, FS_EmptySet, FS_CardinalityType DEF At
<1> QED BY <1>2, <1>3, BoundsAssumption DEF TypeOK, CountOK, Proc, Rid

-----------------------------------------------------------------------------
TypeInv == TypeOK /\ CountOK

LEMMA TypeInit == Init => TypeInv
<1> SUFFICES ASSUME Init PROVE TypeInv
  OBVIOUS
<1>1. TypeOK
  BY BoundsAssumption DEF Init, TypeOK, Rid, Proc
<1>2. At({"spawn", "register"}) = {} /\ At({"spawn"}) = {}
  BY DEF Init, At
<1>3. CountOK
  <2>1. Cardinality(At({"spawn", "register"})) = 0 /\ Cardinality(At({"spawn"})) = 0
    BY <1>2, FS_EmptySet
  <2> QED BY <2>1, BoundsAssumption DEF Init, CountOK
<1> QED BY <1>1, <1>3 DEF TypeInv

(* How a call can end.                                                      *)
LEMMA Results ==
  /\ \A how \in {"error", "timeout", "broken", "assertion"} : Fail(how) \in Result
  /\ \A a \in Args \cup {None} : [how |-> "returned", arg |-> a] \in Result
BY DEF Fail, Result

LEMMA TypeBegin ==
  ASSUME TypeInv, NEW c \in Callers, NEW a \in Args, Begin(c, a) PROVE TypeInv'
<1> USE DEF TypeInv, Begin, hostVars, readerVars
<1> DEFINE l == IF proc = 0 THEN "spawn" ELSE "register"
<1>1. at \in [Callers -> Label] /\ Goto(c, l) /\ at[c] = "idle"
  BY DEF TypeOK, Label
<1>2. TypeOK'
  BY <1>1 DEF TypeOK, Label, Goto
<1>3. CountOK'
  <2>1. /\ nextId + Cardinality(At({"spawn", "register"})) <= MaxCalls
        /\ proc = 0 => spawned + Cardinality(At({"spawn"})) < MaxProcs
        /\ nextId' = nextId /\ spawned' = spawned /\ nextId \in Nat /\ spawned \in Nat
    BY DEF TypeOK
  <2>2. /\ Cardinality(At({"spawn", "register"})) \in Nat
        /\ Cardinality(At({"spawn", "register"})') = Cardinality(At({"spawn", "register"})) + 1
    <3>1. "idle" \notin {"spawn", "register"} /\ l \in {"spawn", "register"}
      OBVIOUS
    <3> HIDE DEF l
    <3> QED BY <1>1, <3>1, Count
  <2>3. /\ Cardinality(At({"spawn"})) \in Nat
        /\ proc = 0 => Cardinality(At({"spawn"})') = Cardinality(At({"spawn"})) + 1
        /\ proc # 0 => Cardinality(At({"spawn"})') = Cardinality(At({"spawn"}))
    <3>1. "idle" \notin {"spawn"} /\ (proc = 0 => l \in {"spawn"}) /\ (proc # 0 => l \notin {"spawn"})
      OBVIOUS
    <3> HIDE DEF l
    <3> QED BY <1>1, <3>1, Count
  <2> QED BY <2>1, <2>2, <2>3, BoundsAssumption DEF CountOK
<1> QED BY <1>2, <1>3

(* The count after a step of a caller that allocates nothing and does not   *)
(* begin a call.                                                            *)
LEMMA CountMove ==
  ASSUME TypeInv, NEW c \in Callers, NEW l \in Label \ {"spawn", "register"}, Goto(c, l),
         nextId' = nextId, spawned' = spawned
  PROVE  CountOK'
<1>0. at \in [Callers -> Label]
  BY DEF TypeInv, TypeOK, Label
<1>1. l \notin {"spawn", "register"} /\ l \notin {"spawn"}
  OBVIOUS
<1>2. /\ Cardinality(At({"spawn", "register"})') <= Cardinality(At({"spawn", "register"}))
      /\ Cardinality(At({"spawn", "register"})) \in Nat /\ Cardinality(At({"spawn", "register"})') \in Nat
  BY <1>0, <1>1, CountNotMore
<1>3. /\ Cardinality(At({"spawn"})') <= Cardinality(At({"spawn"}))
      /\ Cardinality(At({"spawn"})) \in Nat /\ Cardinality(At({"spawn"})') \in Nat
  BY <1>0, <1>1, CountNotMore
<1> QED BY <1>2, <1>3, BoundsAssumption DEF TypeInv, TypeOK, CountOK

LEMMA CountStay ==
  ASSUME TypeInv, at' = at, nextId' = nextId, spawned' = spawned PROVE CountOK'
BY CountSame DEF TypeInv, CountOK

LEMMA TypeSpawn == ASSUME TypeInv, NEW c \in Callers, Spawn(c) PROVE TypeInv'
<1> USE DEF TypeInv, Spawn, readerVars
<1>0. /\ at \in [Callers -> Label] /\ spawned \in Nat /\ nextId \in Nat /\ nextId' = nextId
      /\ spawned' = spawned + 1 /\ Goto(c, "register") /\ at[c] = "spawn"
  BY BoundsAssumption DEF TypeOK, Label
<1>1. spawned + 1 \in Proc /\ spawned + 1 \in 0..MaxProcs
  BY <1>0, Room, BoundsAssumption DEF Proc
<1>2. TypeOK'
  BY <1>0, <1>1 DEF TypeOK, Goto
<1>3. CountOK'
  <2>1. /\ Cardinality(At({"spawn", "register"})') = Cardinality(At({"spawn", "register"}))
        /\ Cardinality(At({"spawn", "register"})) \in Nat
    <3>1. "spawn" \in {"spawn", "register"} /\ "register" \in {"spawn", "register"}
      OBVIOUS
    <3> QED BY <1>0, <3>1, Count
  <2>2. /\ Cardinality(At({"spawn"})') = Cardinality(At({"spawn"})) - 1
        /\ Cardinality(At({"spawn"})) \in Nat
    <3>1. "spawn" \in {"spawn"} /\ "register" \notin {"spawn"}
      OBVIOUS
    <3> QED BY <1>0, <3>1, Count
  <2> QED BY <1>0, <2>1, <2>2, BoundsAssumption DEF CountOK
<1> QED BY <1>2, <1>3

LEMMA TypeRegister == ASSUME TypeInv, NEW c \in Callers, Register(c) PROVE TypeInv'
<1> USE DEF TypeInv, Register, hostVars, readerVars
<1>1. CASE proc = 0
  <2>1. Goto(c, "idle") /\ Fail("assertion") \in Result /\ nextId' = nextId /\ spawned' = spawned
    BY <1>1, Results DEF End
  <2>2. TypeOK'
    BY <1>1, <2>1 DEF TypeOK, End, Goto
  <2> QED BY <2>1, <2>2, CountMove DEF Label
<1>2. CASE proc # 0
  <2>1. /\ nextId \in Rid /\ at \in [Callers -> Label] /\ spawned \in Nat /\ nextId \in Nat
        /\ nextId' = nextId + 1 /\ spawned' = spawned /\ Goto(c, "write") /\ at[c] = "register"
    BY <1>2, Room DEF TypeOK, Label, Rid
  <2>2. TypeOK'
    <3>1. nextId + 1 \in 1..(MaxCalls + 1)
      BY <2>1, BoundsAssumption DEF Rid
    <3> QED BY <1>2, <2>1, <3>1 DEF TypeOK, Goto
  <2>3. CountOK'
    <3>1. /\ Cardinality(At({"spawn", "register"})') = Cardinality(At({"spawn", "register"})) - 1
          /\ Cardinality(At({"spawn", "register"})) \in Nat
      <4>1. "register" \in {"spawn", "register"} /\ "write" \notin {"spawn", "register"}
        OBVIOUS
      <4> QED BY <2>1, <4>1, Count
    <3>2. /\ Cardinality(At({"spawn"})') = Cardinality(At({"spawn"}))
          /\ Cardinality(At({"spawn"})) \in Nat
      <4>1. "register" \notin {"spawn"} /\ "write" \notin {"spawn"}
        OBVIOUS
      <4> QED BY <2>1, <4>1, Count
    <3> QED BY <2>1, <3>1, <3>2, BoundsAssumption DEF CountOK
  <2> QED BY <2>2, <2>3
<1> QED BY <1>1, <1>2

(* Sequences of requests and of answers.                                    *)
LEMMA Queues ==
  ASSUME NEW S, NEW q \in Seq(S)
  PROVE  /\ \A x \in S : Append(q, x) \in Seq(S)
         /\ q # << >> => Head(q) \in S /\ Tail(q) \in Seq(S)
OBVIOUS

(* The request of a call in progress reaches a child.                      *)
LEMMA TypeSend ==
  ASSUME TypeInv, CallOK, NEW c \in Callers, NEW g \in Proc, at[c] \in Active, Send(c, g)
  PROVE  toHost' \in [Proc -> Seq(Request)]
<1>1. [id |-> rid[c], arg |-> arg[c]] \in Request
  BY DEF Request, CallOK
<1>2. Append(toHost[g], [id |-> rid[c], arg |-> arg[c]]) \in Seq(Request)
  BY <1>1, Queues DEF TypeInv, TypeOK
<1> QED BY <1>2 DEF Send, TypeInv, TypeOK

LEMMA TypeWrite == ASSUME TypeInv, CallOK, NEW c \in Callers, Write(c) PROVE TypeInv'
<1> USE DEF TypeInv, Write, readerVars, Active
<1>1. CASE proc \in open \cap alive /\ HasRoom(proc) /\ Blocked(proc) = {}
  <2>1. Goto(c, "flush") /\ toHost' \in [Proc -> Seq(Request)]
    BY <1>1, TypeSend DEF TypeOK
  <2>2. TypeOK'
    BY <1>1, <2>1 DEF TypeOK, Goto
  <2> QED BY <2>1, <2>2, CountMove DEF Label
<1>2. CASE proc \notin open \cap alive
  <2>1. Goto(c, "idle") /\ Fail("broken") \in Result
    BY <1>2, Results DEF End
  <2>2. TypeOK'
    BY <1>2, <2>1 DEF TypeOK, End, Goto
  <2> QED BY <2>1, <2>2, CountMove DEF Label
<1>3. CASE proc \in open \cap alive /\ ~ (HasRoom(proc) /\ Blocked(proc) = {})
  <2>1. TypeOK' /\ Goto(c, "blocked")
    BY <1>3 DEF TypeOK, Goto
  <2> QED BY <2>1, CountMove DEF Label
<1> QED BY <1>1, <1>2, <1>3

LEMMA TypeWriteOn == ASSUME TypeInv, CallOK, NEW c \in Callers, WriteOn(c) PROVE TypeInv'
<1> USE DEF TypeInv, WriteOn, readerVars, Active
<1>0. into' \in [Callers -> 0..MaxProcs]
  BY BoundsAssumption DEF TypeOK
<1>1. CASE into[c] \notin alive
  <2>1. Goto(c, "idle") /\ Fail("broken") \in Result /\ toHost' = toHost
        /\ result' = [result EXCEPT ![c] = Fail("broken")]
    BY <1>1, Results DEF End
  <2>2. at' \in [Callers -> Label] /\ result' \in [Callers -> Result \cup {None}]
    BY <2>1 DEF TypeOK, Goto, Label
  <2>3. TypeOK'
    BY <1>0, <2>1, <2>2 DEF TypeOK, Label
  <2> QED BY <2>1, <2>3, CountMove DEF Label
<1>2. CASE into[c] \in alive
  <2>1. Goto(c, "flush") /\ toHost' \in [Proc -> Seq(Request)] /\ result' = result
    BY <1>2, TypeSend DEF TypeOK
  <2>2. at' \in [Callers -> Label]
    BY <2>1 DEF TypeOK, Goto, Label
  <2>3. TypeOK'
    BY <1>0, <2>1, <2>2 DEF TypeOK, Label
  <2> QED BY <2>1, <2>3, CountMove DEF Label
<1> QED BY <1>1, <1>2

LEMMA TypeFlush == ASSUME TypeInv, NEW c \in Callers, Flush(c) PROVE TypeInv'
<1> USE DEF Flush, End, hostVars, readerVars
<1>1. CASE Goto(c, "wait") /\ UNCHANGED result
  <2>1. TypeOK'
    BY <1>1 DEF TypeInv, TypeOK, Goto
  <2>2. CountOK'
    BY <1>1, CountMove DEF Label
  <2> QED BY <2>1, <2>2 DEF TypeInv
<1>2. CASE End(c, Fail("broken"))
  <2>1. TypeOK'
    BY <1>2, Results DEF TypeInv, TypeOK, Goto
  <2>2. CountOK'
    BY <1>2, CountMove DEF Label
  <2> QED BY <2>1, <2>2 DEF TypeInv
<1> QED BY <1>1, <1>2

(* Fields of an answer.                                                     *)
LEMMA AnswerFields ==
  ASSUME NEW a \in Answer PROVE a.id \in 0..MaxCalls /\ a.ok \in BOOLEAN /\ a.arg \in Args \cup {None}
BY DEF Answer

LEMMA TypeGet == ASSUME TypeInv, CallOK, NEW c \in Callers, Get(c) PROVE TypeInv'
<1>1. rid[c] \in Rid
  BY DEF Get, CallOK, Active
<1>2. Head(box[rid[c]]) \in Answer /\ Tail(box[rid[c]]) \in Seq(Answer)
  BY <1>1, Queues DEF TypeInv, TypeOK, Get
<1> DEFINE a == Head(box[rid[c]])
           how == IF a.ok THEN [how |-> "returned", arg |-> a.arg] ELSE Fail("error")
<1>3. how \in Result
  BY <1>2, AnswerFields, Results
<1>4. End(c, how)
  BY DEF Get
<1> HIDE DEF how
<1>5. TypeOK'
  BY <1>1, <1>2, <1>3, <1>4 DEF TypeInv, TypeOK, Get, End, Goto, Unregister, hostVars, readerVars
<1>6. CountOK'
  BY <1>4, CountMove DEF End, Get, Label, hostVars
<1> QED BY <1>5, <1>6 DEF TypeInv

LEMMA TypeGetEmpty == ASSUME TypeInv, NEW c \in Callers, GetEmpty(c) PROVE TypeInv'
<1> USE DEF GetEmpty, hostVars, readerVars
<1>1. TypeOK'
  BY DEF TypeInv, TypeOK, Goto, Unregister
<1>2. CountOK'
  BY CountMove DEF Label
<1> QED BY <1>1, <1>2 DEF TypeInv

LEMMA TypeExpire == ASSUME TypeInv, NEW c \in Callers, Expire(c) PROVE TypeInv'
<1> USE DEF Expire, End, hostVars, readerVars
<1>1. TypeOK'
  BY Results DEF TypeInv, TypeOK, Goto, Unregister
<1>2. CountOK'
  BY CountMove DEF Label
<1> QED BY <1>1, <1>2 DEF TypeInv

LEMMA TypeWaitAgain == ASSUME TypeInv, NEW c \in Callers, WaitAgain(c) PROVE TypeInv'
<1> USE DEF WaitAgain, hostVars, readerVars
<1>1. TypeOK'
  BY DEF TypeInv, TypeOK, Goto
<1>2. CountOK'
  BY CountMove DEF Label
<1> QED BY <1>1, <1>2 DEF TypeInv

LEMMA TypeClose == ASSUME TypeInv, NEW c \in Callers, Close(c) PROVE TypeInv'
<1> USE DEF Close, hostVars, readerVars
<1>1. TypeOK'
  BY DEF TypeInv, TypeOK, Goto
<1>2. CountOK'
  BY CountMove DEF Label
<1> QED BY <1>1, <1>2 DEF TypeInv

LEMMA TypeCloseChild == ASSUME TypeInv, NEW c \in Callers, CloseChild(c) PROVE TypeInv'
<1> USE DEF CloseChild, readerVars
<1>1. TypeOK'
  BY DEF TypeInv, TypeOK, Goto
<1>2. CountOK'
  BY CountMove DEF Label
<1> QED BY <1>1, <1>2 DEF TypeInv

LEMMA TypeCloseClear == ASSUME TypeInv, NEW c \in Callers, CloseClear(c) PROVE TypeInv'
<1> USE DEF CloseClear, IdsAfterClose, hostVars, readerVars
<1>1. TypeOK'
  BY BoundsAssumption DEF TypeInv, TypeOK, Goto
<1>2. CountOK'
  BY CountMove DEF Label
<1> QED BY <1>1, <1>2 DEF TypeInv

(* The steps of a child and of a reader leave the callers alone.            *)
LEMMA TypeHost ==
  ASSUME TypeInv, NEW g \in Proc,
         HostTake(g) \/ HostPrint(g) \/ HostCrash(g) \/ \E ok \in BOOLEAN : HostAnswer(g, ok)
  PROVE  TypeInv'
<1> USE DEF TypeInv, readerVars, callVars
<1>1. ASSUME HostTake(g) PROVE TypeInv'
  <2>1. Head(toHost[g]) \in Request /\ Tail(toHost[g]) \in Seq(Request)
    BY <1>1, Queues DEF HostTake, TypeOK
  <2>2. TypeOK'
    BY <1>1, <2>1 DEF HostTake, TypeOK
  <2> QED BY <1>1, <2>2, CountStay DEF HostTake
<1>2. ASSUME HostPrint(g) PROVE TypeInv'
  <2>1. Append(fromHost[g], Stray) \in Seq(Answer) /\ strays + 1 \in 0..MaxLines
    <3>1. Stray \in Answer
      BY BoundsAssumption DEF Stray, Answer
    <3> QED BY <1>2, <3>1, Queues, BoundsAssumption DEF HostPrint, TypeOK
  <2>2. TypeOK'
    BY <1>2, <2>1 DEF HostPrint, TypeOK
  <2> QED BY <1>2, <2>2, CountStay DEF HostPrint
<1>3. ASSUME HostCrash(g) PROVE TypeInv'
  <2>1. TypeOK'
    BY <1>3 DEF HostCrash, TypeOK
  <2> QED BY <1>3, <2>1, CountStay DEF HostCrash
<1>4. ASSUME NEW ok \in BOOLEAN, HostAnswer(g, ok) PROVE TypeInv'
  <2> DEFINE a == [id |-> working[g].id, ok |-> ok, arg |-> IF ok THEN working[g].arg ELSE None]
  <2>1. working[g] \in Request
    BY <1>4 DEF HostAnswer, TypeOK
  <2>2. a \in Answer
    BY <2>1, BoundsAssumption DEF Request, Answer, Rid
  <2>3. fromHost' = [fromHost EXCEPT ![g] = Append(@, a)]
    BY <1>4 DEF HostAnswer
  <2> HIDE DEF a
  <2>4. Append(fromHost[g], a) \in Seq(Answer)
    BY <2>2, Queues DEF TypeOK
  <2>5. TypeOK'
    BY <1>4, <2>3, <2>4 DEF HostAnswer, WorkDone, TypeOK
  <2> QED BY <1>4, <2>5, CountStay DEF HostAnswer
<1> QED BY <1>1, <1>2, <1>3, <1>4

LEMMA TypeReader ==
  ASSUME TypeInv, NEW g \in Proc, ReaderStart(g) \/ ReaderTake(g) \/ ReaderPut(g) PROVE TypeInv'
<1> USE DEF TypeInv, hostVars, callVars
<1>1. ASSUME ReaderStart(g) PROVE TypeInv'
  <2>1. TypeOK'
    BY <1>1 DEF ReaderStart, TypeOK
  <2> QED BY <1>1, <2>1, CountStay DEF ReaderStart
<1>2. ASSUME ReaderTake(g) PROVE TypeInv'
  <2>1. source[g] \in Proc
    BY <1>2, BoundsAssumption DEF ReaderTake, TypeOK, Proc
  <2>2. Head(fromHost[source[g]]) \in Answer /\ Tail(fromHost[source[g]]) \in Seq(Answer)
    BY <1>2, <2>1, Queues DEF ReaderTake, TypeOK
  <2>3. TypeOK'
    BY <1>2, <2>1, <2>2 DEF ReaderTake, TypeOK
  <2> QED BY <1>2, <2>3, CountStay DEF ReaderTake
<1>3. ASSUME ReaderPut(g) PROVE TypeInv'
  <2>1. << holding[g] >> \in Seq(Answer)
    BY <1>3 DEF ReaderPut, TypeOK
  <2>2. TypeOK'
    BY <1>3, <2>1 DEF ReaderPut, TypeOK
  <2> QED BY <1>3, <2>2, CountStay DEF ReaderPut
<1> QED BY <1>1, <1>2, <1>3

-----------------------------------------------------------------------------
(* Calls and registrations.                                                 *)

(* A request or an answer under way, set against the call with its id.      *)
ReqOK(q) ==
  /\ q.id < nextId
  /\ \A c \in Callers : at[c] \in Active /\ rid[c] = q.id => q.arg = arg[c]
AnsOK(a) ==
  /\ a.id < nextId
  /\ \A c \in Callers : at[c] \in Active /\ rid[c] = a.id /\ a.ok => a.arg = arg[c]

FlightOK ==
  /\ \A g \in Proc : \A i \in 1..Len(toHost[g]) : ReqOK(toHost[g][i])
  /\ \A g \in Proc : working[g] # None => ReqOK(working[g])
  /\ \A g \in Proc : \A i \in 1..Len(fromHost[g]) : AnsOK(fromHost[g][i])
  /\ \A g \in Proc : holding[g] # None => AnsOK(holding[g])
  /\ \A r \in Rid : \A i \in 1..Len(box[r]) : AnsOK(box[r][i]) /\ box[r][i].id = r

(* A payload that was returned is the one asked for, until the next call.   *)
ReturnOK ==
  \A c \in Callers : result[c] # None /\ result[c].how = "returned" => result[c].arg = arg[c]

CallInv == TypeInv /\ CallOK /\ PendingMatchesCalls /\ FlightOK /\ ReturnOK

(* What the steps have in common: ids only grow, and a call in progress is  *)
(* the one it was or has a fresh id.                                        *)
Kept ==
  /\ nextId <= nextId'
  /\ \A c \in Callers : at'[c] \in Active =>
       \/ rid'[c] = nextId
       \/ at[c] \in Active /\ rid'[c] = rid[c] /\ arg'[c] = arg[c]

LEMMA UnderWayKept ==
  ASSUME CallInv, TypeInv', Kept
  PROVE  /\ \A q \in Request : ReqOK(q) => ReqOK(q)'
         /\ \A a \in Answer : AnsOK(a) => AnsOK(a)'
<1>1. nextId \in Nat /\ nextId' \in Nat
  BY DEF CallInv, TypeInv, TypeOK
<1>2. ASSUME NEW q \in Request, ReqOK(q) PROVE ReqOK(q)'
  <2>1. q.id \in Nat
    BY DEF Request, Rid
  <2> QED BY <1>1, <1>2, <2>1 DEF ReqOK, Kept
<1>3. ASSUME NEW a \in Answer, AnsOK(a) PROVE AnsOK(a)'
  <2>1. a.id \in Nat
    BY AnswerFields
  <2> QED BY <1>1, <1>3, <2>1 DEF AnsOK, Kept
<1> QED BY <1>2, <1>3

(* Elements of the queues.                                                  *)
LEMMA Elements ==
  ASSUME TypeInv
  PROVE  /\ \A g \in Proc : \A i \in 1..Len(toHost[g]) : toHost[g][i] \in Request
         /\ \A g \in Proc : working[g] # None => working[g] \in Request
         /\ \A g \in Proc : \A i \in 1..Len(fromHost[g]) : fromHost[g][i] \in Answer
         /\ \A g \in Proc : holding[g] # None => holding[g] \in Answer
         /\ \A r \in Rid : \A i \in 1..Len(box[r]) : box[r][i] \in Answer
BY DEF TypeInv, TypeOK

(* A step that moves no request and no answer.                              *)
LEMMA FlightStays ==
  ASSUME CallInv, TypeInv', Kept, toHost' = toHost, working' = working, fromHost' = fromHost,
         holding' = holding, box' = box
  PROVE  FlightOK'
BY UnderWayKept, Elements DEF CallInv, FlightOK

(* Adding to and taking from a queue keeps what holds of each element.      *)
LEMMA Appended ==
  ASSUME NEW S, NEW q \in Seq(S), NEW x \in S
  PROVE  \A i \in 1..Len(Append(q, x)) : Append(q, x)[i] = x \/ (i \in 1..Len(q) /\ Append(q, x)[i] = q[i])
OBVIOUS

LEMMA Shortened ==
  ASSUME NEW S, NEW q \in Seq(S), q # << >>
  PROVE  /\ Head(q) = q[1] /\ 1 \in 1..Len(q)
         /\ \A i \in 1..Len(Tail(q)) : i + 1 \in 1..Len(q) /\ Tail(q)[i] = q[i + 1]
OBVIOUS

-----------------------------------------------------------------------------
(* The steps of call().                                                     *)

LEMMA BeginOK ==
  ASSUME CallInv, NEW c \in Callers, NEW a \in Args, Begin(c, a) PROVE CallInv'
<1>1. TypeInv'
  BY TypeBegin DEF CallInv
<1>2. /\ at' = [at EXCEPT ![c] = IF proc = 0 THEN "spawn" ELSE "register"]
      /\ arg' = [arg EXCEPT ![c] = a] /\ rid' = [rid EXCEPT ![c] = None]
      /\ result' = [result EXCEPT ![c] = None]
      /\ nextId' = nextId /\ pending' = pending /\ nextId \in Nat
      /\ at \in [Callers -> Label] /\ arg \in [Callers -> Args \cup {None}]
      /\ rid \in [Callers -> Rid \cup {None}] /\ result \in [Callers -> Result \cup {None}]
  BY DEF Begin, Goto, CallInv, TypeInv, TypeOK, Label
<1>3. CallOK'
  BY <1>2, NoneAssumption DEF CallInv, CallOK, Active
<1>4. PendingMatchesCalls'
  BY <1>2, NoneAssumption DEF CallInv, PendingMatchesCalls, At
<1>5. FlightOK'
  BY <1>1, <1>2, FlightStays DEF Kept, Active, Begin, hostVars, readerVars
<1>6. ReturnOK'
  BY <1>2 DEF CallInv, ReturnOK
<1> QED BY <1>1, <1>3, <1>4, <1>5, <1>6 DEF CallInv

LEMMA SpawnOK == ASSUME CallInv, NEW c \in Callers, Spawn(c) PROVE CallInv'
<1>1. TypeInv'
  BY TypeSpawn DEF CallInv
<1>2. /\ at' = [at EXCEPT ![c] = "register"] /\ at[c] = "spawn" /\ at \in [Callers -> Label]
      /\ arg' = arg /\ rid' = rid /\ result' = result /\ nextId' = nextId /\ pending' = pending
      /\ nextId \in Nat
  BY DEF Spawn, Goto, CallInv, TypeInv, TypeOK, Label
<1>3. CallOK'
  BY <1>2 DEF CallInv, CallOK, Active
<1>4. PendingMatchesCalls'
  BY <1>2 DEF CallInv, PendingMatchesCalls, At
<1>5. FlightOK'
  BY <1>1, <1>2, FlightStays DEF Kept, Active, Spawn, readerVars
<1>6. ReturnOK'
  BY <1>2 DEF CallInv, ReturnOK
<1> QED BY <1>1, <1>3, <1>4, <1>5, <1>6 DEF CallInv

(* A fresh id is larger than every id in use.                               *)
LEMMA RegisterOK == ASSUME CallInv, NEW c \in Callers, Register(c) PROVE CallInv'
<1>1. TypeInv'
  BY TypeRegister DEF CallInv
<1>0. /\ at[c] = "register" /\ at \in [Callers -> Label] /\ result \in [Callers -> Result \cup {None}]
      /\ rid \in [Callers -> Rid \cup {None}] /\ nextId \in Nat /\ nextId \in Rid
      /\ rid[c] = None /\ arg[c] \in Args /\ arg' = arg /\ pending \subseteq Rid
      /\ \A d \in Callers : rid[d] \in Rid => rid[d] \in Nat
  BY Room DEF Register, CallInv, TypeInv, TypeOK, CallOK, Label, Rid
<1>2. CASE proc = 0
  <2>1. /\ at' = [at EXCEPT ![c] = "idle"] /\ result' = [result EXCEPT ![c] = Fail("assertion")]
        /\ rid' = rid /\ pending' = pending /\ nextId' = nextId
    BY <1>2 DEF Register, End, Goto
  <2>2. Fail("assertion").how = "assertion" /\ Fail("assertion") # None
    BY Results, NoneAssumption DEF Fail
  <2>3. CallOK'
    BY <1>0, <2>1 DEF CallInv, CallOK, Active
  <2>4. PendingMatchesCalls'
    BY <1>0, <2>1, NoneAssumption DEF CallInv, PendingMatchesCalls, At
  <2>5. FlightOK'
    BY <1>0, <1>1, <2>1, FlightStays DEF Kept, Active, Register, hostVars, readerVars
  <2>6. ReturnOK'
    BY <1>0, <2>1, <2>2 DEF CallInv, ReturnOK
  <2> QED BY <1>1, <2>3, <2>4, <2>5, <2>6 DEF CallInv
<1>3. CASE proc # 0
  <2>1. /\ at' = [at EXCEPT ![c] = "write"] /\ result' = result
        /\ rid' = [rid EXCEPT ![c] = nextId] /\ pending' = pending \cup {nextId}
        /\ nextId' = nextId + 1
    BY <1>3 DEF Register, Goto
  <2>2. \A d \in Callers : rid[d] \in Rid => rid[d] < nextId /\ rid[d] # nextId
    BY <1>0 DEF CallInv, CallOK
  <2>3. CallOK'
    <3>1. \A r \in pending' : r < nextId'
      BY <1>0, <2>1 DEF CallInv, CallOK, Rid
    <3>2. ASSUME NEW d \in Callers
          PROVE  /\ at'[d] \in {"spawn", "register"} => rid'[d] = None /\ result'[d] = None /\ arg'[d] \in Args
                 /\ at'[d] \in Active => rid'[d] \in Rid /\ result'[d] = None /\ arg'[d] \in Args
                 /\ rid'[d] \in Rid => rid'[d] < nextId'
      <4>1. CASE d = c
        BY <1>0, <2>1, <4>1 DEF CallInv, CallOK, Active
      <4>2. CASE d # c
        BY <1>0, <2>1, <2>2, <4>2 DEF CallInv, CallOK
      <4> QED BY <4>1, <4>2
    <3> QED BY <3>1, <3>2 DEF CallOK
  <2>4. PendingMatchesCalls'
    <3>1. \A d \in Callers : d # c => at'[d] = at[d] /\ rid'[d] = rid[d]
      BY <1>0, <2>1
    <3>2. at'[c] = "write" /\ rid'[c] = nextId /\ result'[c] = None
      BY <1>0, <2>1 DEF CallInv, CallOK
    <3>3. \A d \in At(Active) : rid[d] \in Rid /\ rid[d] # nextId
      BY <2>2 DEF CallInv, CallOK, At, Active
    <3>4. \A d \in Callers : rid[d] # nextId
      BY <1>0, <2>2
    <3> QED BY <2>1, <3>1, <3>2, <3>3, <3>4 DEF CallInv, PendingMatchesCalls, At, Active
  <2>5. FlightOK'
    BY <1>0, <1>1, <2>1, FlightStays DEF Kept, Active, Register, hostVars, readerVars
  <2>6. ReturnOK'
    BY <1>0, <2>1 DEF CallInv, ReturnOK
  <2> QED BY <1>1, <2>3, <2>4, <2>5, <2>6 DEF CallInv
<1> QED BY <1>2, <1>3

(* A step of a call in progress after which it still has its id.            *)
LEMMA MoveActive ==
  ASSUME CallInv, TypeInv', NEW c \in Callers, at[c] \in Active, NEW l \in Active, Goto(c, l),
         nextId' = nextId, rid' = rid, arg' = arg, result' = result, pending' \subseteq pending,
         \A d \in At({"write", "blocked", "flush"}) : d # c => rid[d] \in pending',
         \A d \in At({"late"}) : rid[d] \notin pending', l = "late" => rid[c] \notin pending',
         l \in {"write", "blocked", "flush"} => rid[c] \in pending'
  PROVE  CallOK' /\ PendingMatchesCalls' /\ ReturnOK' /\ Kept
<1>1. at' = [at EXCEPT ![c] = l] /\ at \in [Callers -> Label] /\ nextId \in Nat
  BY DEF Goto, CallInv, TypeInv, TypeOK, Label
<1>2. CallOK'
  BY <1>1 DEF CallInv, CallOK, Active
<1>3. PendingMatchesCalls'
  BY <1>1 DEF CallInv, PendingMatchesCalls, At, Active
<1>4. ReturnOK' /\ Kept
  BY <1>1 DEF CallInv, ReturnOK, Kept, Active
<1> QED BY <1>2, <1>3, <1>4

(* A call in progress ends.                                                 *)
LEMMA EndActive ==
  ASSUME CallInv, TypeInv', NEW c \in Callers, at[c] \in Active, NEW how \in Result, End(c, how),
         nextId' = nextId, rid' = rid, arg' = arg,
         pending' = pending \ {rid[c]} \/ (how.how = "broken" /\ pending' = pending),
         how.how = "returned" => how.arg = arg[c]
  PROVE  CallOK' /\ PendingMatchesCalls' /\ ReturnOK' /\ Kept
<1>1. /\ at' = [at EXCEPT ![c] = "idle"] /\ result' = [result EXCEPT ![c] = how]
      /\ at \in [Callers -> Label] /\ nextId \in Nat /\ result \in [Callers -> Result \cup {None}]
  BY DEF End, Goto, CallInv, TypeInv, TypeOK, Label
<1>2. CallOK'
  BY <1>1 DEF CallInv, CallOK, Active
<1>3. PendingMatchesCalls'
  <2>1. pending' \subseteq pending
    OBVIOUS
  <2>2. \A d \in At(Active) : d # c => (rid[d] \in pending <=> rid[d] \in pending')
    BY DEF CallInv, PendingMatchesCalls, At, Active
  <2>3. rid[c] \in pending' => how.how = "broken"
    OBVIOUS
  <2> QED BY <1>1, <2>1, <2>2, <2>3 DEF CallInv, PendingMatchesCalls, At, Active
<1>4. ReturnOK' /\ Kept
  BY <1>1 DEF CallInv, ReturnOK, Kept, Active
<1> QED BY <1>2, <1>3, <1>4

(* The request that is written carries the id and the payload of its call,  *)
(* and no other call has that id.                                           *)
LEMMA SendOK ==
  ASSUME CallInv, TypeInv', NEW c \in Callers, at[c] \in {"write", "blocked"}, NEW g \in Proc,
         Send(c, g), Goto(c, "flush"),
         UNCHANGED <<working, fromHost, holding, box, nextId, pending, rid, arg, result>>
  PROVE  CallInv'
<1>1. at[c] \in Active /\ rid[c] \in Rid /\ arg[c] \in Args /\ rid[c] \in pending
  BY DEF CallInv, CallOK, PendingMatchesCalls, Active, At
<1>2. [id |-> rid[c], arg |-> arg[c]] \in Request
  BY <1>1 DEF Request
<1> PICK q \in Request : q = [id |-> rid[c], arg |-> arg[c]]
  BY <1>2
<1>3. /\ toHost' = [toHost EXCEPT ![g] = Append(toHost[g], q)] /\ toHost \in [Proc -> Seq(Request)]
      /\ at' = [at EXCEPT ![c] = "flush"] /\ at \in [Callers -> Label]
  BY DEF Send, Goto, CallInv, TypeInv, TypeOK, Label
<1>4. q.id = rid[c] /\ q.arg = arg[c]
  OBVIOUS
<1>5. CallOK' /\ PendingMatchesCalls' /\ ReturnOK' /\ Kept
  <2>1. \A d \in At({"write", "blocked", "flush"}) : d # c => rid[d] \in pending'
    BY DEF CallInv, PendingMatchesCalls
  <2>2. \A d \in At({"late"}) : rid[d] \notin pending'
    BY DEF CallInv, PendingMatchesCalls
  <2> QED BY <1>1, <2>1, <2>2, MoveActive DEF Active
<1>6. ReqOK(q)'
  <2>1. q.id < nextId'
    BY <1>1, <1>4 DEF CallInv, CallOK
  <2>2. ASSUME NEW d \in Callers, at'[d] \in Active, rid'[d] = q.id PROVE q.arg = arg'[d]
    <3>1. d = c
      BY <1>1, <1>3, <1>4, <2>2 DEF CallInv, PendingMatchesCalls, At, Active
    <3> QED BY <3>1, <1>4
  <2> QED BY <2>1, <2>2, <1>4 DEF ReqOK
<1>7. (\A h \in Proc : \A i \in 1..Len(toHost[h]) : ReqOK(toHost[h][i]))'
  <2> SUFFICES ASSUME NEW h \in Proc, NEW i \in (1..Len(toHost[h]))' PROVE ReqOK(toHost[h][i])'
    OBVIOUS
  <2>1. \E x \in Request : x = toHost'[h][i] /\ ReqOK(x)'
    <3>1. CASE h = g
      <4>1. toHost'[h] = Append(toHost[g], q)
        BY <1>3, <3>1
      <4>2. toHost'[h][i] = q \/ (i \in 1..Len(toHost[g]) /\ toHost'[h][i] = toHost[g][i])
        <5>1. toHost[g] \in Seq(Request) /\ i \in 1..Len(Append(toHost[g], q))
          BY <1>3, <4>1
        <5> QED BY <4>1, <5>1, Appended
      <4> QED BY <1>5, <1>6, <4>2, UnderWayKept, Elements DEF CallInv, FlightOK
    <3>2. CASE h # g
      BY <1>3, <1>5, <3>2, UnderWayKept, Elements DEF CallInv, FlightOK
    <3> QED BY <3>1, <3>2
  <2> QED BY <2>1
<1>8. FlightOK'
  BY <1>5, <1>7, UnderWayKept, Elements DEF CallInv, FlightOK
<1> QED BY <1>5, <1>8 DEF CallInv

(* A write or a flush raises, and the registration stays.                   *)
LEMMA BrokenOK ==
  ASSUME CallInv, TypeInv', NEW c \in Callers, at[c] \in Active, End(c, Fail("broken")),
         UNCHANGED <<toHost, working, fromHost, holding, box, nextId, pending, rid, arg>>
  PROVE  CallInv'
<1>1. Fail("broken") \in Result /\ Fail("broken").how = "broken"
  BY Results DEF Fail
<1>2. CallOK' /\ PendingMatchesCalls' /\ ReturnOK' /\ Kept
  BY <1>1, EndActive
<1>3. FlightOK'
  BY <1>2, FlightStays
<1> QED BY <1>2, <1>3 DEF CallInv

(* A write that waits, a flush that succeeds.                               *)
LEMMA GoOnOK ==
  ASSUME CallInv, TypeInv', NEW c \in Callers, at[c] \in {"write", "flush"},
         NEW l \in {"blocked", "wait"}, Goto(c, l),
         UNCHANGED <<toHost, working, fromHost, holding, box, nextId, pending, rid, arg, result>>
  PROVE  CallInv'
<1>1. at[c] \in Active /\ rid[c] \in pending /\ l \in Active
  BY DEF CallInv, PendingMatchesCalls, Active, At
<1>2. CallOK' /\ PendingMatchesCalls' /\ ReturnOK' /\ Kept
  <2>1. \A d \in At({"write", "blocked", "flush"}) : d # c => rid[d] \in pending'
    BY DEF CallInv, PendingMatchesCalls
  <2>2. \A d \in At({"late"}) : rid[d] \notin pending'
    BY DEF CallInv, PendingMatchesCalls
  <2> QED BY <1>1, <2>1, <2>2, MoveActive
<1>3. FlightOK'
  BY <1>2, FlightStays
<1> QED BY <1>2, <1>3 DEF CallInv

LEMMA WriteOK == ASSUME CallInv, NEW c \in Callers, Write(c) PROVE CallInv'
<1>1. TypeInv' /\ at[c] = "write" /\ at[c] \in Active /\ (proc \in open \cap alive => proc \in Proc)
  BY TypeWrite DEF Write, CallInv, TypeInv, TypeOK, Active
<1>2. CASE proc \notin open \cap alive
  BY <1>1, <1>2, BrokenOK DEF Write, readerVars
<1>3. CASE proc \in open \cap alive /\ HasRoom(proc) /\ Blocked(proc) = {}
  BY <1>1, <1>3, SendOK DEF Write, readerVars
<1>4. CASE proc \in open \cap alive /\ ~ (HasRoom(proc) /\ Blocked(proc) = {})
  BY <1>1, <1>4, GoOnOK DEF Write, readerVars
<1> QED BY <1>2, <1>3, <1>4

LEMMA WriteOnOK == ASSUME CallInv, NEW c \in Callers, WriteOn(c) PROVE CallInv'
<1>1. TypeInv' /\ at[c] = "blocked" /\ at[c] \in Active /\ (into[c] \in alive => into[c] \in Proc)
  BY TypeWriteOn DEF WriteOn, CallInv, TypeInv, TypeOK, Active
<1>2. CASE into[c] \notin alive
  BY <1>1, <1>2, BrokenOK DEF WriteOn, readerVars
<1>3. CASE into[c] \in alive
  BY <1>1, <1>3, SendOK DEF WriteOn, readerVars
<1> QED BY <1>2, <1>3

LEMMA FlushOK == ASSUME CallInv, NEW c \in Callers, Flush(c) PROVE CallInv'
<1>1. TypeInv' /\ at[c] = "flush" /\ at[c] \in Active
  BY TypeFlush DEF Flush, CallInv, Active
<1>2. CASE End(c, Fail("broken"))
  BY <1>1, <1>2, BrokenOK DEF Flush, hostVars, readerVars
<1>3. CASE Goto(c, "wait") /\ UNCHANGED result
  BY <1>1, <1>3, GoOnOK DEF Flush, hostVars, readerVars
<1> QED BY <1>1, <1>2, <1>3 DEF Flush

(* The answer in the box of a call is the answer to its request.            *)
LEMMA GetOK == ASSUME CallInv, NEW c \in Callers, Get(c) PROVE CallInv'
<1>1. TypeInv'
  BY TypeGet DEF CallInv
<1>2. /\ at[c] \in Active /\ rid[c] \in Rid /\ arg[c] \in Args
      /\ box[rid[c]] \in Seq(Answer) /\ box[rid[c]] # << >> /\ box \in [Rid -> Seq(Answer)]
  BY DEF Get, CallInv, CallOK, Active, TypeInv, TypeOK
<1> DEFINE a == Head(box[rid[c]])
           how == IF a.ok THEN [how |-> "returned", arg |-> a.arg] ELSE Fail("error")
<1>3. a \in Answer /\ AnsOK(a) /\ a.id = rid[c]
  BY <1>2, Shortened DEF CallInv, FlightOK, TypeInv, TypeOK
<1>4. how \in Result /\ how.how # "broken" /\ (how.how = "returned" => how.arg = arg[c])
  BY <1>2, <1>3, AnswerFields, Results DEF AnsOK, Fail
<1>5. End(c, how)
  BY DEF Get
<1> HIDE DEF how
<1>6. CallOK' /\ PendingMatchesCalls' /\ ReturnOK' /\ Kept
  BY <1>1, <1>2, <1>4, <1>5, EndActive DEF Get, Unregister
<1>7. (\A r \in Rid : \A i \in 1..Len(box[r]) : AnsOK(box[r][i]) /\ box[r][i].id = r)'
  <2>1. \A r \in Rid : \A i \in 1..Len(box'[r]) :
          \E j \in 1..Len(box[r]) : box'[r][i] = box[r][j]
    <3>1. box'[rid[c]] = Tail(box[rid[c]]) /\ \A r \in Rid : r # rid[c] => box'[r] = box[r]
      BY <1>2 DEF Get
    <3>2. \A i \in 1..Len(box'[rid[c]]) : \E j \in 1..Len(box[rid[c]]) : box'[rid[c]][i] = box[rid[c]][j]
      BY <1>2, <3>1, Shortened
    <3> QED BY <3>1, <3>2
  <2> QED BY <1>1, <1>6, <2>1, UnderWayKept, Elements DEF CallInv, FlightOK
<1>8. FlightOK'
  BY <1>1, <1>6, <1>7, UnderWayKept, Elements DEF CallInv, FlightOK, Get, hostVars, readerVars
<1> QED BY <1>1, <1>6, <1>8 DEF CallInv

LEMMA GetEmptyOK == ASSUME CallInv, NEW c \in Callers, GetEmpty(c) PROVE CallInv'
<1>1. TypeInv'
  BY TypeGetEmpty DEF CallInv
<1>2. CallOK' /\ PendingMatchesCalls' /\ ReturnOK' /\ Kept
  <2>1. \A d \in At({"write", "blocked", "flush"}) : d # c => rid[d] \in pending'
    BY DEF CallInv, PendingMatchesCalls, GetEmpty, Unregister, At
  <2>2. \A d \in At({"late"}) : rid[d] \notin pending'
    BY DEF CallInv, PendingMatchesCalls, GetEmpty, Unregister
  <2> QED BY <1>1, <2>1, <2>2, MoveActive DEF GetEmpty, Unregister, Active
<1>3. FlightOK'
  BY <1>1, <1>2, FlightStays DEF GetEmpty, hostVars, readerVars
<1> QED BY <1>1, <1>2, <1>3 DEF CallInv

LEMMA WaitAgainOK == ASSUME CallInv, NEW c \in Callers, WaitAgain(c) PROVE CallInv'
<1>1. TypeInv'
  BY TypeWaitAgain DEF CallInv
<1>2. CallOK' /\ PendingMatchesCalls' /\ ReturnOK' /\ Kept
  <2>1. \A d \in At({"write", "blocked", "flush"}) : d # c => rid[d] \in pending'
    BY DEF CallInv, PendingMatchesCalls, WaitAgain
  <2>2. \A d \in At({"late"}) : rid[d] \notin pending'
    BY DEF CallInv, PendingMatchesCalls, WaitAgain
  <2> QED BY <1>1, <2>1, <2>2, MoveActive DEF WaitAgain, Active
<1>3. FlightOK'
  BY <1>1, <1>2, FlightStays DEF WaitAgain, hostVars, readerVars
<1> QED BY <1>1, <1>2, <1>3 DEF CallInv

LEMMA ExpireOK == ASSUME CallInv, NEW c \in Callers, Expire(c) PROVE CallInv'
<1>1. TypeInv'
  BY TypeExpire DEF CallInv
<1>2. CallOK' /\ PendingMatchesCalls' /\ ReturnOK' /\ Kept
  <2>1. Fail("timeout") \in Result /\ Fail("timeout").how = "timeout"
    BY Results DEF Fail
  <2> QED BY <1>1, <2>1, EndActive DEF Expire, Unregister, Active
<1>3. FlightOK'
  BY <1>1, <1>2, FlightStays DEF Expire, hostVars, readerVars
<1> QED BY <1>1, <1>2, <1>3 DEF CallInv

(* A thread outside call().                                                 *)
LEMMA MoveOutside ==
  ASSUME CallInv, TypeInv', NEW c \in Callers, NEW l \in {"idle", "close", "closing"}, Goto(c, l),
         at[c] \in {"idle", "close", "closing"}, nextId' = nextId, rid' = rid, arg' = arg, result' = result,
         pending' = pending, toHost' = toHost, working' = working, fromHost' = fromHost,
         holding' = holding, box' = box
  PROVE  CallInv'
<1>1. at' = [at EXCEPT ![c] = l] /\ at \in [Callers -> Label] /\ nextId \in Nat
  BY DEF Goto, CallInv, TypeInv, TypeOK, Label
<1>2. CallOK' /\ Kept
  BY <1>1 DEF CallInv, CallOK, Kept, Active
<1>3. PendingMatchesCalls' /\ ReturnOK'
  BY <1>1 DEF CallInv, PendingMatchesCalls, ReturnOK, At
<1>4. FlightOK'
  BY <1>2, FlightStays
<1> QED BY <1>2, <1>3, <1>4 DEF CallInv

LEMMA CloseOK == ASSUME CallInv, NEW c \in Callers, Close(c) \/ CloseChild(c) \/ CloseClear(c) PROVE CallInv'
<1>0. CASE Close(c)
  BY <1>0, TypeClose, MoveOutside DEF Close, hostVars, readerVars, CallInv
<1>1. CASE CloseChild(c)
  BY <1>1, TypeCloseChild, MoveOutside DEF CloseChild, readerVars, CallInv
<1>2. CASE CloseClear(c)
  BY <1>2, TypeCloseClear, MoveOutside DEF CloseClear, IdsAfterClose, hostVars, readerVars, CallInv
<1> QED BY <1>0, <1>1, <1>2

-----------------------------------------------------------------------------
(* The steps of the children and of the readers hand on what is under way.  *)

LEMMA CallersStay ==
  ASSUME CallInv, UNCHANGED <<at, rid, arg, result, nextId, pending>>
  PROVE  /\ CallOK' /\ PendingMatchesCalls' /\ ReturnOK' /\ Kept
<1>1. nextId \in Nat
  BY DEF CallInv, TypeInv, TypeOK
<1> QED BY <1>1 DEF CallInv, CallOK, PendingMatchesCalls, ReturnOK, At, Kept, Active

LEMMA HostTakeOK == ASSUME CallInv, NEW g \in Proc, HostTake(g) PROVE CallInv'
<1>1. TypeInv' /\ CallOK' /\ PendingMatchesCalls' /\ ReturnOK' /\ Kept
  BY TypeHost, CallersStay DEF CallInv, HostTake, callVars
<1>2. /\ toHost[g] \in Seq(Request) /\ toHost[g] # << >>
      /\ toHost' = [toHost EXCEPT ![g] = Tail(toHost[g])] /\ toHost \in [Proc -> Seq(Request)]
      /\ working' = [working EXCEPT ![g] = Head(toHost[g])] /\ working \in [Proc -> Request \cup {None}]
  BY DEF HostTake, CallInv, TypeInv, TypeOK
<1>3. (\A h \in Proc : \A i \in 1..Len(toHost[h]) : ReqOK(toHost[h][i]))'
  <2> SUFFICES ASSUME NEW h \in Proc, NEW i \in (1..Len(toHost[h]))' PROVE ReqOK(toHost[h][i])'
    OBVIOUS
  <2>1. \E j \in 1..Len(toHost[h]) : toHost'[h][i] = toHost[h][j]
    <3>1. CASE h = g
      <4>1. i \in 1..Len(Tail(toHost[g])) /\ toHost'[h][i] = Tail(toHost[g])[i]
        BY <1>2, <3>1
      <4> QED BY <1>2, <3>1, <4>1, Shortened
    <3>2. CASE h # g
      BY <1>2, <3>2
    <3> QED BY <3>1, <3>2
  <2> QED BY <1>1, <2>1, UnderWayKept, Elements DEF CallInv, FlightOK
<1>4. (\A h \in Proc : working[h] # None => ReqOK(working[h]))'
  <2> SUFFICES ASSUME NEW h \in Proc, working'[h] # None PROVE ReqOK(working[h])'
    OBVIOUS
  <2>1. \E q \in Request : q = working'[h] /\ ReqOK(q)
    <3>1. CASE h = g
      <4>1. working'[h] = toHost[g][1] /\ 1 \in 1..Len(toHost[g])
        BY <1>2, <3>1, Shortened
      <4> QED BY <4>1, Elements DEF CallInv, FlightOK
    <3>2. CASE h # g
      BY <1>2, <3>2, Elements DEF CallInv, FlightOK
    <3> QED BY <3>1, <3>2
  <2> QED BY <1>1, <2>1, UnderWayKept
<1>5. FlightOK'
  BY <1>1, <1>3, <1>4, UnderWayKept, Elements DEF CallInv, FlightOK, HostTake, readerVars
<1> QED BY <1>1, <1>5 DEF CallInv

(* A line joins a child's stdout.                                           *)
LEMMA SaidOK ==
  ASSUME CallInv, TypeInv', Kept, NEW g \in Proc, NEW a \in Answer, AnsOK(a),
         fromHost' = [fromHost EXCEPT ![g] = Append(fromHost[g], a)]
  PROVE  (\A h \in Proc : \A i \in 1..Len(fromHost[h]) : AnsOK(fromHost[h][i]))'
<1> SUFFICES ASSUME NEW h \in Proc, NEW i \in (1..Len(fromHost[h]))' PROVE AnsOK(fromHost[h][i])'
  OBVIOUS
<1>0. fromHost \in [Proc -> Seq(Answer)] /\ fromHost[g] \in Seq(Answer)
  BY DEF CallInv, TypeInv, TypeOK
<1>1. \E x \in Answer : x = fromHost'[h][i] /\ AnsOK(x)
  <2>1. CASE h = g
    <3>1. fromHost'[h] = Append(fromHost[g], a) /\ i \in 1..Len(Append(fromHost[g], a))
      BY <1>0, <2>1
    <3>2. fromHost'[h][i] = a \/ (i \in 1..Len(fromHost[g]) /\ fromHost'[h][i] = fromHost[g][i])
      BY <1>0, <3>1, Appended
    <3> QED BY <3>2, Elements DEF CallInv, FlightOK
  <2>2. CASE h # g
    BY <1>0, <2>2, Elements DEF CallInv, FlightOK
  <2> QED BY <2>1, <2>2
<1> QED BY <1>1, UnderWayKept

LEMMA HostAnswerOK ==
  ASSUME CallInv, NEW g \in Proc, NEW ok \in BOOLEAN, HostAnswer(g, ok) PROVE CallInv'
<1>1. TypeInv' /\ CallOK' /\ PendingMatchesCalls' /\ ReturnOK' /\ Kept
  BY TypeHost, CallersStay DEF CallInv, HostAnswer, callVars
<1>2. working[g] \in Request /\ ReqOK(working[g]) /\ working \in [Proc -> Request \cup {None}]
  BY Elements DEF CallInv, FlightOK, HostAnswer, TypeInv, TypeOK
<1>3. [id |-> working[g].id, ok |-> ok, arg |-> IF ok THEN working[g].arg ELSE None] \in Answer
  BY <1>2, BoundsAssumption DEF Request, Answer, Rid
<1> PICK a \in Answer : a = [id |-> working[g].id, ok |-> ok, arg |-> IF ok THEN working[g].arg ELSE None]
  BY <1>3
<1>4. AnsOK(a)
  BY <1>2 DEF ReqOK, AnsOK
<1>5. (\A h \in Proc : \A i \in 1..Len(fromHost[h]) : AnsOK(fromHost[h][i]))'
  <2>1. fromHost' = [fromHost EXCEPT ![g] = Append(fromHost[g], a)]
    BY DEF HostAnswer
  <2> QED BY <1>1, <1>4, <2>1, SaidOK
<1>6. (\A h \in Proc : working[h] # None => ReqOK(working[h]))'
  <2>1. \A h \in Proc : working'[h] # None => working'[h] = working[h]
    BY <1>2 DEF HostAnswer, WorkDone
  <2> QED BY <1>1, <2>1, UnderWayKept, Elements DEF CallInv, FlightOK
<1>7. FlightOK'
  BY <1>1, <1>5, <1>6, UnderWayKept, Elements DEF CallInv, FlightOK, HostAnswer, readerVars
<1> QED BY <1>1, <1>7 DEF CallInv

LEMMA HostPrintOK == ASSUME CallInv, NEW g \in Proc, HostPrint(g) PROVE CallInv'
<1>1. TypeInv' /\ CallOK' /\ PendingMatchesCalls' /\ ReturnOK' /\ Kept
  BY TypeHost, CallersStay DEF CallInv, HostPrint, callVars
<1>2. Stray \in Answer /\ AnsOK(Stray)
  <2>1. nextId \in 1..MaxCalls + 1 /\ \A c \in Callers : at[c] \in Active => rid[c] \in Rid
    BY DEF CallInv, CallOK, TypeInv, TypeOK
  <2> QED BY <2>1, BoundsAssumption DEF Stray, AnsOK, Answer, Rid
<1>3. (\A h \in Proc : \A i \in 1..Len(fromHost[h]) : AnsOK(fromHost[h][i]))'
  BY <1>1, <1>2, SaidOK DEF HostPrint
<1>4. FlightOK'
  BY <1>1, <1>3, UnderWayKept, Elements DEF CallInv, FlightOK, HostPrint, readerVars
<1> QED BY <1>1, <1>4 DEF CallInv

LEMMA HostCrashOK == ASSUME CallInv, NEW g \in Proc, HostCrash(g) PROVE CallInv'
<1>1. TypeInv' /\ CallOK' /\ PendingMatchesCalls' /\ ReturnOK' /\ Kept
  BY TypeHost, CallersStay DEF CallInv, HostCrash, callVars
<1>2. FlightOK'
  BY <1>1, FlightStays DEF HostCrash, readerVars
<1> QED BY <1>1, <1>2 DEF CallInv

LEMMA ReaderStartOK == ASSUME CallInv, NEW g \in Proc, ReaderStart(g) PROVE CallInv'
<1>1. TypeInv' /\ CallOK' /\ PendingMatchesCalls' /\ ReturnOK' /\ Kept
  BY TypeReader, CallersStay DEF CallInv, ReaderStart, callVars
<1>2. FlightOK'
  BY <1>1, FlightStays DEF ReaderStart, hostVars
<1> QED BY <1>1, <1>2 DEF CallInv

LEMMA ReaderTakeOK == ASSUME CallInv, NEW g \in Proc, ReaderTake(g) PROVE CallInv'
<1>1. TypeInv' /\ CallOK' /\ PendingMatchesCalls' /\ ReturnOK' /\ Kept
  BY TypeReader, CallersStay DEF CallInv, ReaderTake, callVars
<1> DEFINE f == source[g]
<1>0. f \in Proc
  BY BoundsAssumption DEF ReaderTake, CallInv, TypeInv, TypeOK, Proc
<1>2. /\ f \in Proc /\ fromHost[f] \in Seq(Answer) /\ fromHost[f] # << >>
      /\ fromHost' = [fromHost EXCEPT ![f] = Tail(fromHost[f])] /\ fromHost \in [Proc -> Seq(Answer)]
      /\ holding' = [holding EXCEPT ![g] = IF Head(fromHost[f]).id \in pending THEN Head(fromHost[f]) ELSE None]
      /\ holding \in [Proc -> Answer \cup {None}]
  BY <1>0 DEF ReaderTake, CallInv, TypeInv, TypeOK
<1> HIDE DEF f
<1>3. (\A h \in Proc : \A i \in 1..Len(fromHost[h]) : AnsOK(fromHost[h][i]))'
  <2> SUFFICES ASSUME NEW h \in Proc, NEW i \in (1..Len(fromHost[h]))' PROVE AnsOK(fromHost[h][i])'
    OBVIOUS
  <2>1. \E j \in 1..Len(fromHost[h]) : fromHost'[h][i] = fromHost[h][j]
    <3>1. CASE h = f
      <4>1. i \in 1..Len(Tail(fromHost[f])) /\ fromHost'[h][i] = Tail(fromHost[f])[i]
        BY <1>2, <3>1
      <4> QED BY <1>2, <3>1, <4>1, Shortened
    <3>2. CASE h # f
      BY <1>2, <3>2
    <3> QED BY <3>1, <3>2
  <2> QED BY <1>1, <2>1, UnderWayKept, Elements DEF CallInv, FlightOK
<1>4. (\A h \in Proc : holding[h] # None => AnsOK(holding[h]))'
  <2> SUFFICES ASSUME NEW h \in Proc, holding'[h] # None PROVE AnsOK(holding[h])'
    OBVIOUS
  <2>1. \E a \in Answer : a = holding'[h] /\ AnsOK(a)
    <3>1. CASE h = g
      <4>1. holding'[h] = fromHost[f][1] /\ 1 \in 1..Len(fromHost[f])
        BY <1>2, <3>1, Shortened
      <4> QED BY <1>2, <4>1, Elements DEF CallInv, FlightOK
    <3>2. CASE h # g
      BY <1>2, <3>2, Elements DEF CallInv, FlightOK
    <3> QED BY <3>1, <3>2
  <2> QED BY <1>1, <2>1, UnderWayKept
<1>5. FlightOK'
  BY <1>1, <1>3, <1>4, UnderWayKept, Elements DEF CallInv, FlightOK, ReaderTake
<1> QED BY <1>1, <1>5 DEF CallInv

LEMMA ReaderPutOK == ASSUME CallInv, NEW g \in Proc, ReaderPut(g) PROVE CallInv'
<1>1. TypeInv' /\ CallOK' /\ PendingMatchesCalls' /\ ReturnOK' /\ Kept
  BY TypeReader, CallersStay DEF CallInv, ReaderPut, callVars
<1> PICK a \in Answer : a = holding[g]
  BY Elements DEF CallInv, ReaderPut
<1>2. /\ AnsOK(a) /\ holding' = [holding EXCEPT ![g] = None] /\ holding \in [Proc -> Answer \cup {None}]
      /\ box' = [box EXCEPT ![a.id] = << a >>] /\ box \in [Rid -> Seq(Answer)]
  BY DEF ReaderPut, CallInv, FlightOK, TypeInv, TypeOK
<1>3. (\A r \in Rid : \A i \in 1..Len(box[r]) : AnsOK(box[r][i]) /\ box[r][i].id = r)'
  <2> SUFFICES ASSUME NEW r \in Rid, NEW i \in (1..Len(box[r]))'
               PROVE AnsOK(box[r][i])' /\ box'[r][i].id = r
    OBVIOUS
  <2>1. \E x \in Answer : x = box'[r][i] /\ AnsOK(x) /\ x.id = r
    <3>1. CASE r = a.id
      <4>1. box'[r] = << a >>
        BY <1>2, <3>1
      <4>2. i = 1 /\ box'[r][i] = a
        BY <4>1
      <4> QED BY <1>2, <3>1, <4>2
    <3>2. CASE r # a.id
      BY <1>2, <3>2, Elements DEF CallInv, FlightOK
    <3> QED BY <3>1, <3>2
  <2> QED BY <1>1, <2>1, UnderWayKept
<1>4. (\A h \in Proc : holding[h] # None => AnsOK(holding[h]))'
  <2>1. \A h \in Proc : holding'[h] # None => holding'[h] = holding[h]
    BY <1>2
  <2> QED BY <1>1, <2>1, UnderWayKept, Elements DEF CallInv, FlightOK
<1>5. FlightOK'
  BY <1>1, <1>3, <1>4, UnderWayKept, Elements DEF CallInv, FlightOK, ReaderPut, hostVars
<1> QED BY <1>1, <1>5 DEF CallInv

-----------------------------------------------------------------------------
LEMMA CallInit == Init => CallInv
<1> SUFFICES ASSUME Init PROVE CallInv
  OBVIOUS
<1>1. TypeInv
  BY TypeInit
<1>2. CallOK /\ PendingMatchesCalls /\ ReturnOK
  BY NoneAssumption DEF Init, CallOK, PendingMatchesCalls, ReturnOK, At, Active
<1>3. FlightOK
  BY DEF Init, FlightOK
<1> QED BY <1>1, <1>2, <1>3 DEF CallInv

LEMMA CallNext == ASSUME CallInv, [Next]_vars PROVE CallInv'
<1>1. CASE \E c \in Callers, a \in Args : Begin(c, a)
  BY <1>1, BeginOK
<1>2. CASE \E c \in Callers : CallStep(c) \/ Expire(c) \/ WaitAgain(c) \/ Close(c)
  BY <1>2, SpawnOK, RegisterOK, WriteOK, WriteOnOK, FlushOK, GetOK, GetEmptyOK, ExpireOK,
     WaitAgainOK, CloseOK DEF CallStep
<1>3. CASE \E g \in Proc : HostTake(g) \/ HostPrint(g) \/ HostCrash(g)
  BY <1>3, HostTakeOK, HostPrintOK, HostCrashOK
<1>4. CASE \E g \in Proc, ok \in BOOLEAN : HostAnswer(g, ok)
  BY <1>4, HostAnswerOK
<1>5. CASE \E g \in Proc : ReaderStart(g) \/ ReaderTake(g) \/ ReaderPut(g)
  BY <1>5, ReaderStartOK, ReaderTakeOK, ReaderPutOK
<1>6. CASE UNCHANGED vars
  <2>1. TypeInv'
    BY <1>6, CountStay DEF CallInv, TypeInv, TypeOK, vars
  <2>2. CallOK' /\ PendingMatchesCalls' /\ ReturnOK' /\ Kept
    BY <1>6, CallersStay DEF vars
  <2>3. FlightOK'
    BY <1>6, <2>1, <2>2, FlightStays DEF vars
  <2> QED BY <2>1, <2>2, <2>3 DEF CallInv
<1> QED BY <1>1, <1>2, <1>3, <1>4, <1>5, <1>6 DEF Next

(* The inductive invariant of the calls.                                    *)
THEOREM CallInvariance == Spec => []CallInv
<1>1. Init => CallInv
  BY CallInit
<1>2. CallInv /\ [Next]_vars => CallInv'
  BY CallNext
<1> QED BY <1>1, <1>2, PTL DEF Spec

(* The variables of the adapter process keep their types, and the bounds of *)
(* the model are respected by every interleaving of the callers.            *)
THEOREM AdapterTypeOK == Spec => []TypeOK
<1>1. CallInv => TypeOK
  BY DEF CallInv, TypeInv
<1> QED BY <1>1, CallInvariance, PTL

(* AdapterProcess.call returns the answer to its own request, whatever the  *)
(* threads, the readers and the children of the past still have in hand.    *)
THEOREM OwnAnswerReturned == Spec => []OwnAnswer
<1>1. CallInv => OwnAnswer
  BY DEF CallInv, ReturnOK, OwnAnswer
<1> QED BY <1>1, CallInvariance, PTL

(* _pending holds the calls in progress, and of those that ended only the   *)
(* ones whose write raised.                                                 *)
THEOREM RegistrationsMatch == Spec => []PendingMatchesCalls
<1>1. CallInv => PendingMatchesCalls
  BY DEF CallInv
<1> QED BY <1>1, CallInvariance, PTL

-----------------------------------------------------------------------------
(***************************************************************************)
(* Why the reader thread of AdapterProcess never waits in q.put: a request *)
(* id is in one place at a time, from the caller that is about to write    *)
(* its request, through the child and the reader, to the call's queue.     *)
(***************************************************************************)

(* The ids in the queues f and in the slots w, and that they are there once.*)
QueueIds(f) == {r \in Rid : \E g \in Proc : \E i \in 1..Len(f[g]) : f[g][i].id = r}
QueuedOnce(f) ==
  \A g, h \in Proc : \A i \in 1..Len(f[g]), j \in 1..Len(f[h]) :
    f[g][i].id \in Rid /\ f[g][i].id = f[h][j].id => g = h /\ i = j
SlotIds(w) == {r \in Rid : \E g \in Proc : w[g] # None /\ w[g].id = r}
SlotOnce(w) ==
  \A g, h \in Proc : w[g] # None /\ w[h] # None /\ w[g].id = w[h].id => g = h

(* Queues and slots of S, and what a step makes of them: f becomes e.       *)
AreQueues(f, S) == f \in [Proc -> Seq(S)]
AreSlots(w, S) == w \in [Proc -> S \cup {None}]
Taken(f, e, g) == f[g] # << >> /\ e = [f EXCEPT ![g] = Tail(f[g])]
Put(f, e, g, x) == e = [f EXCEPT ![g] = Append(f[g], x)]
Filled(w, v, g, x) == w[g] = None /\ v = [w EXCEPT ![g] = x]
Emptied(w, v, g) == w[g] # None /\ v = [w EXCEPT ![g] = None]

Writing == {rid[c] : c \in At({"write", "blocked"})}
Boxed == {r \in Rid : box[r] # << >>}

(* No two of the sets meet.                                                 *)
Apart(s1, s2, s3, s4, s5, s6) ==
  \A r : /\ r \in s1 => r \notin s2 /\ r \notin s3 /\ r \notin s4 /\ r \notin s5 /\ r \notin s6
         /\ r \in s2 => r \notin s3 /\ r \notin s4 /\ r \notin s5 /\ r \notin s6
         /\ r \in s3 => r \notin s4 /\ r \notin s5 /\ r \notin s6
         /\ r \in s4 => r \notin s5 /\ r \notin s6
         /\ r \in s5 => r \notin s6

OnceOK ==
  /\ QueuedOnce(toHost) /\ QueuedOnce(fromHost) /\ SlotOnce(working) /\ SlotOnce(holding)
  /\ \A g \in Proc : holding[g] # None => holding[g].id \in Rid
  /\ Apart(Writing, QueueIds(toHost), SlotIds(working), QueueIds(fromHost), SlotIds(holding), Boxed)

-----------------------------------------------------------------------------
(* Taking from a queue, putting into one, filling and emptying a slot.      *)

LEMMA QueueTake ==
  ASSUME NEW S, NEW f, AreQueues(f, S), NEW g \in Proc, QueuedOnce(f), NEW e, Taken(f, e, g)
  PROVE  /\ QueuedOnce(e) /\ QueueIds(e) \subseteq QueueIds(f)
         /\ Head(f[g]).id \in Rid => Head(f[g]).id \in QueueIds(f) /\ Head(f[g]).id \notin QueueIds(e)
<1> USE DEF AreQueues, Taken
<1>1. f[g] \in Seq(S) /\ Head(f[g]) = f[g][1] /\ 1 \in 1..Len(f[g])
  BY Shortened
<1>2. \A h \in Proc : \A i \in 1..Len(e[h]) :
        \/ h # g /\ i \in 1..Len(f[h]) /\ e[h][i] = f[h][i]
        \/ h = g /\ i + 1 \in 1..Len(f[g]) /\ e[h][i] = f[g][i + 1]
  <2> SUFFICES ASSUME NEW h \in Proc, NEW i \in 1..Len(e[h])
               PROVE \/ h # g /\ i \in 1..Len(f[h]) /\ e[h][i] = f[h][i]
                     \/ h = g /\ i + 1 \in 1..Len(f[g]) /\ e[h][i] = f[g][i + 1]
    OBVIOUS
  <2>1. CASE h = g
    <3>1. e[h] = Tail(f[g])
      BY <2>1
    <3> QED BY <1>1, <2>1, <3>1, Shortened
  <2>2. CASE h # g
    BY <2>2
  <2> QED BY <2>1, <2>2
<1>3. QueuedOnce(e)
  <2> SUFFICES ASSUME NEW h \in Proc, NEW k \in Proc, NEW i \in 1..Len(e[h]), NEW j \in 1..Len(e[k]),
                      e[h][i].id \in Rid, e[h][i].id = e[k][j].id
               PROVE h = k /\ i = j
    BY DEF QueuedOnce
  <2>1. i \in Int /\ j \in Int
    OBVIOUS
  <2> QED BY <1>2, <2>1 DEF QueuedOnce
<1>4. QueueIds(e) \subseteq QueueIds(f)
  BY <1>2 DEF QueueIds
<1>5. ASSUME Head(f[g]).id \in Rid PROVE Head(f[g]).id \in QueueIds(f) /\ Head(f[g]).id \notin QueueIds(e)
  <2>1. Head(f[g]).id \in QueueIds(f)
    BY <1>1, <1>5 DEF QueueIds
  <2>2. ASSUME NEW h \in Proc, NEW i \in 1..Len(e[h]), e[h][i].id = f[g][1].id PROVE FALSE
    <3>1. i \in Nat \ {0}
      OBVIOUS
    <3> QED BY <1>1, <1>2, <1>5, <2>2, <3>1 DEF QueuedOnce
  <2> QED BY <1>1, <2>1, <2>2 DEF QueueIds
<1> QED BY <1>3, <1>4, <1>5

LEMMA QueuePut ==
  ASSUME NEW S, NEW f, AreQueues(f, S), NEW g \in Proc, QueuedOnce(f), NEW x \in S,
         x.id \notin QueueIds(f), NEW e, Put(f, e, g, x)
  PROVE  QueuedOnce(e) /\ QueueIds(e) \subseteq QueueIds(f) \cup {x.id}
<1> USE DEF AreQueues, Put
<1>1. \A h \in Proc : \A i \in 1..Len(e[h]) :
        \/ i \in 1..Len(f[h]) /\ e[h][i] = f[h][i]
        \/ h = g /\ i = Len(f[g]) + 1 /\ e[h][i] = x
  <2> SUFFICES ASSUME NEW h \in Proc, NEW i \in 1..Len(e[h])
               PROVE \/ i \in 1..Len(f[h]) /\ e[h][i] = f[h][i]
                     \/ h = g /\ i = Len(f[g]) + 1 /\ e[h][i] = x
    OBVIOUS
  <2>1. CASE h = g
    <3>1. e[h] = Append(f[g], x) /\ f[g] \in Seq(S)
      BY <2>1
    <3> QED BY <2>1, <3>1
  <2>2. CASE h # g
    BY <2>2
  <2> QED BY <2>1, <2>2
<1>2. QueuedOnce(e)
  <2> SUFFICES ASSUME NEW h \in Proc, NEW k \in Proc, NEW i \in 1..Len(e[h]), NEW j \in 1..Len(e[k]),
                      e[h][i].id \in Rid, e[h][i].id = e[k][j].id
               PROVE h = k /\ i = j
    BY DEF QueuedOnce
  <2> QED BY <1>1 DEF QueuedOnce, QueueIds
<1>3. QueueIds(e) \subseteq QueueIds(f) \cup {x.id}
  BY <1>1 DEF QueueIds
<1> QED BY <1>2, <1>3

LEMMA SlotFill ==
  ASSUME NEW S, NEW w, AreSlots(w, S), NEW g \in Proc, SlotOnce(w), NEW x \in S, x.id \in Rid,
         x.id \notin SlotIds(w), NEW v, Filled(w, v, g, x)
  PROVE  SlotOnce(v) /\ SlotIds(v) \subseteq SlotIds(w) \cup {x.id}
BY DEF SlotOnce, SlotIds, AreSlots, Filled

LEMMA SlotEmpty ==
  ASSUME NEW S, NEW w, AreSlots(w, S), NEW g \in Proc, SlotOnce(w), NEW v, Emptied(w, v, g)
  PROVE  /\ SlotOnce(v) /\ SlotIds(v) \subseteq SlotIds(w) \ {w[g].id}
         /\ w[g].id \in Rid => w[g].id \in SlotIds(w)
BY DEF SlotOnce, SlotIds, AreSlots, Emptied

-----------------------------------------------------------------------------
LEMMA Typed ==
  ASSUME CallInv
  PROVE  /\ toHost \in [Proc -> Seq(Request)] /\ fromHost \in [Proc -> Seq(Answer)]
         /\ working \in [Proc -> Request \cup {None}] /\ holding \in [Proc -> Answer \cup {None}]
         /\ box \in [Rid -> Seq(Answer)] /\ at \in [Callers -> Label]
         /\ rid \in [Callers -> Rid \cup {None}] /\ nextId \in Nat /\ pending \subseteq Rid
         /\ source \in [Proc -> 0..MaxProcs]
         /\ AreQueues(toHost, Request) /\ AreQueues(fromHost, Answer)
         /\ AreSlots(working, Request) /\ AreSlots(holding, Answer)
BY DEF CallInv, TypeInv, TypeOK, Label, AreQueues, AreSlots

(* Every id under way has been allocated.                                   *)
LEMMA Allocated ==
  ASSUME CallInv
  PROVE  nextId \notin QueueIds(toHost) \cup SlotIds(working) \cup QueueIds(fromHost)
                        \cup SlotIds(holding) \cup Boxed
<1>1. nextId \in Nat
  BY Typed
<1>2. nextId \notin QueueIds(toHost) \cup QueueIds(fromHost)
  BY <1>1 DEF CallInv, FlightOK, ReqOK, AnsOK, QueueIds
<1>3. nextId \notin SlotIds(working) \cup SlotIds(holding)
  BY <1>1 DEF CallInv, FlightOK, ReqOK, AnsOK, SlotIds
<1>4. nextId \notin Boxed
  <2> SUFFICES ASSUME nextId \in Rid, box[nextId] # << >> PROVE FALSE
    BY DEF Boxed
  <2>1. box[nextId] \in Seq(Answer)
    BY Typed
  <2>2. 1 \in 1..Len(box[nextId])
    BY <2>1
  <2> QED BY <1>1, <2>2 DEF CallInv, FlightOK, AnsOK
<1> QED BY <1>2, <1>3, <1>4

(* Steps that move nothing but, perhaps, a caller away from its write.      *)
LEMMA OnceStays ==
  ASSUME OnceOK, toHost' = toHost, working' = working, fromHost' = fromHost, holding' = holding,
         Writing' \subseteq Writing, Boxed' \subseteq Boxed
  PROVE  OnceOK'
<1>1. /\ QueuedOnce(toHost)' /\ QueuedOnce(fromHost)' /\ SlotOnce(working)' /\ SlotOnce(holding)'
      /\ (\A g \in Proc : holding[g] # None => holding[g].id \in Rid)'
  BY DEF OnceOK, QueuedOnce, SlotOnce
<1>2. /\ QueueIds(toHost)' = QueueIds(toHost) /\ QueueIds(fromHost)' = QueueIds(fromHost)
      /\ SlotIds(working)' = SlotIds(working) /\ SlotIds(holding)' = SlotIds(holding)
  BY DEF QueueIds, SlotIds
<1>3. Apart(Writing', QueueIds(toHost)', SlotIds(working)', QueueIds(fromHost)', SlotIds(holding)', Boxed')
  BY <1>2 DEF OnceOK, Apart
<1> QED BY <1>1, <1>3 DEF OnceOK, Apart

(* The operators applied to the next state.                                 *)
LEMMA Primed ==
  /\ QueuedOnce(toHost)' = QueuedOnce(toHost') /\ QueueIds(toHost)' = QueueIds(toHost')
  /\ QueuedOnce(fromHost)' = QueuedOnce(fromHost') /\ QueueIds(fromHost)' = QueueIds(fromHost')
  /\ SlotOnce(working)' = SlotOnce(working') /\ SlotIds(working)' = SlotIds(working')
  /\ SlotOnce(holding)' = SlotOnce(holding') /\ SlotIds(holding)' = SlotIds(holding')
BY DEF QueuedOnce, QueueIds, SlotOnce, SlotIds

LEMMA OnceNext ==
  ASSUME QueuedOnce(toHost'), QueuedOnce(fromHost'), SlotOnce(working'), SlotOnce(holding'),
         \A g \in Proc : holding'[g] # None => holding'[g].id \in Rid,
         Apart(Writing', QueueIds(toHost'), SlotIds(working'), QueueIds(fromHost'), SlotIds(holding'), Boxed')
  PROVE  OnceOK'
BY Primed DEF OnceOK, Apart

-----------------------------------------------------------------------------
(* The steps of the callers.                                                *)

LEMMA OnceRegister == ASSUME CallInv, OnceOK, NEW c \in Callers, Register(c) PROVE OnceOK'
<1> USE DEF Register, End, Goto, hostVars, readerVars
<1>1. CASE proc = 0
  <2>1. Writing' \subseteq Writing /\ Boxed' \subseteq Boxed
    BY <1>1, Typed DEF Writing, Boxed, At
  <2> QED BY <1>1, <2>1, OnceStays
<1>2. CASE proc # 0
  <2>1. Writing' \subseteq Writing \cup {nextId} /\ Boxed' = Boxed
    BY <1>2, Typed DEF Writing, Boxed, At
  <2>2. Apart(Writing', QueueIds(toHost), SlotIds(working), QueueIds(fromHost), SlotIds(holding), Boxed')
    BY <2>1, Allocated DEF OnceOK, Apart
  <2> QED BY <1>2, <2>2, OnceNext DEF OnceOK
<1> QED BY <1>1, <1>2

LEMMA OnceSend ==
  ASSUME CallInv, OnceOK, NEW c \in Callers, at[c] \in {"write", "blocked"}, NEW g \in Proc,
         Send(c, g), Goto(c, "flush"), UNCHANGED <<working, fromHost, holding, box, rid>>
  PROVE  OnceOK'
<1>0. rid[c] \in Rid /\ arg[c] \in Args
  BY DEF CallInv, CallOK, Active
<1>1. [id |-> rid[c], arg |-> arg[c]] \in Request
  BY <1>0 DEF Request
<1> PICK q \in Request : q = [id |-> rid[c], arg |-> arg[c]]
  BY <1>1
<1>2. rid[c] \in Writing /\ q.id = rid[c]
  BY DEF Writing, At
<1>3. q.id \notin QueueIds(toHost)
  BY <1>2 DEF OnceOK, Apart
<1>4. QueuedOnce(toHost') /\ QueueIds(toHost') \subseteq QueueIds(toHost) \cup {q.id}
  <2>1. Put(toHost, toHost', g, q) /\ QueuedOnce(toHost) /\ AreQueues(toHost, Request)
    BY Typed DEF Put, OnceOK, Send
  <2> QED BY <1>0, <1>3, <2>1, QueuePut
<1>5. Writing' \subseteq Writing \ {q.id} /\ Boxed' = Boxed
  <2>1. at' = [at EXCEPT ![c] = "flush"]
    BY DEF Goto
  <2>2. \A d \in At({"write", "blocked"}) : d # c => rid[d] # rid[c]
    BY DEF CallInv, PendingMatchesCalls, At
  <2> QED BY <1>2, <2>1, <2>2, Typed DEF Writing, Boxed, At
<1>6. Apart(Writing', QueueIds(toHost'), SlotIds(working), QueueIds(fromHost), SlotIds(holding), Boxed')
  <2>1. q.id \notin SlotIds(working) \cup QueueIds(fromHost) \cup SlotIds(holding) \cup Boxed
    BY <1>2 DEF OnceOK, Apart
  <2> QED BY <1>4, <1>5, <2>1 DEF OnceOK, Apart
<1> QED BY <1>4, <1>6, OnceNext DEF OnceOK

LEMMA OnceWrite == ASSUME CallInv, OnceOK, NEW c \in Callers, Write(c) \/ WriteOn(c) PROVE OnceOK'
<1> USE DEF Write, WriteOn, readerVars
<1>1. CASE \E g \in Proc : Send(c, g) /\ Goto(c, "flush")
  BY <1>1, OnceSend
<1>2. CASE UNCHANGED toHost
  <2>1. Writing' \subseteq Writing /\ Boxed' \subseteq Boxed
    BY <1>2, Typed DEF Writing, Boxed, At, End, Goto
  <2> QED BY <1>2, <2>1, OnceStays
<1>3. proc \in alive => proc \in Proc
  BY DEF CallInv, TypeInv, TypeOK
<1>4. into[c] \in alive => into[c] \in Proc
  BY DEF CallInv, TypeInv, TypeOK
<1> QED BY <1>1, <1>2, <1>3, <1>4

LEMMA OnceOtherCalls ==
  ASSUME CallInv, OnceOK, NEW c \in Callers,
         \/ \E a \in Args : Begin(c, a)
         \/ Spawn(c) \/ Flush(c) \/ Get(c) \/ GetEmpty(c) \/ Expire(c) \/ WaitAgain(c)
         \/ Close(c) \/ CloseChild(c) \/ CloseClear(c)
  PROVE  OnceOK'
<1> USE DEF hostVars, readerVars, Goto
<1>1. \A d \in Callers : at'[d] \in {"write", "blocked"} => at'[d] = at[d] /\ rid'[d] = rid[d]
  BY Typed DEF Begin, Spawn, Flush, Get, GetEmpty, Expire, WaitAgain, Close, CloseChild, CloseClear, End
<1>2. Writing' \subseteq Writing
  BY <1>1 DEF Writing, At
<1>3. ASSUME box' = box PROVE Boxed' \subseteq Boxed
  BY <1>3 DEF Boxed
<1>4. ASSUME Get(c) PROVE Boxed' \subseteq Boxed
  <2>1. rid[c] \in Rid /\ box' = [box EXCEPT ![rid[c]] = Tail(box[rid[c]])] /\ box[rid[c]] # << >>
    BY <1>4 DEF Get, CallInv, CallOK, Active
  <2> QED BY <2>1, Typed DEF Boxed
<1>5. CASE Get(c)
  BY <1>2, <1>4, <1>5, OnceStays DEF Get
<1>6. CASE ~Get(c)
  <2>1. box' = box /\ toHost' = toHost /\ working' = working /\ fromHost' = fromHost /\ holding' = holding
    BY <1>6 DEF Begin, Spawn, Flush, GetEmpty, Expire, WaitAgain, Close, CloseChild, CloseClear
  <2> QED BY <1>2, <1>3, <2>1, OnceStays
<1> QED BY <1>5, <1>6

-----------------------------------------------------------------------------
(* The steps of the children and of the readers.                            *)

LEMMA CallersKeep ==
  ASSUME UNCHANGED callVars PROVE Writing' = Writing
BY DEF callVars, Writing, At

LEMMA OnceHostTake == ASSUME CallInv, OnceOK, NEW g \in Proc, HostTake(g) PROVE OnceOK'
<1>1. /\ toHost' = [toHost EXCEPT ![g] = Tail(toHost[g])] /\ toHost[g] # << >>
      /\ working' = [working EXCEPT ![g] = Head(toHost[g])] /\ working[g] = None
      /\ fromHost' = fromHost /\ holding' = holding /\ box' = box /\ Writing' = Writing
  BY CallersKeep DEF HostTake, readerVars
<1> PICK q \in Request : q = Head(toHost[g])
  BY <1>1, Typed, Queues
<1>2. q.id \in Rid
  BY DEF Request
<1>3. /\ QueuedOnce(toHost') /\ QueueIds(toHost') \subseteq QueueIds(toHost) \ {q.id}
      /\ q.id \in QueueIds(toHost)
  <2>1. AreQueues(toHost, Request) /\ QueuedOnce(toHost) /\ Taken(toHost, toHost', g)
    BY <1>1, Typed DEF OnceOK, Taken
  <2>2. /\ QueuedOnce(toHost') /\ QueueIds(toHost') \subseteq QueueIds(toHost)
        /\ Head(toHost[g]).id \in Rid =>
             Head(toHost[g]).id \in QueueIds(toHost) /\ Head(toHost[g]).id \notin QueueIds(toHost')
    BY <2>1, QueueTake
  <2> QED BY <1>2, <2>2
<1>4. q.id \notin Writing \cup SlotIds(working) \cup QueueIds(fromHost) \cup SlotIds(holding) \cup Boxed
  BY <1>3 DEF OnceOK, Apart
<1>5. SlotOnce(working') /\ SlotIds(working') \subseteq SlotIds(working) \cup {q.id}
  <2>1. /\ AreSlots(working, Request) /\ SlotOnce(working) /\ q.id \notin SlotIds(working)
        /\ Filled(working, working', g, q)
    BY <1>1, <1>4, Typed DEF OnceOK, Filled
  <2> QED BY <1>2, <2>1, SlotFill
<1>6. Boxed' = Boxed
  BY <1>1 DEF Boxed
<1>7. Apart(Writing', QueueIds(toHost'), SlotIds(working'), QueueIds(fromHost), SlotIds(holding), Boxed')
  BY <1>1, <1>3, <1>4, <1>5, <1>6 DEF OnceOK, Apart
<1> QED BY <1>1, <1>3, <1>5, <1>7, OnceNext DEF OnceOK

LEMMA OnceHostAnswer ==
  ASSUME CallInv, OnceOK, NEW g \in Proc, NEW ok \in BOOLEAN, HostAnswer(g, ok) PROVE OnceOK'
<1>1. working[g] \in Request /\ working[g] # None
  BY Typed DEF HostAnswer
<1>2. [id |-> working[g].id, ok |-> ok, arg |-> IF ok THEN working[g].arg ELSE None] \in Answer
  BY <1>1, BoundsAssumption DEF Request, Answer, Rid
<1> PICK a \in Answer : a = [id |-> working[g].id, ok |-> ok, arg |-> IF ok THEN working[g].arg ELSE None]
  BY <1>2
<1>3. /\ fromHost' = [fromHost EXCEPT ![g] = Append(fromHost[g], a)]
      /\ working' = [working EXCEPT ![g] = None]
      /\ toHost' = toHost /\ holding' = holding /\ box' = box /\ Writing' = Writing
  BY CallersKeep DEF HostAnswer, WorkDone, readerVars
<1>4. a.id = working[g].id /\ a.id \in Rid
  BY <1>1 DEF Request
<1>5. /\ SlotOnce(working') /\ SlotIds(working') \subseteq SlotIds(working) \ {a.id}
      /\ a.id \in SlotIds(working)
  <2>1. AreSlots(working, Request) /\ SlotOnce(working) /\ Emptied(working, working', g)
    BY <1>1, <1>3, Typed DEF OnceOK, Emptied
  <2> QED BY <1>4, <2>1, SlotEmpty
<1>6. a.id \notin Writing \cup QueueIds(toHost) \cup QueueIds(fromHost) \cup SlotIds(holding) \cup Boxed
  BY <1>5 DEF OnceOK, Apart
<1>7. QueuedOnce(fromHost') /\ QueueIds(fromHost') \subseteq QueueIds(fromHost) \cup {a.id}
  <2>1. /\ AreQueues(fromHost, Answer) /\ QueuedOnce(fromHost) /\ a.id \notin QueueIds(fromHost)
        /\ Put(fromHost, fromHost', g, a)
    BY <1>3, <1>6, Typed DEF OnceOK, Put
  <2> QED BY <2>1, QueuePut
<1>8. Boxed' = Boxed
  BY <1>3 DEF Boxed
<1>9. Apart(Writing', QueueIds(toHost), SlotIds(working'), QueueIds(fromHost'), SlotIds(holding), Boxed')
  BY <1>3, <1>5, <1>6, <1>7, <1>8 DEF OnceOK, Apart
<1> QED BY <1>3, <1>5, <1>7, <1>9, OnceNext DEF OnceOK

(* A stray line carries no id of a request.                                 *)
LEMMA OnceHostPrint == ASSUME CallInv, OnceOK, NEW g \in Proc, HostPrint(g) PROVE OnceOK'
<1>1. /\ fromHost' = [fromHost EXCEPT ![g] = Append(fromHost[g], Stray)]
      /\ toHost' = toHost /\ working' = working /\ holding' = holding /\ box' = box
      /\ Writing' = Writing
  BY CallersKeep DEF HostPrint, readerVars
<1>2. Stray \in Answer /\ Stray.id \notin Rid
  BY BoundsAssumption DEF Stray, Answer, Rid
<1>3. Stray.id \notin QueueIds(fromHost)
  BY <1>2 DEF QueueIds
<1>4. QueuedOnce(fromHost') /\ QueueIds(fromHost') \subseteq QueueIds(fromHost)
  <2>1. QueuedOnce(fromHost') /\ QueueIds(fromHost') \subseteq QueueIds(fromHost) \cup {Stray.id}
    <3>1. AreQueues(fromHost, Answer) /\ QueuedOnce(fromHost) /\ Put(fromHost, fromHost', g, Stray)
      BY <1>1, Typed DEF OnceOK, Put
    <3> QED BY <1>2, <1>3, <3>1, QueuePut
  <2>2. Stray.id \notin QueueIds(fromHost')
    BY <1>2 DEF QueueIds
  <2> QED BY <2>1, <2>2
<1>5. Boxed' = Boxed
  BY <1>1 DEF Boxed
<1>6. Apart(Writing', QueueIds(toHost), SlotIds(working), QueueIds(fromHost'), SlotIds(holding), Boxed')
  BY <1>1, <1>4, <1>5 DEF OnceOK, Apart
<1> QED BY <1>1, <1>4, <1>6, OnceNext DEF OnceOK

LEMMA OnceReaderTake == ASSUME CallInv, OnceOK, NEW g \in Proc, ReaderTake(g) PROVE OnceOK'
<1> DEFINE f == source[g]
<1>1. f \in Proc
  BY Typed, BoundsAssumption DEF ReaderTake, Proc
<1>2. /\ fromHost' = [fromHost EXCEPT ![f] = Tail(fromHost[f])] /\ fromHost[f] # << >>
      /\ holding' = [holding EXCEPT ![g] = IF Head(fromHost[f]).id \in pending THEN Head(fromHost[f]) ELSE None]
      /\ holding[g] = None
      /\ toHost' = toHost /\ working' = working /\ box' = box /\ Writing' = Writing
  BY CallersKeep DEF ReaderTake
<1> HIDE DEF f
<1> PICK a \in Answer : a = Head(fromHost[f])
  BY <1>1, <1>2, Typed, Queues
<1>3. /\ QueuedOnce(fromHost') /\ QueueIds(fromHost') \subseteq QueueIds(fromHost)
      /\ a.id \in Rid => a.id \in QueueIds(fromHost) /\ a.id \notin QueueIds(fromHost')
  <2>1. AreQueues(fromHost, Answer) /\ QueuedOnce(fromHost) /\ Taken(fromHost, fromHost', f)
    BY <1>2, Typed DEF OnceOK, Taken
  <2>2. /\ QueuedOnce(fromHost') /\ QueueIds(fromHost') \subseteq QueueIds(fromHost)
        /\ Head(fromHost[f]).id \in Rid =>
             Head(fromHost[f]).id \in QueueIds(fromHost) /\ Head(fromHost[f]).id \notin QueueIds(fromHost')
    BY <1>1, <2>1, QueueTake
  <2> QED BY <2>2
<1>4. Boxed' = Boxed
  BY <1>2 DEF Boxed
<1>5. CASE a.id \in pending
  <2>1. a.id \in Rid /\ a \in Answer /\ holding' = [holding EXCEPT ![g] = a]
    BY <1>2, <1>5, Typed
  <2>2. a.id \notin Writing \cup QueueIds(toHost) \cup SlotIds(working) \cup SlotIds(holding) \cup Boxed
    BY <1>3, <2>1 DEF OnceOK, Apart
  <2>3. SlotOnce(holding') /\ SlotIds(holding') \subseteq SlotIds(holding) \cup {a.id}
    <3>1. /\ AreSlots(holding, Answer) /\ SlotOnce(holding) /\ a.id \notin SlotIds(holding)
          /\ Filled(holding, holding', g, a)
      BY <1>2, <2>1, <2>2, Typed DEF OnceOK, Filled
    <3> QED BY <2>1, <3>1, SlotFill
  <2>4. \A h \in Proc : holding'[h] # None => holding'[h].id \in Rid
    BY <2>1, Typed DEF OnceOK
  <2>5. Apart(Writing', QueueIds(toHost), SlotIds(working), QueueIds(fromHost'), SlotIds(holding'), Boxed')
    BY <1>2, <1>3, <1>4, <2>1, <2>2, <2>3 DEF OnceOK, Apart
  <2> QED BY <1>2, <1>3, <2>3, <2>4, <2>5, OnceNext DEF OnceOK
<1>6. CASE a.id \notin pending
  <2>1. holding' = holding
    BY <1>2, <1>6, Typed
  <2>2. Apart(Writing', QueueIds(toHost), SlotIds(working), QueueIds(fromHost'), SlotIds(holding), Boxed')
    BY <1>2, <1>3, <1>4 DEF OnceOK, Apart
  <2> QED BY <1>2, <1>3, <2>1, <2>2, OnceNext DEF OnceOK
<1> QED BY <1>5, <1>6

LEMMA OnceReaderPut == ASSUME CallInv, OnceOK, NEW g \in Proc, ReaderPut(g) PROVE OnceOK'
<1> PICK a \in Answer : a = holding[g]
  BY Typed DEF ReaderPut
<1>1. /\ holding' = [holding EXCEPT ![g] = None] /\ holding[g] # None
      /\ box' = [box EXCEPT ![a.id] = << a >>] /\ a.id \in Rid
      /\ toHost' = toHost /\ working' = working /\ fromHost' = fromHost /\ Writing' = Writing
  BY CallersKeep DEF ReaderPut, hostVars, OnceOK
<1>2. /\ SlotOnce(holding') /\ SlotIds(holding') \subseteq SlotIds(holding) \ {a.id}
      /\ a.id \in SlotIds(holding)
  <2>1. AreSlots(holding, Answer) /\ SlotOnce(holding) /\ Emptied(holding, holding', g)
    BY <1>1, Typed DEF OnceOK, Emptied
  <2> QED BY <1>1, <2>1, SlotEmpty
<1>3. a.id \notin Writing \cup QueueIds(toHost) \cup SlotIds(working) \cup QueueIds(fromHost)
  BY <1>2 DEF OnceOK, Apart
<1>4. Boxed' \subseteq Boxed \cup {a.id}
  BY <1>1, Typed DEF Boxed
<1>5. \A h \in Proc : holding'[h] # None => holding'[h].id \in Rid
  BY <1>1, Typed DEF OnceOK
<1>6. Apart(Writing', QueueIds(toHost), SlotIds(working), QueueIds(fromHost), SlotIds(holding'), Boxed')
  BY <1>1, <1>2, <1>3, <1>4 DEF OnceOK, Apart
<1> QED BY <1>1, <1>2, <1>5, <1>6, OnceNext DEF OnceOK

-----------------------------------------------------------------------------
LEMMA OnceInit == Init => OnceOK
<1> SUFFICES ASSUME Init PROVE OnceOK
  OBVIOUS
<1>1. /\ QueuedOnce(toHost) /\ QueuedOnce(fromHost) /\ SlotOnce(working) /\ SlotOnce(holding)
      /\ \A g \in Proc : holding[g] # None => holding[g].id \in Rid
  BY DEF Init, QueuedOnce, SlotOnce
<1>2. QueueIds(toHost) = {} /\ QueueIds(fromHost) = {} /\ SlotIds(working) = {} /\ SlotIds(holding) = {}
  BY DEF Init, QueueIds, SlotIds
<1>3. Writing = {} /\ Boxed = {}
  BY DEF Init, Writing, Boxed, At
<1> QED BY <1>1, <1>2, <1>3 DEF OnceOK, Apart

LEMMA OnceStep == ASSUME CallInv, OnceOK, [Next]_vars PROVE OnceOK'
<1>1. CASE \E c \in Callers, a \in Args : Begin(c, a)
  BY <1>1, OnceOtherCalls
<1>2. CASE \E c \in Callers : CallStep(c) \/ Expire(c) \/ WaitAgain(c) \/ Close(c)
  BY <1>2, OnceRegister, OnceWrite, OnceOtherCalls DEF CallStep
<1>3. CASE \E g \in Proc : HostCrash(g) \/ ReaderStart(g)
  <2>1. Writing' = Writing /\ Boxed' = Boxed
    BY <1>3, CallersKeep DEF HostCrash, ReaderStart, Boxed
  <2> QED BY <1>3, <2>1, OnceStays DEF HostCrash, ReaderStart, hostVars, readerVars
<1>4. CASE \E g \in Proc : HostTake(g) \/ HostPrint(g) \/ ReaderTake(g) \/ ReaderPut(g)
  BY <1>4, OnceHostTake, OnceHostPrint, OnceReaderTake, OnceReaderPut
<1>5. CASE \E g \in Proc, ok \in BOOLEAN : HostAnswer(g, ok)
  BY <1>5, OnceHostAnswer
<1>6. CASE UNCHANGED vars
  <2>1. Writing' = Writing /\ Boxed' = Boxed
    BY <1>6 DEF vars, Writing, Boxed, At
  <2> QED BY <1>6, <2>1, OnceStays DEF vars
<1> QED BY <1>1, <1>2, <1>3, <1>4, <1>5, <1>6 DEF Next

(* The reader thread never waits in q.put (pyadapter.py, _read_loop): the   *)
(* queue of the answer it holds is empty, for any number of threads.        *)
THEOREM ReaderIsNeverStuck == Spec => []ReaderNeverBlocks
<1>1. Init => CallInv /\ OnceOK
  BY CallInit, OnceInit
<1>2. (CallInv /\ OnceOK) /\ [Next]_vars => (CallInv /\ OnceOK)'
  BY CallNext, OnceStep
<1>3. OnceOK => ReaderNeverBlocks
  <2> SUFFICES ASSUME OnceOK, NEW g \in Proc, holding[g] # None PROVE box[holding[g].id] = << >>
    BY DEF ReaderNeverBlocks
  <2>1. holding[g].id \in SlotIds(holding)
    BY DEF OnceOK, SlotIds
  <2>2. holding[g].id \notin Boxed /\ holding[g].id \in Rid
    BY <2>1 DEF OnceOK, Apart
  <2> QED BY <2>2 DEF Boxed
<1> QED BY <1>1, <1>2, <1>3, PTL DEF Spec
=============================================================================
