---------------------------- MODULE AdapterProcess ----------------------------
(***************************************************************************)
(* AdapterProcess of flavent/pyadapter.py: threads that call a Python      *)
(* adapter in a child process, the reader thread that hands the child's    *)
(* answers to the calls by request id, the host loop of the child          *)
(* (flavent/pyadapter_host.py), the pipes between them, crashes of the     *)
(* child, timeouts, close() and restarts.                                  *)
(*                                                                         *)
(* One action is one critical section of _lock, or a stretch of code that  *)
(* touches shared state once.  Process g is the g-th child ever spawned,   *)
(* reader g the thread that start() created for it.                        *)
(***************************************************************************)
EXTENDS Naturals, Sequences, FiniteSets

CONSTANTS
  Callers,   \* threads
  Args,      \* what tells two requests apart
  MaxCalls,  \* bound on the request ids allocated in one history
  MaxProcs,  \* bound on the children spawned in one history
  MaxLines,  \* bound on the stray lines an adapter prints
  PipeSize,  \* how many requests the pipe to a child holds
  None

ASSUME BoundsAssumption == MaxCalls \in Nat /\ MaxProcs \in Nat /\ MaxLines \in Nat
ASSUME PipeAssumption == PipeSize \in Nat \ {0}
ASSUME CallersAssumption == IsFiniteSet(Callers)

Rid == 1..MaxCalls
Proc == 1..MaxProcs
Request == [id : Rid, arg : Args]
\* An answer; id 0 is a line the reader could not parse.
Answer == [id : 0..MaxCalls, ok : BOOLEAN, arg : Args \cup {None}]
StrayUnnumbered == [id |-> None, ok |-> FALSE, arg |-> None]  \* fault: no id 0
Stray == [id |-> 0, ok |-> FALSE, arg |-> None]
\* How a call ended: what call() returned, or which exception it raised.
Result == [how : {"returned", "error", "timeout", "broken", "assertion"},
           arg : Args \cup {None}]

ASSUME NoneAssumption == None \notin Args \cup Rid \cup Request \cup Answer \cup Result

VARIABLES
  proc,     \* _proc: the current child, 0 for None
  spawned,  \* how many children were spawned
  alive,    \* the children that run
  open,     \* the children whose stdin the parent has not closed
  toHost,   \* toHost[g]: requests in g's stdin
  working,  \* working[g]: the request dispatch() is busy with
  fromHost, \* fromHost[g]: lines in g's stdout
  strays,   \* stray lines printed so far
  source,   \* source[g]: the child whose stdout reader g reads, 0 before
  holding,  \* holding[g]: the answer reader g has found a queue for
  nextId,   \* _next_id
  pending,  \* the ids in _pending
  box,      \* box[r]: the Queue(maxsize=1) of request r
  at,       \* at[c]: where thread c stands
  into,     \* into[c]: the child whose full stdin thread c's write waits for, 0 if none
  rid,      \* rid[c]: its request id
  arg,      \* arg[c]: its request
  result    \* result[c]: how its last call ended

hostVars == <<alive, toHost, working, fromHost, strays>>
readerVars == <<source, holding>>
callVars == <<at, into, rid, arg, result>>
vars == <<proc, spawned, alive, open, toHost, working, fromHost, strays,
          source, holding, nextId, pending, box, at, into, rid, arg, result>>

Init ==
  /\ proc = 0 /\ spawned = 0 /\ alive = {} /\ open = {}
  /\ toHost = [g \in Proc |-> << >>] /\ fromHost = [g \in Proc |-> << >>]
  /\ working = [g \in Proc |-> None] /\ strays = 0
  /\ source = [g \in Proc |-> 0] /\ holding = [g \in Proc |-> None]
  /\ nextId = 1 /\ pending = {} /\ box = [r \in Rid |-> << >>]
  /\ at = [c \in Callers |-> "idle"] /\ into = [c \in Callers |-> 0]
  /\ rid = [c \in Callers |-> None] /\ arg = [c \in Callers |-> None]
  /\ result = [c \in Callers |-> None]

At(S) == {c \in Callers : at[c] \in S}
Goto(c, l) == at' = [at EXCEPT ![c] = l]

-----------------------------------------------------------------------------
(* call().  start() looks at _proc without the lock, so two threads may     *)
(* both decide to spawn.                                                    *)

Begin(c, a) ==
  /\ at[c] = "idle" /\ nextId + Cardinality(At({"spawn", "register"})) <= MaxCalls
  /\ proc = 0 => spawned + Cardinality(At({"spawn"})) < MaxProcs
  /\ Goto(c, IF proc = 0 THEN "spawn" ELSE "register")
  /\ arg' = [arg EXCEPT ![c] = a] /\ rid' = [rid EXCEPT ![c] = None]
  /\ result' = [result EXCEPT ![c] = None]
  /\ UNCHANGED <<proc, spawned, open, nextId, pending, box, into>>
  /\ UNCHANGED hostVars /\ UNCHANGED readerVars

(* Popen, the assignment of _proc and the start of the reader thread.       *)
Spawn(c) ==
  /\ at[c] = "spawn"
  /\ spawned' = spawned + 1 /\ proc' = spawned'
  /\ alive' = alive \cup {spawned'} /\ open' = open \cup {spawned'}
  /\ Goto(c, "register")
  /\ UNCHANGED <<toHost, working, fromHost, strays, nextId, pending, box, into, rid, arg, result>>
  /\ UNCHANGED readerVars

(* The call ends; the thread is free for the next one.                      *)
End(c, how) == Goto(c, "idle") /\ result' = [result EXCEPT ![c] = how]

Fail(how) == [how |-> how, arg |-> None]

(* Under the lock: allocate the id and register the queue.  When close()    *)
(* has just cleared _proc the assertion before it fails.                    *)
Register(c) ==
  /\ at[c] = "register"
  /\ IF proc = 0
       THEN End(c, Fail("assertion")) /\ UNCHANGED <<rid, pending, nextId>>
       ELSE /\ rid' = [rid EXCEPT ![c] = nextId]
            /\ pending' = pending \cup {nextId} /\ nextId' = nextId + 1
            /\ Goto(c, "write") /\ UNCHANGED result
  /\ UNCHANGED <<proc, spawned, open, box, into, arg>>
  /\ UNCHANGED hostVars /\ UNCHANGED readerVars

(* The threads whose write waits for room in g's stdin; the buffer's own     *)
(* lock keeps every other write, flush and close of that stdin behind them. *)
Blocked(g) == {c \in Callers : at[c] = "blocked" /\ into[c] = g}

HasRoom(g) == Len(toHost[g]) < PipeSize
Send(c, g) == toHost' = [toHost EXCEPT ![g] = Append(@, [id |-> rid[c], arg |-> arg[c]])]

(* Write the request line to the current child, outside the lock.  A child  *)
(* that has died, a stdin that close() has closed and a _proc that is None  *)
(* raise from here, and the registration stays behind.  A child that does   *)
(* not read its full stdin keeps the write waiting, however long.           *)
Write(c) ==
  /\ at[c] = "write"
  /\ \/ /\ proc \notin open \cap alive
        /\ End(c, Fail("broken")) /\ UNCHANGED <<toHost, into>>
     \/ /\ proc \in open \cap alive /\ HasRoom(proc) /\ Blocked(proc) = {}
        /\ Send(c, proc) /\ Goto(c, "flush") /\ UNCHANGED <<into, result>>
     \/ /\ proc \in open \cap alive /\ ~ (HasRoom(proc) /\ Blocked(proc) = {})
        /\ into' = [into EXCEPT ![c] = proc] /\ Goto(c, "blocked") /\ UNCHANGED <<toHost, result>>
  /\ UNCHANGED <<proc, spawned, alive, open, working, fromHost, strays,
                 nextId, pending, box, rid, arg>>
  /\ UNCHANGED readerVars

(* The write goes on when the child has read or died.                       *)
WriteOn(c) ==
  /\ at[c] = "blocked"
  /\ \/ into[c] \notin alive /\ End(c, Fail("broken")) /\ UNCHANGED toHost
     \/ into[c] \in alive /\ HasRoom(into[c]) /\ Send(c, into[c]) /\ Goto(c, "flush") /\ UNCHANGED result
  /\ into' = [into EXCEPT ![c] = 0]
  /\ UNCHANGED <<proc, spawned, alive, open, working, fromHost, strays,
                 nextId, pending, box, rid, arg>>
  /\ UNCHANGED readerVars

(* flush() looks _proc up once more and may meet another child, a closed    *)
(* stdin or None; that of a dead child raises if a failed write has left    *)
(* something in the buffer.  The line itself has gone with the write.       *)
Flush(c) ==
  /\ at[c] = "flush" /\ Blocked(proc) = {}
  /\ \/ proc \in open /\ Goto(c, "wait") /\ UNCHANGED result
     \/ proc \notin open \cap alive /\ End(c, Fail("broken"))
  /\ UNCHANGED <<proc, spawned, open, nextId, pending, box, into, rid, arg>>
  /\ UNCHANGED hostVars /\ UNCHANGED readerVars

(* q.get returns an answer; the finally clause removes the registration.    *)
KeepRegistered(c) == pending           \* fault: no finally clause
Unregister(c) == pending \ {rid[c]}

Get(c) ==
  /\ at[c] = "wait" /\ box[rid[c]] # << >>
  /\ LET a == Head(box[rid[c]]) IN
       End(c, IF a.ok THEN [how |-> "returned", arg |-> a.arg] ELSE Fail("error"))
  /\ box' = [box EXCEPT ![rid[c]] = Tail(@)] /\ pending' = Unregister(c)
  /\ UNCHANGED <<proc, spawned, open, nextId, into, rid, arg>>
  /\ UNCHANGED hostVars /\ UNCHANGED readerVars

(* q.get raises Empty; the finally clause removes the registration although *)
(* the loop may go on.                                                      *)
NeverEmpty(c) == FALSE                 \* fault: q.get without a timeout
GetEmpty(c) ==
  /\ at[c] = "wait" /\ box[rid[c]] = << >>
  /\ Goto(c, "late") /\ pending' = Unregister(c)
  /\ UNCHANGED <<proc, spawned, open, nextId, box, into, rid, arg, result>>
  /\ UNCHANGED hostVars /\ UNCHANGED readerVars

(* remaining <= 0: TimeoutError, whatever the reader has put meanwhile.     *)
Expire(c) ==
  /\ at[c] = "late"
  /\ End(c, Fail("timeout")) /\ pending' = Unregister(c)
  /\ UNCHANGED <<proc, spawned, open, nextId, box, into, rid, arg>>
  /\ UNCHANGED hostVars /\ UNCHANGED readerVars

(* remaining > 0 once more, because the wall clock was set back: the loop   *)
(* waits again, now for a queue nobody can find.                            *)
WaitAgain(c) ==
  /\ at[c] = "late" /\ Goto(c, "wait")
  /\ UNCHANGED <<proc, spawned, open, nextId, pending, box, into, rid, arg, result>>
  /\ UNCHANGED hostVars /\ UNCHANGED readerVars

-----------------------------------------------------------------------------
(* close().  Closing stdin waits behind a blocked write; then the child is  *)
(* terminated and waited for (or killed), and _proc cleared.  Neither       *)
(* _pending nor _next_id is reset.                                          *)

Close(c) ==
  /\ at[c] = "idle" /\ proc # 0 /\ Goto(c, "close")
  /\ UNCHANGED <<proc, spawned, open, nextId, pending, box, into, rid, arg, result>>
  /\ UNCHANGED hostVars /\ UNCHANGED readerVars

CloseChild(c) ==
  /\ at[c] = "close" /\ Blocked(proc) = {}
  /\ open' = open \ {proc} /\ alive' = alive \ {proc}
  /\ Goto(c, "closing")
  /\ UNCHANGED <<proc, spawned, toHost, working, fromHost, strays,
                 nextId, pending, box, into, rid, arg, result>>
  /\ UNCHANGED readerVars

IdsRestart == 1                        \* fault: close() resets _next_id
IdsAfterClose == nextId

CloseClear(c) ==
  /\ at[c] = "closing" /\ Goto(c, "idle")
  /\ proc' = 0 /\ nextId' = IdsAfterClose
  /\ UNCHANGED <<spawned, open, pending, box, into, rid, arg, result>>
  /\ UNCHANGED hostVars /\ UNCHANGED readerVars

-----------------------------------------------------------------------------
(* The child: one request at a time, one answer line for each.              *)

HostTake(g) ==
  /\ g \in alive /\ working[g] = None /\ toHost[g] # << >>
  /\ working' = [working EXCEPT ![g] = Head(toHost[g])]
  /\ toHost' = [toHost EXCEPT ![g] = Tail(@)]
  /\ UNCHANGED <<proc, spawned, alive, open, fromHost, strays, nextId, pending, box>>
  /\ UNCHANGED readerVars /\ UNCHANGED callVars

StillWorking(g) == working             \* fault: the request is answered again
WorkDone(g) == [working EXCEPT ![g] = None]

(* dispatch() returns bytes, or raises and the error is sent.               *)
HostAnswer(g, ok) ==
  /\ g \in alive /\ working[g] # None /\ Len(fromHost[g]) < MaxCalls + MaxLines
  /\ fromHost' = [fromHost EXCEPT ![g] = Append(@, [id |-> working[g].id, ok |-> ok,
                                    arg |-> IF ok THEN working[g].arg ELSE None])]
  /\ working' = WorkDone(g)
  /\ UNCHANGED <<proc, spawned, alive, open, toHost, strays, nextId, pending, box>>
  /\ UNCHANGED readerVars /\ UNCHANGED callVars

(* The adapter's own code prints to stdout, which is the protocol's pipe.   *)
HostPrint(g) ==
  /\ g \in alive /\ working[g] # None /\ strays < MaxLines
  /\ strays' = strays + 1 /\ fromHost' = [fromHost EXCEPT ![g] = Append(@, Stray)]
  /\ UNCHANGED <<proc, spawned, alive, open, toHost, working, nextId, pending, box>>
  /\ UNCHANGED readerVars /\ UNCHANGED callVars

(* The child dies; nobody notices, _proc keeps it.                          *)
HostCrash(g) ==
  /\ g \in alive /\ alive' = alive \ {g}
  /\ UNCHANGED <<proc, spawned, open, toHost, working, fromHost, strays, nextId, pending, box>>
  /\ UNCHANGED readerVars /\ UNCHANGED callVars

-----------------------------------------------------------------------------
(* _read_loop.  The thread finds its pipe through self._proc when it gets   *)
(* to run, so it may read a younger child's stdout; with _proc None its     *)
(* assertion ends it.                                                       *)

ReaderStart(g) ==
  /\ g <= spawned /\ source[g] = 0 /\ proc # 0
  /\ source' = [source EXCEPT ![g] = proc]
  /\ UNCHANGED <<proc, spawned, open, holding, nextId, pending, box>>
  /\ UNCHANGED hostVars /\ UNCHANGED callVars

(* Take a line, parse it and look its id up under the lock; a line nobody   *)
(* waits for is dropped.                                                    *)
ReaderTake(g) ==
  /\ source[g] # 0 /\ holding[g] = None /\ fromHost[source[g]] # << >>
  /\ LET a == Head(fromHost[source[g]]) IN
       holding' = [holding EXCEPT ![g] = IF a.id \in pending THEN a ELSE None]
  /\ fromHost' = [fromHost EXCEPT ![source[g]] = Tail(@)]
  /\ UNCHANGED <<proc, spawned, alive, open, toHost, working, strays, source,
                 nextId, pending, box>>
  /\ UNCHANGED callVars

(* q.put, outside the lock; it blocks while the queue is full.              *)
ReaderPut(g) ==
  /\ holding[g] # None /\ box[holding[g].id] = << >>
  /\ box' = [box EXCEPT ![holding[g].id] = << holding[g] >>]
  /\ holding' = [holding EXCEPT ![g] = None]
  /\ UNCHANGED <<proc, spawned, open, source, nextId, pending>>
  /\ UNCHANGED hostVars /\ UNCHANGED callVars

CallStep(c) ==
  \/ Spawn(c) \/ Register(c) \/ Write(c) \/ WriteOn(c) \/ Flush(c) \/ Get(c) \/ GetEmpty(c)
  \/ CloseChild(c) \/ CloseClear(c)

Next ==
  \/ \E c \in Callers, a \in Args : Begin(c, a)
  \/ \E c \in Callers : CallStep(c) \/ Expire(c) \/ WaitAgain(c) \/ Close(c)
  \/ \E g \in Proc : HostTake(g) \/ HostPrint(g) \/ HostCrash(g)
  \/ \E g \in Proc, ok \in BOOLEAN : HostAnswer(g, ok)
  \/ \E g \in Proc : ReaderStart(g) \/ ReaderTake(g) \/ ReaderPut(g)

Spec == Init /\ [][Next]_vars

(* A thread inside call() or close() goes on when it can, q.get returns     *)
(* within its timeout, and the clock reaches the deadline in the end.  The  *)
(* child owes nothing.                                                      *)
FairSpec == Spec /\ \A c \in Callers : WF_vars(CallStep(c)) /\ SF_vars(Expire(c))

-----------------------------------------------------------------------------
(* Every variable has its type.                                             *)
TypeOK ==
  /\ proc \in 0..MaxProcs /\ spawned \in 0..MaxProcs
  /\ alive \subseteq Proc /\ open \subseteq Proc
  /\ toHost \in [Proc -> Seq(Request)] /\ working \in [Proc -> Request \cup {None}]
  /\ fromHost \in [Proc -> Seq(Answer)] /\ strays \in 0..MaxLines
  /\ source \in [Proc -> 0..MaxProcs] /\ holding \in [Proc -> Answer \cup {None}]
  /\ nextId \in 1..MaxCalls + 1 /\ pending \subseteq Rid
  /\ box \in [Rid -> Seq(Answer)]
  /\ at \in [Callers -> {"idle", "spawn", "register", "write", "blocked", "flush", "wait", "late",
                        "close", "closing"}]
  /\ into \in [Callers -> 0..MaxProcs]
  /\ rid \in [Callers -> Rid \cup {None}] /\ arg \in [Callers -> Args \cup {None}]
  /\ result \in [Callers -> Result \cup {None}]

(* A call that returns a payload returns the answer to its own request,     *)
(* whatever answers of timed-out calls, of other threads or of an earlier   *)
(* child are still under way.                                               *)
OwnAnswer ==
  \A c \in Callers : at[c] = "idle" /\ result[c] # None /\ result[c].how = "returned"
                       => result[c].arg = arg[c]

(* The reader never waits in q.put: the queue it is about to fill is empty. *)
(* It serves every call, so once blocked no call would be answered.         *)
ReaderNeverBlocks == \A g \in Proc : holding[g] # None => box[holding[g].id] = << >>

(* Calls in progress have ids of their own; a call is registered before its *)
(* request is written and no longer once it found its queue empty; and the  *)
(* registration of a call that ended is gone, unless its write raised.      *)
PendingMatchesCalls ==
  /\ \A c, d \in At({"write", "blocked", "flush", "wait", "late"}) : c # d => rid[c] # rid[d]
  /\ \A c \in At({"write", "blocked", "flush"}) : rid[c] \in pending
  /\ \A c \in At({"late"}) : rid[c] \notin pending
  /\ \A c \in Callers : result[c] # None /\ rid[c] \in pending => result[c].how = "broken"

(* A thread that waits for a child to read: in its own write, or behind     *)
(* another thread's.                                                        *)
Stuck(c) ==
  \/ at[c] = "blocked" /\ into[c] \in alive /\ ~ HasRoom(into[c])
  \/ at[c] \in {"flush", "close"} /\ \E d \in Blocked(proc) : into[d] \in alive /\ ~ HasRoom(into[d])

(* Every call and every close() ends, unless from some time on the thread   *)
(* waits for a child that lives and does not read: a call returns, raises   *)
(* or times out, though answers are late, lost or dropped.                  *)
CallEnds == \A c \in Callers : []<>(at[c] = "idle") \/ <>[]Stuck(c)
=============================================================================
