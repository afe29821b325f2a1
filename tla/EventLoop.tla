------------------------------ MODULE EventLoop ------------------------------
(***************************************************************************)
(* The cooperative event loop of run_hir_program (flavent/runtime.py).     *)
(*                                                                         *)
(* A handler instance is a Python generator wrapped in a _Task.  The loop  *)
(* takes the first runnable task, advances it to its next yield and acts   *)
(* on what it yielded; when nothing is runnable it dispatches one queued   *)
(* event, the one with the smallest type id, to all of its handlers.  This *)
(* module keeps the whole scheduler and leaves the handler bodies open:    *)
(* what a task yields next is nondeterministic, so every Flavent program   *)
(* is covered.                                                             *)
(***************************************************************************)
EXTENDS Naturals, Sequences, FiniteSets, Functions

CONSTANTS
  Types,      \* ids of the event types (typeId in the HIR)
  Payload,    \* what tells two events of one type apart
  Task,       \* identities of the _Task objects alive at one moment
  Handlers,   \* Handlers[t]: the handlers of t, sectors then handlers in
              \* program order (handlers_by_event)
  EntryType,  \* entry_event_type
  EntryValue, \* the payload {} of the seeded event
  MaxQueue,   \* bound on the events queued for one type
  MaxWaiting, \* bound on the tasks suspended at one moment
  None        \* no handler, no event type, no value to send (_NO_SEND)

ASSUME TypesAssumption == Types \subseteq Nat
ASSUME EntryAssumption == EntryType \in Types /\ EntryValue \in Payload
ASSUME HandlersAssumption ==
  /\ Handlers \in [Types -> Seq(UNION {Range(Handlers[t]) : t \in Types})]
  /\ None \notin UNION {Range(Handlers[t]) : t \in Types}
ASSUME TaskAssumption ==
  /\ IsFiniteSet(Task) /\ MaxQueue \in Nat /\ MaxWaiting \in Nat
  /\ \A t \in Types : Cardinality(Task) >= MaxWaiting + Len(Handlers[t])
ASSUME NoneAssumption == None \notin Types /\ None \notin [type : Types, payload : Payload]

Handler == UNION {Range(Handlers[t]) : t \in Types}
Event == [type : Types, payload : Payload]

VARIABLES
  status,      \* "running", or how run_hir_program ended
  runnable,    \* deque of tasks ready to run
  waiting,     \* waiting[t]: deque of tasks suspended in `await t`
  queue,       \* events_by_type[t]: deque of events
  heap,        \* event_type_heap: how often each type id is in the heap
  inHeap,      \* event_type_in_heap
  handlerOf,   \* the handler a live task runs, None if no such task exists
  binding,     \* the event a task was created with (h.binder in its env)
  started,     \* the tasks whose generator has been advanced at least once
  awaited,     \* the type of the await the generator is suspended in, or None
  pendingSend  \* _Task.pending_send

taskVars == <<handlerOf, binding, started, awaited, pendingSend>>
heapVars == <<heap, inHeap>>
vars == <<status, runnable, waiting, queue, heap, inHeap,
          handlerOf, binding, started, awaited, pendingSend>>

-----------------------------------------------------------------------------
(* enqueue_event seeds the entry event: nobody waits yet, so it is queued.  *)

Init ==
  /\ status = "running"
  /\ runnable = << >>
  /\ waiting = [t \in Types |-> << >>]
  /\ queue = [t \in Types |-> IF t = EntryType
                THEN << [type |-> t, payload |-> EntryValue] >> ELSE << >>]
  /\ heap = [t \in Types |-> IF t = EntryType THEN 1 ELSE 0]
  /\ inHeap = {EntryType}
  /\ handlerOf = [i \in Task |-> None]
  /\ binding = [i \in Task |-> None]
  /\ started = {}
  /\ awaited = [i \in Task |-> None]
  /\ pendingSend = [i \in Task |-> None]

(* The event a task hands to the loop: the type id found by                 *)
(* _infer_event_type_id with the value.                                     *)
BarePayload(t, p) == p                               \* fault: the type is lost
Ev(t, p) == [type |-> t, payload |-> p]

(* heap[0] = t *)
IsTop(t) == heap[t] > 0 /\ \A u \in Types : heap[u] > 0 => t <= u

(* The event dispatch_one_event finds: the entries below t are stale, their *)
(* queues were emptied by awaits while another type was at the top.         *)
AnyQueued(t) == heap[t] > 0 /\ queue[t] # << >>      \* fault: any type
IsNext(t) ==
  /\ heap[t] > 0 /\ queue[t] # << >>
  /\ \A u \in Types : heap[u] > 0 /\ u < t => queue[u] = << >>

(* Taking one event empties the queue of t.                                 *)
AlwaysEmptied(t) == TRUE              \* fault: the type leaves the heap anyway
Emptied(t) == Len(queue[t]) = 1

(* An event queued for t must be announced in the heap.                     *)
PushIfEmpty(t) == queue[t] = << >>    \* fault: event_type_in_heap not consulted
NeedsPush(t) == queue[t] = << >> /\ t \notin inHeap

(* enqueue_event serves waiters first.                                      *)
QueueAnyway(t) == TRUE                \* fault: waiters not consulted
NoWaiter(t) == waiting[t] = << >>

Suspended == {i \in Task : awaited[i] # None /\ pendingSend[i] = None}
Free == {i \in Task : handlerOf[i] = None}

(* Fresh identities for the n tasks of one event, in program order.         *)
Slots(n) == {s \in [1..n -> Free] : IsInjective(s)}

(* dispatch_one_event finds an event, and the popleft that follows it: with *)
(* no handler nothing became runnable and popleft raises IndexError.        *)
Dispatch(t) ==
  /\ status = "running" /\ runnable = << >> /\ IsNext(t)
  /\ queue' = [queue EXCEPT ![t] = Tail(@)]
  /\ heap' = [u \in Types |-> IF u < t THEN 0
                ELSE IF u = t /\ Emptied(t) THEN heap[u] - 1 ELSE heap[u]]
  /\ inHeap' = inHeap \ {u \in Types : \/ u < t /\ heap[u] > 0
                                       \/ u = t /\ Emptied(t)}
  /\ \E s \in Slots(Len(Handlers[t])) :
       /\ runnable' = s
       /\ handlerOf' = [i \in Task |-> IF i \in Range(s)
                          THEN Handlers[t][CHOOSE k \in DOMAIN s : s[k] = i]
                          ELSE handlerOf[i]]
       /\ binding' = [i \in Task |-> IF i \in Range(s) THEN Head(queue[t])
                                                       ELSE binding[i]]
  /\ status' = IF Handlers[t] = << >> THEN "crashed" ELSE "running"
  /\ UNCHANGED <<waiting, started, awaited, pendingSend>>

(* dispatch_one_event finds none and drops the stale entries; the loop      *)
(* returns.  Tasks that still wait are abandoned.                           *)
Return ==
  /\ status = "running" /\ runnable = << >>
  /\ \A t \in Types : heap[t] > 0 => queue[t] = << >>
  /\ status' = "returned"
  /\ heap' = [t \in Types |-> 0]
  /\ inHeap' = inHeap \ {t \in Types : heap[t] > 0}
  /\ UNCHANGED <<runnable, waiting, queue>> /\ UNCHANGED taskVars

-----------------------------------------------------------------------------
(* One iteration of the loop takes the first runnable task i and advances   *)
(* its generator to the next yield; _advance_task takes pending_send first. *)

IsHead(i) == status = "running" /\ runnable # << >> /\ Head(runnable) = i

NotTaken(i) == pendingSend            \* fault: pending_send is not reset
Taken(i) == [pendingSend EXCEPT ![i] = None]

(* popleft, then append.                                                    *)
BackToFront(i) == << i >> \o Tail(runnable)   \* fault: appendleft
NotPopped(i) == Append(runnable, i)           \* fault: the head is only read
ToBack(i) == Append(Tail(runnable), i)

(* The generator runs past its await, up to a yield; it suspends in an      *)
(* await of t, or in an emit (t = None).                                    *)
Advance(i, t) ==
  /\ IsHead(i)
  /\ started' = started \cup {i}
  /\ awaited' = [awaited EXCEPT ![i] = t]
  /\ UNCHANGED <<status, handlerOf, binding>>

(* The task yields ("emit", t, p): enqueue_event hands the event to the     *)
(* first waiter of t, or queues it; only then does the emitter line up.     *)
EmitToWaiter(i, t, p) ==
  /\ Advance(i, None)
  /\ waiting[t] # << >>
  /\ waiting' = [waiting EXCEPT ![t] = Tail(@)]
  /\ runnable' = Append(Append(Tail(runnable), Head(waiting[t])), i)
  /\ pendingSend' = [Taken(i) EXCEPT ![Head(waiting[t])] = Ev(t, p)]
  /\ UNCHANGED <<queue, heap, inHeap>>

EmitToQueue(i, t, p) ==
  /\ Advance(i, None)
  /\ NoWaiter(t) /\ Len(queue[t]) < MaxQueue
  /\ queue' = [queue EXCEPT ![t] = Append(@, Ev(t, p))]
  /\ IF NeedsPush(t) THEN /\ heap' = [heap EXCEPT ![t] = @ + 1]
                          /\ inHeap' = inHeap \cup {t}
                     ELSE UNCHANGED heapVars
  /\ runnable' = ToBack(i)
  /\ pendingSend' = Taken(i)
  /\ UNCHANGED waiting

(* The task yields ("await", t) and an event of t is queued: it gets the    *)
(* oldest one at once.  An emptied queue leaves the heap only from its top. *)
AwaitQueued(i, t) ==
  /\ Advance(i, t)
  /\ queue[t] # << >>
  /\ queue' = [queue EXCEPT ![t] = Tail(@)]
  /\ IF Emptied(t) /\ IsTop(t) THEN /\ heap' = [heap EXCEPT ![t] = @ - 1]
                                   /\ inHeap' = inHeap \ {t}
                              ELSE UNCHANGED heapVars
  /\ runnable' = ToBack(i)
  /\ pendingSend' = [Taken(i) EXCEPT ![i] = Head(queue[t])]
  /\ UNCHANGED waiting

(* The task yields ("await", t) and no event of t is queued.                *)
AwaitSuspend(i, t) ==
  /\ Advance(i, t)
  /\ queue[t] = << >> /\ Cardinality(Suspended) < MaxWaiting
  /\ waiting' = [waiting EXCEPT ![t] = Append(@, i)]
  /\ runnable' = Tail(runnable)
  /\ pendingSend' = Taken(i)
  /\ UNCHANGED <<queue, heap, inHeap>>

(* The generator ends: StopIteration drops the task and the loop goes on,   *)
(* StopProgram returns from the run, AbortHandler (and any other exception) *)
(* leaves run_hir_program as an exception.                                  *)
End(i, outcome) ==
  /\ IsHead(i)
  /\ status' = outcome
  /\ runnable' = Tail(runnable)
  /\ handlerOf' = [handlerOf EXCEPT ![i] = None]
  /\ binding' = [binding EXCEPT ![i] = None]
  /\ started' = started \ {i}
  /\ awaited' = [awaited EXCEPT ![i] = None]
  /\ pendingSend' = Taken(i)
  /\ UNCHANGED <<waiting, queue, heap, inHeap>>

Finish(i) == End(i, "running")
Stop(i) == End(i, "stopped")
Abort(i) == End(i, "aborted")

(* run_hir_program has returned or raised: nothing runs any more.           *)
Ended == status # "running" /\ UNCHANGED vars

(* One iteration of the loop.                                               *)
Iterate ==
  \/ \E t \in Types : Dispatch(t)
  \/ Return
  \/ \E i \in Task, t \in Types, p \in Payload :
       EmitToWaiter(i, t, p) \/ EmitToQueue(i, t, p)
  \/ \E i \in Task, t \in Types : AwaitQueued(i, t) \/ AwaitSuspend(i, t)
  \/ \E i \in Task : Finish(i) \/ Stop(i) \/ Abort(i)

Next == Iterate \/ Ended

Spec == Init /\ [][Next]_vars

(* The loop never blocks: while the program runs, Python takes the next     *)
(* iteration.                                                               *)
FairSpec == Spec /\ WF_vars(Iterate)

-----------------------------------------------------------------------------
(* Every variable has its type.                                             *)
TypeOK ==
  /\ status \in {"running", "returned", "stopped", "aborted", "crashed"}
  /\ runnable \in Seq(Task)
  /\ waiting \in [Types -> Seq(Task)]
  /\ queue \in [Types -> Seq(Event)]
  /\ heap \in [Types -> Nat]
  /\ inHeap \subseteq Types
  /\ handlerOf \in [Task -> Handler \cup {None}]
  /\ binding \in [Task -> Event \cup {None}]
  /\ started \subseteq Task
  /\ awaited \in [Task -> Types \cup {None}]
  /\ pendingSend \in [Task -> Event \cup {None}]

(* An event is queued only while nobody waits for its type: enqueue_event   *)
(* serves a waiter before it queues, an await looks into the queue before   *)
(* it suspends, so a task never sleeps on a type whose event is at hand.    *)
WaiterXorEvent == \A t \in Types : waiting[t] = << >> \/ queue[t] = << >>

(* The heap and event_type_in_heap agree, no type is in the heap twice, and *)
(* each type with a queued event is in it: lazily deleted entries never     *)
(* make dispatch_one_event miss an event.                                   *)
HeapCoversQueues ==
  \A t \in Types : /\ heap[t] = IF t \in inHeap THEN 1 ELSE 0
                   /\ queue[t] # << >> => t \in inHeap

(* A live task is in exactly one deque and once: it is runnable, or it      *)
(* waits for one type.  No task is lost and none is resumed twice for one   *)
(* yield.                                                                   *)
OnePlace ==
  /\ IsInjective(runnable) /\ \A t \in Types : IsInjective(waiting[t])
  /\ \A t \in Types : Range(runnable) \cap Range(waiting[t]) = {}
  /\ \A t, u \in Types : t # u => Range(waiting[t]) \cap Range(waiting[u]) = {}
  /\ {i \in Task : handlerOf[i] # None} =
       Range(runnable) \cup UNION {Range(waiting[t]) : t \in Types}

(* What a task is sent answers its own await: it is an event of the type    *)
(* the generator is suspended on, and the tasks that wait in the deque of t *)
(* are those suspended on t with nothing to send yet.                       *)
AnswerMatchesAwait ==
  /\ \A i \in Task : pendingSend[i] # None => awaited[i] = pendingSend[i].type
  /\ \A t \in Types, i \in Task :
       i \in Range(waiting[t]) <=> awaited[i] = t /\ pendingSend[i] = None

(* The handlers of one event start in program order, and no task that has   *)
(* already run gets a turn before the last of them has started: the tasks   *)
(* not yet started are the first n in the deque, they are the last n        *)
(* handlers of one event, and they are bound to that event.  (REF5.md wants *)
(* only the first matching handler of an event to run: the code runs all.)  *)
HandlersStartInOrder ==
  \E t \in Types, n \in 0..Len(runnable) :
    /\ n <= Len(Handlers[t])
    /\ \A k \in DOMAIN runnable :
         /\ (k <= n) <=> (runnable[k] \notin started)
         /\ k <= n => /\ handlerOf[runnable[k]] = Handlers[t][Len(Handlers[t]) - n + k]
                      /\ binding[runnable[k]] = binding[runnable[1]]
                      /\ binding[runnable[k]].type = t

(* Only when every task has finished or waits is a queued event broadcast,  *)
(* and then one of the smallest queued type: an event leaves the queue of a *)
(* type otherwise only for a task that awaits that type.                    *)
SmallestTypeFirst ==
  [][\A t \in Types : Len(queue'[t]) < Len(queue[t]) =>
       \/ /\ \A i \in Task : handlerOf[i] = None \/ i \in Suspended
          /\ \A u \in Types : u < t => queue[u] = << >>
       \/ \E i \in Task : awaited'[i] = t /\ pendingSend'[i] = Head(queue[t])]_vars

(* The runnable deque is served round robin: a runnable task gets its turn, *)
(* whatever the other tasks do, unless the run ends first.                  *)
RunnableGetsTurn ==
  \A i \in Task : i \in Range(runnable) ~> IsHead(i) \/ status # "running"

(* After a successful dispatch the loop takes a task from the runnable      *)
(* deque, which it expects not to be empty.                                 *)
DispatchMakesRunnable == status # "crashed"
=============================================================================
