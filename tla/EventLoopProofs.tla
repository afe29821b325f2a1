--------------------------- MODULE EventLoopProofs ---------------------------
(* EventLoop for every set of types, payloads and tasks, every assignment of *)
(* handlers and every bound: no event is missed, every live task is in one   *)
(* deque, what it is sent answers its own await, events are broadcast in     *)
(* order, and the loop implements EventBus.                                  *)
EXTENDS EventLoopRefinement, SequenceTheorems, TLAPS

(* The handlers of a type form a sequence of handlers (handlers_by_event).  *)
LEMMA HandlersType == \A t \in Types : Handlers[t] \in Seq(Handler)
  BY HandlersAssumption DEF Handler

(* The tail of a nonempty deque is a deque of the same elements.            *)
LEMMA TailType ==
  ASSUME NEW S, NEW q \in Seq(S), q # << >>
  PROVE  Tail(q) \in Seq(S) /\ Head(q) \in S /\ Len(Tail(q)) = Len(q) - 1
  BY HeadTailProperties

(* The last element taken leaves an empty deque.                            *)
LEMMA TailOfOne ==
  ASSUME NEW S, NEW q \in Seq(S), Len(q) = 1
  PROVE  Tail(q) = << >>
<1>1. Tail(q) \in Seq(S) /\ Len(Tail(q)) = 0
  BY TailType
<1> QED BY <1>1, EmptySeq

-----------------------------------------------------------------------------
LEMMA InitType == Init => TypeOK
<1> SUFFICES ASSUME Init PROVE TypeOK
  OBVIOUS
<1>1. << [type |-> EntryType, payload |-> EntryValue] >> \in Seq(Event)
  BY EntryAssumption DEF Event
<1>2. queue \in [Types -> Seq(Event)]
  BY <1>1 DEF Init
<1>3. waiting \in [Types -> Seq(Task)] /\ runnable \in Seq(Task)
  BY DEF Init
<1> QED BY <1>2, <1>3, EntryAssumption DEF Init, TypeOK

LEMMA AdvanceType ==
  ASSUME TypeOK, NEW i \in Task, NEW t \in Types \cup {None}, Advance(i, t)
  PROVE  /\ started' \subseteq Task
         /\ awaited' \in [Task -> Types \cup {None}]
         /\ UNCHANGED <<status, handlerOf, binding>>
         /\ runnable # << >> /\ Taken(i) \in [Task -> Event \cup {None}]
         /\ Tail(runnable) \in Seq(Task) /\ ToBack(i) \in Seq(Task)
<1>1. Tail(runnable) \in Seq(Task)
  BY TailType DEF TypeOK, Advance, IsHead
<1>2. ToBack(i) \in Seq(Task)
  BY <1>1 DEF ToBack
<1>3. Taken(i) \in [Task -> Event \cup {None}]
  BY DEF TypeOK, Taken
<1> QED BY <1>1, <1>2, <1>3 DEF TypeOK, Advance, IsHead

LEMMA DispatchType ==
  ASSUME TypeOK, NEW t \in Types, Dispatch(t)
  PROVE  TypeOK'
<1>1. queue[t] \in Seq(Event) /\ queue[t] # << >> /\ heap[t] > 0
  BY DEF TypeOK, Dispatch, IsNext
<1>2. queue' \in [Types -> Seq(Event)]
  BY <1>1, TailType DEF TypeOK, Dispatch
<1>3. heap' \in [Types -> Nat] /\ inHeap' \subseteq Types
  BY <1>1 DEF TypeOK, Dispatch
<1>4. PICK s \in Slots(Len(Handlers[t])) :
         /\ runnable' = s
         /\ handlerOf' = [i \in Task |-> IF i \in Range(s)
                            THEN Handlers[t][CHOOSE k \in DOMAIN s : s[k] = i]
                            ELSE handlerOf[i]]
         /\ binding' = [i \in Task |-> IF i \in Range(s) THEN Head(queue[t])
                                                         ELSE binding[i]]
  BY DEF Dispatch
<1>5. s \in [1..Len(Handlers[t]) -> Task] /\ s \in Seq(Task)
  BY HandlersType DEF Slots, Free
<1>6. handlerOf' \in [Task -> Handler \cup {None}]
  <2>1. ASSUME NEW i \in Task, i \in Range(s)
        PROVE  Handlers[t][CHOOSE k \in DOMAIN s : s[k] = i] \in Handler
    <3>1. \E k \in DOMAIN s : s[k] = i
      BY <2>1 DEF Range
    <3>2. (CHOOSE k \in DOMAIN s : s[k] = i) \in 1..Len(Handlers[t])
      BY <3>1, <1>5
    <3> QED BY <3>2, HandlersType
  <2> QED BY <2>1, <1>4 DEF TypeOK
<1>7. binding' \in [Task -> Event \cup {None}]
  BY <1>1, <1>4, TailType DEF TypeOK
<1> QED BY <1>2, <1>3, <1>4, <1>5, <1>6, <1>7 DEF TypeOK, Dispatch

LEMMA ReturnType == ASSUME TypeOK, Return PROVE TypeOK'
  BY DEF TypeOK, Return, taskVars

LEMMA EmitToWaiterType ==
  ASSUME TypeOK, NEW i \in Task, NEW t \in Types, NEW p \in Payload,
         EmitToWaiter(i, t, p)
  PROVE  TypeOK'
<1>1. Advance(i, None) /\ Ev(t, p) \in Event
  BY DEF EmitToWaiter, Ev, Event
<1>2. Head(waiting[t]) \in Task /\ Tail(waiting[t]) \in Seq(Task)
  BY TailType DEF TypeOK, EmitToWaiter
<1>3. runnable' \in Seq(Task)
  BY <1>1, <1>2, AdvanceType DEF EmitToWaiter
<1>4. pendingSend' \in [Task -> Event \cup {None}]
  BY <1>1, <1>2, AdvanceType DEF EmitToWaiter
<1>5. waiting' \in [Types -> Seq(Task)]
  BY <1>2 DEF TypeOK, EmitToWaiter
<1> QED BY <1>1, <1>3, <1>4, <1>5, AdvanceType DEF TypeOK, EmitToWaiter

LEMMA EmitToQueueType ==
  ASSUME TypeOK, NEW i \in Task, NEW t \in Types, NEW p \in Payload,
         EmitToQueue(i, t, p)
  PROVE  TypeOK'
<1>1. Advance(i, None) /\ Ev(t, p) \in Event
  BY DEF EmitToQueue, Ev, Event
<1>2. queue' \in [Types -> Seq(Event)]
  BY <1>1 DEF TypeOK, EmitToQueue
<1>3. heap' \in [Types -> Nat] /\ inHeap' \subseteq Types
  <2>1. CASE NeedsPush(t)
    BY <2>1 DEF TypeOK, EmitToQueue, NeedsPush
  <2>2. CASE ~NeedsPush(t)
    BY <2>2 DEF TypeOK, EmitToQueue, NeedsPush, heapVars
  <2> QED BY <2>1, <2>2
<1>4. runnable' \in Seq(Task) /\ pendingSend' \in [Task -> Event \cup {None}]
  BY <1>1, AdvanceType DEF EmitToQueue
<1> QED BY <1>1, <1>2, <1>3, <1>4, AdvanceType DEF TypeOK, EmitToQueue

LEMMA AwaitQueuedType ==
  ASSUME TypeOK, NEW i \in Task, NEW t \in Types, AwaitQueued(i, t)
  PROVE  TypeOK'
<1>1. Advance(i, t) /\ Head(queue[t]) \in Event /\ Tail(queue[t]) \in Seq(Event)
  BY TailType DEF TypeOK, AwaitQueued
<1>2. queue' \in [Types -> Seq(Event)]
  BY <1>1 DEF TypeOK, AwaitQueued
<1>3. heap' \in [Types -> Nat] /\ inHeap' \subseteq Types
  <2>1. CASE Emptied(t) /\ IsTop(t)
    <3>1. heap[t] > 0 /\ heap[t] \in Nat
      BY <2>1 DEF IsTop, TypeOK
    <3>2. heap' = [heap EXCEPT ![t] = @ - 1] /\ inHeap' = inHeap \ {t}
      BY <2>1 DEF AwaitQueued, Emptied, IsTop
    <3> QED BY <3>1, <3>2 DEF TypeOK
  <2>2. CASE ~(Emptied(t) /\ IsTop(t))
    BY <2>2 DEF TypeOK, AwaitQueued, heapVars
  <2> QED BY <2>1, <2>2
<1>4. runnable' \in Seq(Task) /\ pendingSend' \in [Task -> Event \cup {None}]
  BY <1>1, AdvanceType DEF AwaitQueued
<1> QED BY <1>1, <1>2, <1>3, <1>4, AdvanceType DEF TypeOK, AwaitQueued

LEMMA AwaitSuspendType ==
  ASSUME TypeOK, NEW i \in Task, NEW t \in Types, AwaitSuspend(i, t)
  PROVE  TypeOK'
<1>1. Advance(i, t)
  BY DEF AwaitSuspend
<1>2. waiting' \in [Types -> Seq(Task)]
  BY DEF TypeOK, AwaitSuspend
<1>3. runnable' \in Seq(Task) /\ pendingSend' \in [Task -> Event \cup {None}]
  BY <1>1, AdvanceType DEF AwaitSuspend
<1> QED BY <1>1, <1>2, <1>3, AdvanceType DEF TypeOK, AwaitSuspend

LEMMA EndType ==
  ASSUME TypeOK, NEW i \in Task,
         NEW outcome \in {"running", "stopped", "aborted"}, End(i, outcome)
  PROVE  TypeOK'
<1>1. Tail(runnable) \in Seq(Task)
  BY TailType DEF TypeOK, End, IsHead
<1> QED BY <1>1 DEF TypeOK, End, Taken

LEMMA NextType == TypeOK /\ [Next]_vars => TypeOK'
<1> SUFFICES ASSUME TypeOK, [Next]_vars PROVE TypeOK'
  OBVIOUS
<1>1. ASSUME NEW t \in Types, Dispatch(t) PROVE TypeOK'
  BY <1>1, DispatchType
<1>2. CASE Return
  BY <1>2, ReturnType
<1>3. ASSUME NEW i \in Task, NEW t \in Types, NEW p \in Payload,
             EmitToWaiter(i, t, p) \/ EmitToQueue(i, t, p)
      PROVE  TypeOK'
  BY <1>3, EmitToWaiterType, EmitToQueueType
<1>4. ASSUME NEW i \in Task, NEW t \in Types,
             AwaitQueued(i, t) \/ AwaitSuspend(i, t)
      PROVE  TypeOK'
  BY <1>4, AwaitQueuedType, AwaitSuspendType
<1>5. ASSUME NEW i \in Task, Finish(i) \/ Stop(i) \/ Abort(i) PROVE TypeOK'
  BY <1>5, EndType DEF Finish, Stop, Abort
<1>6. CASE UNCHANGED vars
  BY <1>6 DEF vars, TypeOK
<1> QED BY <1>1, <1>2, <1>3, <1>4, <1>5, <1>6 DEF Next, Iterate, Ended

(* Every variable of the loop keeps its type, for every program.            *)
THEOREM TypeCorrect == Spec => []TypeOK
  BY InitType, NextType, PTL DEF Spec

-----------------------------------------------------------------------------
(* What a step does to the queue and the waiters of one type, whichever     *)
(* action it is; enough for WaiterXorEvent.                                 *)
LEMMA WaiterXorEventStep ==
  TypeOK /\ WaiterXorEvent /\ [Next]_vars => WaiterXorEvent'
<1> SUFFICES ASSUME TypeOK, WaiterXorEvent, [Next]_vars, NEW u \in Types
             PROVE  waiting'[u] = << >> \/ queue'[u] = << >>
  BY DEF WaiterXorEvent
<1>0. waiting[u] = << >> \/ queue[u] = << >>
  BY DEF WaiterXorEvent
<1>1. ASSUME NEW t \in Types, Dispatch(t)
      PROVE  waiting'[u] = << >> \/ queue'[u] = << >>
  BY <1>0, <1>1 DEF Dispatch, IsNext, TypeOK
<1>2. CASE Return
  BY <1>0, <1>2 DEF Return
<1>3. ASSUME NEW i \in Task, NEW t \in Types, NEW p \in Payload,
             EmitToWaiter(i, t, p)
      PROVE  waiting'[u] = << >> \/ queue'[u] = << >>
  BY <1>0, <1>3 DEF EmitToWaiter, TypeOK
<1>4. ASSUME NEW i \in Task, NEW t \in Types, NEW p \in Payload,
             EmitToQueue(i, t, p)
      PROVE  waiting'[u] = << >> \/ queue'[u] = << >>
  BY <1>0, <1>4 DEF EmitToQueue, NoWaiter, TypeOK
<1>5. ASSUME NEW i \in Task, NEW t \in Types, AwaitQueued(i, t)
      PROVE  waiting'[u] = << >> \/ queue'[u] = << >>
  BY <1>0, <1>5 DEF AwaitQueued, TypeOK
<1>6. ASSUME NEW i \in Task, NEW t \in Types, AwaitSuspend(i, t)
      PROVE  waiting'[u] = << >> \/ queue'[u] = << >>
  BY <1>0, <1>6 DEF AwaitSuspend, TypeOK
<1>7. ASSUME NEW i \in Task, Finish(i) \/ Stop(i) \/ Abort(i)
      PROVE  waiting'[u] = << >> \/ queue'[u] = << >>
  BY <1>0, <1>7 DEF Finish, Stop, Abort, End
<1>8. CASE UNCHANGED vars
  BY <1>0, <1>8 DEF vars
<1> QED BY <1>1, <1>2, <1>3, <1>4, <1>5, <1>6, <1>7, <1>8 DEF Next, Iterate, Ended

(* No type ever has a waiter and a queued event at once: enqueue_event and  *)
(* the await branch of the loop look at each other's deque first.           *)
THEOREM NeverWaiterAndEvent == Spec => []WaiterXorEvent
<1>1. Init => WaiterXorEvent
  BY DEF Init, WaiterXorEvent
<1> QED BY <1>1, TypeCorrect, WaiterXorEventStep, PTL DEF Spec

-----------------------------------------------------------------------------
(* The part of HeapCoversQueues about one type.                             *)
Covered(u) == /\ heap[u] = IF u \in inHeap THEN 1 ELSE 0
              /\ queue[u] # << >> => u \in inHeap

(* Dispatching t clears the stale entries below it, whose queues are empty  *)
(* because heap and event_type_in_heap agree, and t itself when its queue   *)
(* is emptied.                                                              *)
LEMMA DispatchCovers ==
  ASSUME TypeOK, HeapCoversQueues, NEW t \in Types, Dispatch(t), NEW u \in Types
  PROVE  Covered(u)'
<1>1. Covered(u) /\ Covered(t) /\ t \in Nat /\ u \in Nat
  BY TypesAssumption DEF HeapCoversQueues, Covered
<1>2. CASE u < t
  <2>1. u # t /\ queue'[u] = queue[u] /\ heap'[u] = 0
    BY <1>1, <1>2 DEF Dispatch, TypeOK
  <2>2. u \notin inHeap'
    BY <1>1, <1>2 DEF Dispatch, Covered
  <2>3. queue[u] = << >>
    BY <1>1, <1>2 DEF Dispatch, IsNext, Covered
  <2> QED BY <2>1, <2>2, <2>3 DEF Covered
<1>3. CASE u = t
  <2>1. queue'[t] = Tail(queue[t]) /\ queue[t] \in Seq(Event) /\ queue[t] # << >>
    BY DEF Dispatch, IsNext, TypeOK
  <2>2. t \in inHeap /\ heap[t] = 1
    BY <1>1, <2>1 DEF Covered
  <2>3. CASE Emptied(t)
    <3>1. heap'[t] = 0
      BY <1>1, <2>2, <2>3 DEF Dispatch
    <3>2. t \notin inHeap'
      BY <2>3 DEF Dispatch
    <3>3. queue'[t] = << >>
      BY <2>1, <2>3, TailOfOne DEF Emptied
    <3> QED BY <1>3, <3>1, <3>2, <3>3 DEF Covered
  <2>4. CASE ~Emptied(t)
    <3>1. heap'[t] = 1
      BY <1>1, <2>2, <2>4 DEF Dispatch
    <3>2. t \in inHeap'
      BY <1>1, <2>2, <2>4 DEF Dispatch
    <3> QED BY <1>3, <3>1, <3>2 DEF Covered
  <2> QED BY <2>3, <2>4
<1>4. CASE u > t
  BY <1>1, <1>4 DEF Dispatch, Covered, TypeOK
<1> QED BY <1>1, <1>2, <1>3, <1>4

LEMMA ReturnCovers ==
  ASSUME TypeOK, HeapCoversQueues, Return, NEW u \in Types
  PROVE  Covered(u)' /\ queue'[u] = << >>
<1>1. Covered(u) /\ inHeap \subseteq Types
  BY DEF HeapCoversQueues, Covered, TypeOK
<1>2. heap'[u] = 0 /\ u \notin inHeap'
  BY <1>1 DEF Return, Covered
<1>3. queue[u] = << >>
  BY <1>1 DEF Return, Covered
<1> QED BY <1>2, <1>3 DEF Return, Covered

LEMMA EmitToQueueCovers ==
  ASSUME TypeOK, HeapCoversQueues, NEW u \in Types,
         NEW i \in Task, NEW t \in Types, NEW p \in Payload, EmitToQueue(i, t, p)
  PROVE  Covered(u)'
<1>1. Covered(u) /\ Covered(t)
  BY DEF HeapCoversQueues, Covered
<1>2. CASE u # t
  BY <1>1, <1>2 DEF EmitToQueue, Covered, TypeOK, heapVars, NeedsPush
<1>3. CASE u = t /\ NeedsPush(t)
  BY <1>1, <1>3 DEF EmitToQueue, Covered, TypeOK, NeedsPush
<1>4. CASE u = t /\ ~NeedsPush(t)
  <2>1. t \in inHeap
    BY <1>1, <1>4 DEF Covered, NeedsPush
  <2>2. UNCHANGED heapVars
    BY <1>4 DEF EmitToQueue
  <2> QED BY <1>1, <1>4, <2>1, <2>2 DEF Covered, heapVars
<1> QED BY <1>2, <1>3, <1>4

(* An await that empties a queue takes the type out of the heap only when   *)
(* it is at the top; otherwise the entry stays, stale, with its membership. *)
LEMMA AwaitQueuedCovers ==
  ASSUME TypeOK, HeapCoversQueues, NEW u \in Types,
         NEW i \in Task, NEW t \in Types, AwaitQueued(i, t)
  PROVE  Covered(u)'
<1>1. Covered(u) /\ Covered(t)
  BY DEF HeapCoversQueues, Covered
<1>2. queue[t] \in Seq(Event) /\ queue[t] # << >> /\ queue'[t] = Tail(queue[t])
  BY DEF AwaitQueued, TypeOK
<1>3. t \in inHeap /\ heap[t] = 1
  BY <1>1, <1>2 DEF Covered
<1>4. CASE Emptied(t) /\ IsTop(t)
  <2>1. heap' = [heap EXCEPT ![t] = @ - 1] /\ inHeap' = inHeap \ {t}
    BY <1>4 DEF AwaitQueued
  <2>2. queue'[t] = << >>
    BY <1>2, <1>4, TailOfOne DEF Emptied
  <2> QED BY <1>1, <1>3, <2>1, <2>2 DEF Covered, TypeOK, AwaitQueued
<1>5. CASE ~(Emptied(t) /\ IsTop(t))
  <2>1. UNCHANGED heapVars
    BY <1>5 DEF AwaitQueued
  <2> QED BY <1>1, <1>3, <2>1 DEF Covered, TypeOK, AwaitQueued, heapVars
<1> QED BY <1>4, <1>5

LEMMA HeapStep == TypeOK /\ HeapCoversQueues /\ [Next]_vars => HeapCoversQueues'
<1> SUFFICES ASSUME TypeOK, HeapCoversQueues, [Next]_vars, NEW u \in Types
             PROVE  Covered(u)'
  BY DEF HeapCoversQueues, Covered
<1>0. Covered(u)
  BY DEF HeapCoversQueues, Covered
<1>1. ASSUME NEW t \in Types, Dispatch(t) PROVE Covered(u)'
  BY <1>1, DispatchCovers
<1>2. CASE Return
  BY <1>2, ReturnCovers
<1>3. ASSUME NEW i \in Task, NEW t \in Types, NEW p \in Payload,
             EmitToWaiter(i, t, p)
      PROVE  Covered(u)'
  BY <1>0, <1>3 DEF EmitToWaiter, Covered
<1>4. ASSUME NEW i \in Task, NEW t \in Types, NEW p \in Payload,
             EmitToQueue(i, t, p)
      PROVE  Covered(u)'
  BY <1>4, EmitToQueueCovers
<1>5. ASSUME NEW i \in Task, NEW t \in Types, AwaitQueued(i, t)
      PROVE  Covered(u)'
  BY <1>5, AwaitQueuedCovers
<1>6. ASSUME NEW i \in Task, NEW t \in Types, AwaitSuspend(i, t)
      PROVE  Covered(u)'
  BY <1>0, <1>6 DEF AwaitSuspend, Covered
<1>7. ASSUME NEW i \in Task, Finish(i) \/ Stop(i) \/ Abort(i) PROVE Covered(u)'
  BY <1>0, <1>7 DEF Finish, Stop, Abort, End, Covered
<1>8. CASE UNCHANGED vars
  BY <1>0, <1>8 DEF vars, Covered
<1> QED BY <1>1, <1>2, <1>3, <1>4, <1>5, <1>6, <1>7, <1>8 DEF Next, Iterate, Ended

(* The heap and event_type_in_heap agree at every moment, and every type    *)
(* with a queued event is in them, in spite of the entries that awaits      *)
(* leave behind: dispatch_one_event misses no event.                        *)
THEOREM HeapNeverMissesAnEvent == Spec => []HeapCoversQueues
<1>1. Init => HeapCoversQueues
  BY EntryAssumption DEF Init, HeapCoversQueues
<1> QED BY <1>1, TypeCorrect, HeapStep, PTL DEF Spec

(* When the run returns because nothing is left to dispatch, no event is    *)
(* left undelivered.                                                        *)
ReturnedMeansDelivered ==
  status = "returned" => \A t \in Types : queue[t] = << >>

(* The loop never returns while an event is queued for some type, although  *)
(* it decides so from the heap alone.                                       *)
THEOREM ReturnsOnlyWhenDelivered == Spec => []ReturnedMeansDelivered
<1>1. Init => ReturnedMeansDelivered
  BY DEF Init, ReturnedMeansDelivered
<1>2. TypeOK /\ HeapCoversQueues /\ ReturnedMeansDelivered /\ [Next]_vars
        => ReturnedMeansDelivered'
  <2> SUFFICES ASSUME TypeOK, HeapCoversQueues, ReturnedMeansDelivered, [Next]_vars,
                      status' = "returned", NEW u \in Types
               PROVE  queue'[u] = << >>
    BY DEF ReturnedMeansDelivered
  <2>1. CASE Return
    BY <2>1, ReturnCovers
  <2>2. CASE UNCHANGED vars
    BY <2>2 DEF vars, ReturnedMeansDelivered
  <2>3. CASE Iterate /\ ~Return
    BY <2>3 DEF Iterate, Dispatch, EmitToWaiter, EmitToQueue, AwaitQueued, AwaitSuspend,
                Advance, IsHead, Finish, Stop, Abort, End
  <2> QED BY <2>1, <2>2, <2>3 DEF Next, Ended
<1> QED BY <1>1, <1>2, TypeCorrect, HeapNeverMissesAnEvent, PTL DEF Spec

-----------------------------------------------------------------------------
(* The head taken from a deque without repetition.                           *)
LEMMA RangeOfTail ==
  ASSUME NEW S, NEW q \in Seq(S), q # << >>, IsInjective(q)
  PROVE  /\ Tail(q) \in Seq(S) /\ IsInjective(Tail(q))
         /\ Range(q) = Range(Tail(q)) \cup {Head(q)}
         /\ Head(q) \notin Range(Tail(q))
<1>1. /\ Tail(q) \in Seq(S) /\ Len(q) \in Nat /\ Len(q) > 0 /\ DOMAIN q = 1..Len(q)
      /\ DOMAIN Tail(q) = 1..(Len(q) - 1) /\ Head(q) = q[1]
      /\ \A k \in 1..(Len(q) - 1) : Tail(q)[k] = q[k + 1]
  BY HeadTailProperties
<1>2. IsInjective(Tail(q))
  BY <1>1 DEF IsInjective
<1>3. Range(q) \subseteq Range(Tail(q)) \cup {Head(q)}
  <2> SUFFICES ASSUME NEW k \in 1..Len(q) PROVE q[k] \in Range(Tail(q)) \cup {Head(q)}
    BY <1>1 DEF Range
  <2>1. CASE k = 1
    BY <2>1, <1>1
  <2>2. CASE k # 1
    <3>1. k - 1 \in 1..(Len(q) - 1) /\ (k - 1) + 1 = k
      BY <2>2, <1>1
    <3>2. Tail(q)[k - 1] = q[k]
      BY <3>1, <1>1
    <3> QED BY <3>1, <3>2, <1>1 DEF Range
  <2> QED BY <2>1, <2>2
<1>4. Range(Tail(q)) \cup {Head(q)} \subseteq Range(q)
  BY <1>1 DEF Range
<1>5. Head(q) \notin Range(Tail(q))
  BY <1>1 DEF Range, IsInjective
<1> QED BY <1>1, <1>2, <1>3, <1>4, <1>5

(* An element put at the end of a deque that does not hold it.               *)
LEMMA RangeOfAppend ==
  ASSUME NEW S, NEW q \in Seq(S), NEW x \in S
  PROVE  /\ Append(q, x) \in Seq(S)
         /\ Range(Append(q, x)) = Range(q) \cup {x}
         /\ IsInjective(q) /\ x \notin Range(q) => IsInjective(Append(q, x))
<1>1. /\ Append(q, x) \in Seq(S) /\ Len(q) \in Nat /\ DOMAIN q = 1..Len(q)
      /\ DOMAIN Append(q, x) = 1..(Len(q) + 1) /\ Append(q, x)[Len(q) + 1] = x
      /\ \A k \in 1..Len(q) : Append(q, x)[k] = q[k]
  OBVIOUS
<1>2. Range(Append(q, x)) \subseteq Range(q) \cup {x}
  <2> SUFFICES ASSUME NEW k \in 1..(Len(q) + 1) PROVE Append(q, x)[k] \in Range(q) \cup {x}
    BY <1>1 DEF Range
  <2> QED BY <1>1 DEF Range
<1>3. Range(q) \cup {x} \subseteq Range(Append(q, x))
  <2>1. Range(q) \subseteq Range(Append(q, x))
    BY <1>1 DEF Range
  <2>2. x \in Range(Append(q, x))
    BY <1>1 DEF Range
  <2> QED BY <2>1, <2>2
<1>4. ASSUME IsInjective(q), x \notin Range(q) PROVE IsInjective(Append(q, x))
  BY <1>1, <1>4 DEF IsInjective, Range
<1> QED BY <1>1, <1>2, <1>3, <1>4

(* The same for a deque of tasks that is given by name.                      *)
LEMMA TasksOfAppend ==
  ASSUME NEW q \in Seq(Task), NEW x \in Task, IsInjective(q), x \notin Range(q), NEW r, r = Append(q, x)
  PROVE  r \in Seq(Task) /\ IsInjective(r) /\ Range(r) = Range(q) \cup {x}
<1>1. /\ Append(q, x) \in Seq(Task) /\ Range(Append(q, x)) = Range(q) \cup {x}
      /\ IsInjective(q) /\ x \notin Range(q) => IsInjective(Append(q, x))
  BY RangeOfAppend, Zenon
<1> QED BY <1>1

(* A deque that is not empty has its head among its elements.                *)
LEMMA HeadInRange ==
  ASSUME NEW S, NEW q \in Seq(S), q # << >>
  PROVE  Head(q) \in Range(q)
  BY HeadTailProperties DEF Range

-----------------------------------------------------------------------------
(* The queue of a type holds events of that type only.                       *)
QueueTyped == \A t \in Types : \A k \in 1..Len(queue[t]) : queue[t][k].type = t

LEMMA QueueTypedStep == TypeOK /\ QueueTyped /\ [Next]_vars => QueueTyped'
<1> SUFFICES ASSUME TypeOK, QueueTyped, [Next]_vars, NEW u \in Types
             PROVE  \A k \in 1..Len(queue'[u]) : queue'[u][k].type = u
  BY DEF QueueTyped
<1>0. queue[u] \in Seq(Event) /\ \A k \in 1..Len(queue[u]) : queue[u][k].type = u
  BY DEF QueueTyped, TypeOK
<1>1. CASE queue'[u] = queue[u]
  BY <1>0, <1>1
<1>2. CASE queue[u] # << >> /\ queue'[u] = Tail(queue[u])
  <2>1. Len(queue'[u]) = Len(queue[u]) - 1 /\ \A k \in 1..Len(queue'[u]) : queue'[u][k] = queue[u][k + 1]
    BY <1>0, <1>2, HeadTailProperties
  <2> QED BY <1>0, <2>1
<1>3. CASE \E p \in Payload : queue'[u] = Append(queue[u], Ev(u, p))
  BY <1>0, <1>3 DEF Ev
<1>4. queue'[u] = queue[u] \/ (queue[u] # << >> /\ queue'[u] = Tail(queue[u]))
        \/ \E p \in Payload : queue'[u] = Append(queue[u], Ev(u, p))
  <2>1. ASSUME NEW t \in Types, Dispatch(t)
        PROVE  queue'[u] = queue[u] \/ (queue[u] # << >> /\ queue'[u] = Tail(queue[u]))
    BY <2>1 DEF TypeOK, Dispatch, IsNext
  <2>2. ASSUME NEW i \in Task, NEW t \in Types, NEW p \in Payload, EmitToQueue(i, t, p)
        PROVE  queue'[u] = queue[u] \/ queue'[u] = Append(queue[u], Ev(u, p))
    BY <2>2 DEF TypeOK, EmitToQueue
  <2>3. ASSUME NEW i \in Task, NEW t \in Types, AwaitQueued(i, t)
        PROVE  queue'[u] = queue[u] \/ (queue[u] # << >> /\ queue'[u] = Tail(queue[u]))
    BY <2>3 DEF TypeOK, AwaitQueued
  <2>4. ASSUME NEW i \in Task, NEW t \in Types, NEW p \in Payload, EmitToWaiter(i, t, p)
        PROVE  queue'[u] = queue[u]
    BY <2>4 DEF EmitToWaiter
  <2>5. ASSUME NEW i \in Task, NEW t \in Types, AwaitSuspend(i, t) PROVE queue'[u] = queue[u]
    BY <2>5 DEF AwaitSuspend
  <2>6. ASSUME NEW i \in Task, Finish(i) \/ Stop(i) \/ Abort(i) PROVE queue'[u] = queue[u]
    BY <2>6 DEF Finish, Stop, Abort, End
  <2>7. CASE Return \/ UNCHANGED vars
    BY <2>7 DEF Return, vars
  <2> QED BY <2>1, <2>2, <2>3, <2>4, <2>5, <2>6, <2>7 DEF Next, Iterate, Ended
<1> QED BY <1>1, <1>2, <1>3, <1>4

LEMMA QueuesTyped == Spec => []QueueTyped
<1>1. Init => QueueTyped
  BY EntryAssumption DEF Init, QueueTyped
<1> QED BY <1>1, TypeCorrect, QueueTypedStep, PTL DEF Spec

-----------------------------------------------------------------------------
(* OnePlace by parts.                                                        *)
Waiters == UNION {Range(waiting[t]) : t \in Types}
Live == {i \in Task : handlerOf[i] # None}
DequesDistinct ==
  /\ IsInjective(runnable) /\ \A t \in Types : IsInjective(waiting[t])
  /\ \A t \in Types : Range(runnable) \cap Range(waiting[t]) = {}
  /\ \A t, u \in Types : t # u => Range(waiting[t]) \cap Range(waiting[u]) = {}

LEMMA OnePlaceParts == OnePlace <=> DequesDistinct /\ Live = Range(runnable) \cup Waiters
  BY DEF OnePlace, DequesDistinct, Live, Waiters

(* The same after a step.                                                    *)
LEMMA OnePlacePartsNext == DequesDistinct' /\ Live' = Range(runnable') \cup Waiters' => OnePlace'
  BY DEF OnePlace, DequesDistinct, Live, Waiters

(* The task that is advanced is the head of runnable and in no other deque.  *)
LEMMA AdvancedTask ==
  ASSUME TypeOK, OnePlace, NEW i \in Task, IsHead(i)
  PROVE  /\ Range(runnable) = Range(Tail(runnable)) \cup {i} /\ i \notin Range(Tail(runnable))
         /\ IsInjective(Tail(runnable)) /\ Tail(runnable) \in Seq(Task)
         /\ \A t \in Types : i \notin Range(waiting[t])
<1>1. runnable \in Seq(Task) /\ runnable # << >> /\ IsInjective(runnable) /\ Head(runnable) = i
  BY DEF TypeOK, OnePlace, IsHead
<1>2. /\ Tail(runnable) \in Seq(Task) /\ IsInjective(Tail(runnable))
      /\ Range(runnable) = Range(Tail(runnable)) \cup {i} /\ i \notin Range(Tail(runnable))
  BY <1>1, RangeOfTail
<1> QED BY <1>2 DEF OnePlace

(* The advanced task is put back at the end of runnable.                     *)
LEMMA PutBack ==
  ASSUME TypeOK, OnePlace, NEW i \in Task, IsHead(i)
  PROVE  Range(ToBack(i)) = Range(runnable) /\ IsInjective(ToBack(i))
<1>1. /\ Range(runnable) = Range(Tail(runnable)) \cup {i} /\ i \notin Range(Tail(runnable))
      /\ IsInjective(Tail(runnable)) /\ Tail(runnable) \in Seq(Task)
  BY AdvancedTask
<1>2. Range(ToBack(i)) = Range(Tail(runnable)) \cup {i} /\ IsInjective(ToBack(i))
  BY <1>1, TasksOfAppend DEF ToBack
<1> QED BY <1>1, <1>2

(* A waiter lines up in front of the advanced task.                          *)
LEMMA Woken ==
  ASSUME TypeOK, OnePlace, NEW i \in Task, IsHead(i), NEW w \in Task, w \notin Range(runnable),
         NEW r, r = Append(Append(Tail(runnable), w), i)
  PROVE  IsInjective(r) /\ Range(r) = Range(runnable) \cup {w}
<1>1. /\ Range(runnable) = Range(Tail(runnable)) \cup {i} /\ i \notin Range(Tail(runnable))
      /\ IsInjective(Tail(runnable)) /\ Tail(runnable) \in Seq(Task)
  BY AdvancedTask
<1> DEFINE q == Append(Tail(runnable), w)
<1>2. q \in Seq(Task) /\ IsInjective(q) /\ Range(q) = Range(Tail(runnable)) \cup {w}
  BY <1>1, TasksOfAppend
<1>3. i \notin Range(q) /\ r = Append(q, i)
  BY <1>1, <1>2
<1> HIDE DEF q
<1>4. Range(r) = Range(q) \cup {i} /\ IsInjective(r)
  BY <1>2, <1>3, TasksOfAppend
<1> QED BY <1>1, <1>2, <1>4

(* A step that leaves the waiters alone and puts the advanced task back.     *)
LEMMA BackInPlace ==
  ASSUME TypeOK, OnePlace, NEW i \in Task, IsHead(i),
         runnable' = ToBack(i), waiting' = waiting, handlerOf' = handlerOf
  PROVE  OnePlace'
<1>1. Range(runnable') = Range(runnable) /\ IsInjective(runnable')
  BY PutBack
<1> QED BY <1>1 DEF OnePlace

(* The first waiter becomes runnable, in front of the advanced task.         *)
LEMMA WokenInPlace ==
  ASSUME TypeOK, OnePlace, NEW i \in Task, IsHead(i), NEW t \in Types, waiting[t] # << >>,
         runnable' = Append(Append(Tail(runnable), Head(waiting[t])), i),
         waiting' = [waiting EXCEPT ![t] = Tail(@)], handlerOf' = handlerOf
  PROVE  OnePlace'
<1> DEFINE w == Head(waiting[t])
<1>1. /\ waiting[t] \in Seq(Task) /\ IsInjective(waiting[t]) /\ waiting \in [Types -> Seq(Task)]
      /\ Range(runnable) \cap Range(waiting[t]) = {}
  BY DEF TypeOK, OnePlace
<1>2. /\ w \in Task /\ IsInjective(Tail(waiting[t]))
      /\ Range(waiting[t]) = Range(Tail(waiting[t])) \cup {w} /\ w \notin Range(Tail(waiting[t]))
  BY <1>1, RangeOfTail, TailType
<1>3. w \notin Range(runnable)
  BY <1>1, <1>2
<1>6. IsInjective(runnable') /\ Range(runnable') = Range(runnable) \cup {w}
  BY <1>2, <1>3, Woken
<1>7. waiting'[t] = Tail(waiting[t]) /\ \A u \in Types \ {t} : waiting'[u] = waiting[u]
  BY <1>1
<1>8. Range(waiting'[t]) = Range(waiting[t]) \ {w} /\ IsInjective(waiting'[t])
  BY <1>2, <1>7
<1>9. \A u \in Types \ {t} : Range(waiting'[u]) = Range(waiting[u]) /\ IsInjective(waiting'[u]) /\ w \notin Range(waiting[u])
  BY <1>2, <1>7 DEF OnePlace
<1>10. DequesDistinct'
  BY <1>6, <1>8, <1>9 DEF DequesDistinct, OnePlace
<1>11. Range(runnable') \cup Waiters' = Range(runnable) \cup Waiters
  <2>1. Waiters' \subseteq Waiters /\ Waiters \subseteq Waiters' \cup {w}
    BY <1>8, <1>9 DEF Waiters
  <2>2. w \in Waiters
    BY <1>2 DEF Waiters
  <2> QED BY <2>1, <2>2, <1>6
<1>12. Live' = Live
  BY DEF Live
<1> QED BY <1>10, <1>11, <1>12, OnePlaceParts, OnePlacePartsNext

(* The advanced task goes to sleep.                                          *)
LEMMA SuspendedInPlace ==
  ASSUME TypeOK, OnePlace, NEW i \in Task, IsHead(i), NEW t \in Types,
         runnable' = Tail(runnable),
         waiting' = [waiting EXCEPT ![t] = Append(@, i)], handlerOf' = handlerOf
  PROVE  OnePlace'
<1>1. /\ Range(runnable) = Range(Tail(runnable)) \cup {i} /\ i \notin Range(Tail(runnable))
      /\ IsInjective(Tail(runnable)) /\ \A u \in Types : i \notin Range(waiting[u])
  BY AdvancedTask
<1>2. waiting'[t] = Append(waiting[t], i) /\ \A u \in Types \ {t} : waiting'[u] = waiting[u]
  BY DEF TypeOK
<1>3. Range(waiting'[t]) = Range(waiting[t]) \cup {i} /\ IsInjective(waiting'[t])
  BY <1>1, <1>2, RangeOfAppend DEF TypeOK, OnePlace
<1>4. DequesDistinct'
  BY <1>1, <1>2, <1>3 DEF DequesDistinct, OnePlace
<1>5. Waiters' = Waiters \cup {i}
  BY <1>2, <1>3 DEF Waiters
<1>6. Live' = Live
  BY DEF Live
<1> QED BY <1>1, <1>4, <1>5, <1>6, OnePlaceParts, OnePlacePartsNext

(* The advanced task ends.                                                   *)
LEMMA EndedInPlace ==
  ASSUME TypeOK, OnePlace, NEW i \in Task, NEW outcome, End(i, outcome)
  PROVE  OnePlace'
<1>1. /\ Range(runnable) = Range(Tail(runnable)) \cup {i} /\ i \notin Range(Tail(runnable))
      /\ IsInjective(Tail(runnable)) /\ \A u \in Types : i \notin Range(waiting[u])
  BY AdvancedTask DEF End
<1>2. runnable' = Tail(runnable) /\ waiting' = waiting
  BY DEF End
<1>3. Live' = Live \ {i}
  BY DEF Live, End, TypeOK
<1>4. i \notin Waiters /\ Waiters' = Waiters
  BY <1>1, <1>2 DEF Waiters
<1>5. DequesDistinct'
  BY <1>1, <1>2 DEF DequesDistinct, OnePlace
<1>6. Live' = Range(runnable') \cup Waiters'
  BY <1>1, <1>2, <1>3, <1>4, OnePlaceParts
<1> QED BY <1>5, <1>6, OnePlacePartsNext

(* The handlers of an event become tasks of which none existed.              *)
LEMMA DispatchedInPlace ==
  ASSUME TypeOK, OnePlace, NEW t \in Types, Dispatch(t)
  PROVE  OnePlace'
<1>1. PICK s \in Slots(Len(Handlers[t])) :
         /\ runnable' = s
         /\ handlerOf' = [i \in Task |-> IF i \in Range(s)
                            THEN Handlers[t][CHOOSE k \in DOMAIN s : s[k] = i]
                            ELSE handlerOf[i]]
  BY DEF Dispatch
<1>2. waiting' = waiting /\ Range(runnable) = {}
  BY DEF Dispatch, Range
<1>3. s \in [1..Len(Handlers[t]) -> Task] /\ IsInjective(s) /\ \A i \in Range(s) : i \in Task /\ handlerOf[i] = None
  BY DEF Slots, Free, Range
<1>4. \A i \in Range(s) : i \notin Waiters
  BY <1>2, <1>3, OnePlaceParts DEF Live
<1>5. DequesDistinct'
  <2>1. \A u \in Types : Range(s) \cap Range(waiting[u]) = {}
    BY <1>4 DEF Waiters
  <2> QED BY <2>1, <1>1, <1>2, <1>3 DEF DequesDistinct, OnePlace
<1>6. ASSUME NEW i \in Range(s) PROVE handlerOf'[i] # None
  <2>1. \E k \in DOMAIN s : s[k] = i
    BY DEF Range
  <2>2. (CHOOSE k \in DOMAIN s : s[k] = i) \in 1..Len(Handlers[t])
    BY <2>1, <1>3
  <2>3. handlerOf'[i] = Handlers[t][CHOOSE k \in DOMAIN s : s[k] = i]
    BY <1>1, <1>3
  <2>4. handlerOf'[i] \in Handler
    BY <2>2, <2>3, HandlersType
  <2> QED BY <2>4, HandlersAssumption DEF Handler
<1>7. Live' = Live \cup Range(s)
  BY <1>1, <1>3, <1>6 DEF Live
<1>8. Live' = Range(runnable') \cup Waiters'
  BY <1>1, <1>2, <1>7, OnePlaceParts DEF Waiters
<1> QED BY <1>5, <1>8, OnePlacePartsNext

LEMMA OnePlaceStep == TypeOK /\ OnePlace /\ [Next]_vars => OnePlace'
<1> SUFFICES ASSUME TypeOK, OnePlace, [Next]_vars PROVE OnePlace'
  OBVIOUS
<1>1. ASSUME NEW t \in Types, Dispatch(t) PROVE OnePlace'
  BY <1>1, DispatchedInPlace
<1>2. CASE Return
  BY <1>2 DEF Return, taskVars, OnePlace
<1>3. ASSUME NEW i \in Task, NEW t \in Types, NEW p \in Payload, EmitToWaiter(i, t, p) PROVE OnePlace'
  BY <1>3, WokenInPlace DEF EmitToWaiter, Advance
<1>4. ASSUME NEW i \in Task, NEW t \in Types, NEW p \in Payload, EmitToQueue(i, t, p) PROVE OnePlace'
  BY <1>4, BackInPlace DEF EmitToQueue, Advance
<1>5. ASSUME NEW i \in Task, NEW t \in Types, AwaitQueued(i, t) PROVE OnePlace'
  BY <1>5, BackInPlace DEF AwaitQueued, Advance
<1>6. ASSUME NEW i \in Task, NEW t \in Types, AwaitSuspend(i, t) PROVE OnePlace'
  BY <1>6, SuspendedInPlace DEF AwaitSuspend, Advance
<1>7. ASSUME NEW i \in Task, Finish(i) \/ Stop(i) \/ Abort(i) PROVE OnePlace'
  BY <1>7, EndedInPlace DEF Finish, Stop, Abort
<1>8. CASE UNCHANGED vars
  BY <1>8 DEF vars, OnePlace
<1> QED BY <1>1, <1>2, <1>3, <1>4, <1>5, <1>6, <1>7, <1>8 DEF Next, Iterate, Ended

(* No task of the loop is ever lost, duplicated or in two deques at once,    *)
(* whatever the handlers do.                                                 *)
THEOREM EveryTaskInOnePlace == Spec => []OnePlace
<1>1. Init => OnePlace
  BY DEF Init, OnePlace, Range, IsInjective
<1> QED BY <1>1, TypeCorrect, OnePlaceStep, PTL DEF Spec

-----------------------------------------------------------------------------
(* AnswerMatchesAwait for one task.                                          *)
AnswerOf(i) ==
  /\ pendingSend[i] # None => awaited[i] = pendingSend[i].type
  /\ \A t \in Types : i \in Range(waiting[t]) <=> awaited[i] = t /\ pendingSend[i] = None

LEMMA AnswerParts == AnswerMatchesAwait <=> \A i \in Task : AnswerOf(i)
  BY DEF AnswerMatchesAwait, AnswerOf

LEMMA AnswerPartsNext == (\A i \in Task : AnswerOf(i)') => AnswerMatchesAwait'
  BY DEF AnswerMatchesAwait, AnswerOf

(* A task that is neither advanced nor woken keeps its answer.               *)
LEMMA OthersAnswer ==
  ASSUME NEW j \in Task, AnswerOf(j), awaited'[j] = awaited[j], pendingSend'[j] = pendingSend[j],
         \A t \in Types : j \in Range(waiting'[t]) <=> j \in Range(waiting[t])
  PROVE  AnswerOf(j)'
  BY DEF AnswerOf

LEMMA EmitToWaiterAnswer ==
  ASSUME TypeOK, OnePlace, AnswerMatchesAwait, NEW i \in Task, NEW t \in Types, NEW p \in Payload,
         EmitToWaiter(i, t, p), NEW j \in Task
  PROVE  AnswerOf(j)'
<1> DEFINE w == Head(waiting[t])
<1>1. /\ waiting[t] \in Seq(Task) /\ waiting[t] # << >> /\ IsInjective(waiting[t]) /\ IsHead(i)
      /\ awaited' = [awaited EXCEPT ![i] = None]
      /\ pendingSend' = [Taken(i) EXCEPT ![w] = Ev(t, p)]
      /\ waiting'[t] = Tail(waiting[t]) /\ \A u \in Types \ {t} : waiting'[u] = waiting[u]
  BY DEF EmitToWaiter, Advance, TypeOK, OnePlace
<1>2. w \in Task /\ Range(waiting'[t]) = Range(waiting[t]) \ {w} /\ w \in Range(waiting[t])
  BY <1>1, RangeOfTail, TailType
<1>3. \A u \in Types : i \notin Range(waiting[u])
  BY <1>1, AdvancedTask
<1>4. w # i /\ \A u \in Types \ {t} : w \notin Range(waiting[u])
  BY <1>2, <1>3 DEF OnePlace
<1>5. AnswerOf(j) /\ AnswerOf(w)
  BY <1>2, AnswerParts
<1>6. CASE j = w
  <2>1. awaited[w] = t
    BY <1>2, <1>5 DEF AnswerOf
  <2>2. awaited'[w] = t /\ pendingSend'[w] = Ev(t, p) /\ Ev(t, p) # None /\ Ev(t, p).type = t
    BY <2>1, <1>1, <1>2, <1>4, NoneAssumption DEF TypeOK, Taken, Ev
  <2>3. \A u \in Types : w \notin Range(waiting'[u])
    BY <1>1, <1>2, <1>4
  <2> QED BY <1>6, <2>2, <2>3 DEF AnswerOf
<1>7. CASE j = i
  <2>1. awaited'[i] = None /\ pendingSend'[i] = None
    BY <1>1, <1>2, <1>4 DEF TypeOK, Taken
  <2>2. \A u \in Types : i \notin Range(waiting'[u])
    BY <1>1, <1>2, <1>3
  <2> QED BY <1>7, <2>1, <2>2, NoneAssumption DEF AnswerOf
<1>8. CASE j # i /\ j # w
  <2>1. awaited'[j] = awaited[j] /\ pendingSend'[j] = pendingSend[j]
    BY <1>1, <1>2, <1>8 DEF TypeOK, Taken
  <2>2. \A u \in Types : j \in Range(waiting'[u]) <=> j \in Range(waiting[u])
    BY <1>1, <1>2, <1>8
  <2> QED BY <1>5, <2>1, <2>2, OthersAnswer
<1> QED BY <1>6, <1>7, <1>8

(* A step after which the advanced task awaits nothing: an emit, the end.    *)
LEMMA NothingAwaitedAnswer ==
  ASSUME TypeOK, OnePlace, AnswerMatchesAwait, NEW i \in Task, IsHead(i), waiting' = waiting,
         awaited' = [awaited EXCEPT ![i] = None], pendingSend' = Taken(i), NEW j \in Task
  PROVE  AnswerOf(j)'
<1>1. (\A u \in Types : i \notin Range(waiting[u])) /\ AnswerOf(j)
  BY AdvancedTask, AnswerParts
<1>2. CASE j = i
  BY <1>1, <1>2, NoneAssumption DEF AnswerOf, TypeOK, Taken
<1>3. CASE j # i
  BY <1>1, <1>3, OthersAnswer DEF TypeOK, Taken
<1> QED BY <1>2, <1>3

LEMMA AwaitQueuedAnswer ==
  ASSUME TypeOK, OnePlace, AnswerMatchesAwait, QueueTyped, NEW i \in Task, NEW t \in Types,
         AwaitQueued(i, t), NEW j \in Task
  PROVE  AnswerOf(j)'
<1> DEFINE e == Head(queue[t])
<1>1. /\ queue[t] \in Seq(Event) /\ queue[t] # << >> /\ IsHead(i) /\ waiting' = waiting
      /\ awaited' = [awaited EXCEPT ![i] = t] /\ pendingSend' = [Taken(i) EXCEPT ![i] = e]
  BY DEF AwaitQueued, Advance, TypeOK
<1>2. e \in Event /\ e.type = t
  BY <1>1, HeadTailProperties DEF QueueTyped
<1>3. e # None
  BY <1>2, NoneAssumption DEF Event
<1>4. (\A u \in Types : i \notin Range(waiting[u])) /\ AnswerOf(j)
  BY <1>1, AdvancedTask, AnswerParts
<1>5. CASE j = i
  <2>1. awaited'[i] = t /\ pendingSend'[i] = e
    BY <1>1 DEF TypeOK, Taken
  <2> QED BY <1>1, <1>2, <1>3, <1>4, <1>5, <2>1 DEF AnswerOf
<1>6. CASE j # i
  BY <1>1, <1>4, <1>6, OthersAnswer DEF TypeOK, Taken
<1> QED BY <1>5, <1>6

LEMMA AwaitSuspendAnswer ==
  ASSUME TypeOK, OnePlace, AnswerMatchesAwait, NEW i \in Task, NEW t \in Types,
         AwaitSuspend(i, t), NEW j \in Task
  PROVE  AnswerOf(j)'
<1>1. /\ IsHead(i) /\ awaited' = [awaited EXCEPT ![i] = t] /\ pendingSend' = Taken(i)
      /\ waiting[t] \in Seq(Task) /\ waiting'[t] = Append(waiting[t], i)
      /\ \A u \in Types \ {t} : waiting'[u] = waiting[u]
  BY DEF AwaitSuspend, Advance, TypeOK
<1>2. (\A u \in Types : i \notin Range(waiting[u])) /\ AnswerOf(j)
  BY <1>1, AdvancedTask, AnswerParts
<1>3. Range(waiting'[t]) = Range(waiting[t]) \cup {i}
  BY <1>1, <1>2, TasksOfAppend DEF OnePlace
<1>4. CASE j = i
  <2>1. awaited'[i] = t /\ pendingSend'[i] = None
    BY <1>1 DEF TypeOK, Taken
  <2> QED BY <1>1, <1>2, <1>3, <1>4, <2>1 DEF AnswerOf
<1>5. CASE j # i
  <2>1. awaited'[j] = awaited[j] /\ pendingSend'[j] = pendingSend[j]
    BY <1>1, <1>5 DEF TypeOK, Taken
  <2>2. \A u \in Types : j \in Range(waiting'[u]) <=> j \in Range(waiting[u])
    BY <1>1, <1>3, <1>5
  <2> QED BY <1>2, <2>1, <2>2, OthersAnswer
<1> QED BY <1>4, <1>5

LEMMA AnswerStep ==
  TypeOK /\ OnePlace /\ QueueTyped /\ AnswerMatchesAwait /\ [Next]_vars => AnswerMatchesAwait'
<1> SUFFICES ASSUME TypeOK, OnePlace, QueueTyped, AnswerMatchesAwait, [Next]_vars, NEW j \in Task
             PROVE  AnswerOf(j)'
  BY AnswerPartsNext
<1>1. ASSUME waiting' = waiting, awaited' = awaited, pendingSend' = pendingSend PROVE AnswerOf(j)'
  BY <1>1, AnswerParts DEF AnswerOf
<1>2. ASSUME NEW t \in Types, Dispatch(t) PROVE AnswerOf(j)'
  BY <1>1, <1>2 DEF Dispatch
<1>3. CASE Return \/ UNCHANGED vars
  BY <1>1, <1>3 DEF Return, taskVars, vars
<1>4. ASSUME NEW i \in Task, NEW t \in Types, NEW p \in Payload, EmitToWaiter(i, t, p) PROVE AnswerOf(j)'
  BY <1>4, EmitToWaiterAnswer
<1>5. ASSUME NEW i \in Task, NEW t \in Types, NEW p \in Payload, EmitToQueue(i, t, p) PROVE AnswerOf(j)'
  BY <1>5, NothingAwaitedAnswer DEF EmitToQueue, Advance
<1>6. ASSUME NEW i \in Task, NEW t \in Types, AwaitQueued(i, t) PROVE AnswerOf(j)'
  BY <1>6, AwaitQueuedAnswer
<1>7. ASSUME NEW i \in Task, NEW t \in Types, AwaitSuspend(i, t) PROVE AnswerOf(j)'
  BY <1>7, AwaitSuspendAnswer
<1>8. ASSUME NEW i \in Task, Finish(i) \/ Stop(i) \/ Abort(i) PROVE AnswerOf(j)'
  BY <1>8, NothingAwaitedAnswer DEF Finish, Stop, Abort, End
<1> QED BY <1>2, <1>3, <1>4, <1>5, <1>6, <1>7, <1>8 DEF Next, Iterate, Ended

(* Whatever a task is sent is an event of the type it awaits, and it sleeps  *)
(* in the deque of that type until then.                                     *)
THEOREM AnswersMatch == Spec => []AnswerMatchesAwait
<1>1. Init => AnswerMatchesAwait
  BY NoneAssumption DEF Init, AnswerMatchesAwait, Range
<1> QED BY <1>1, TypeCorrect, EveryTaskInOnePlace, QueuesTyped, AnswerStep, PTL DEF Spec

-----------------------------------------------------------------------------
(* An event that leaves a queue was broadcast, when nothing could run and    *)
(* no smaller type had one, or answers an await of its type.                 *)
LEMMA TakenInOrder ==
  ASSUME TypeOK, OnePlace, AnswerMatchesAwait, HeapCoversQueues, [Next]_vars,
         NEW t \in Types, Len(queue'[t]) < Len(queue[t])
  PROVE  \/ /\ \A i \in Task : handlerOf[i] = None \/ i \in Suspended
            /\ \A u \in Types : u < t => queue[u] = << >>
         \/ \E i \in Task : awaited'[i] = t /\ pendingSend'[i] = Head(queue[t])
<1>0. queue'[t] # queue[t] /\ queue[t] \in Seq(Event) /\ queue \in [Types -> Seq(Event)]
  BY DEF TypeOK
<1>1. ASSUME NEW u \in Types, Dispatch(u)
      PROVE  /\ \A i \in Task : handlerOf[i] = None \/ i \in Suspended
             /\ \A v \in Types : v < t => queue[v] = << >>
  <2>1. u = t /\ runnable = << >> /\ IsNext(t)
    BY <1>0, <1>1 DEF Dispatch
  <2>2. ASSUME NEW v \in Types, v < t PROVE queue[v] = << >>
    BY <2>1, <2>2 DEF IsNext, HeapCoversQueues
  <2>3. Range(runnable) = {}
    BY <2>1 DEF Range
  <2>4. ASSUME NEW i \in Task, handlerOf[i] # None PROVE i \in Suspended
    <3>1. PICK v \in Types : i \in Range(waiting[v])
      BY <2>3, <2>4 DEF OnePlace
    <3>2. awaited[i] = v /\ pendingSend[i] = None
      BY <3>1 DEF AnswerMatchesAwait
    <3> QED BY <3>2, NoneAssumption DEF Suspended
  <2> QED BY <2>2, <2>4
<1>2. ASSUME NEW i \in Task, NEW u \in Types, AwaitQueued(i, u)
      PROVE  awaited'[i] = t /\ pendingSend'[i] = Head(queue[t])
  <2>1. u = t
    BY <1>0, <1>2 DEF AwaitQueued
  <2> QED BY <1>2, <2>1 DEF AwaitQueued, Advance, TypeOK, Taken
<1>3. ASSUME NEW i \in Task, NEW u \in Types, NEW p \in Payload, EmitToQueue(i, u, p) PROVE FALSE
  <2>1. queue'[t] = queue[t] \/ queue'[t] = Append(queue[t], Ev(u, p))
    BY <1>0, <1>3 DEF EmitToQueue
  <2>2. Ev(u, p) \in Event
    BY DEF Ev, Event
  <2>3. Len(queue'[t]) >= Len(queue[t])
    BY <1>0, <2>1, <2>2
  <2> QED BY <1>0, <2>3
<1>4. ASSUME NEW i \in Task, NEW u \in Types, NEW p \in Payload, EmitToWaiter(i, u, p) PROVE FALSE
  BY <1>0, <1>4 DEF EmitToWaiter
<1>5. ASSUME NEW i \in Task, NEW u \in Types, AwaitSuspend(i, u) PROVE FALSE
  BY <1>0, <1>5 DEF AwaitSuspend
<1>6. ASSUME NEW i \in Task, Finish(i) \/ Stop(i) \/ Abort(i) PROVE FALSE
  BY <1>0, <1>6 DEF Finish, Stop, Abort, End
<1>7. ~ Return /\ ~ UNCHANGED vars
  BY <1>0 DEF Return, vars
<1> QED BY <1>1, <1>2, <1>3, <1>4, <1>5, <1>6, <1>7 DEF Next, Iterate, Ended

(* Events are broadcast only when every task sleeps, those of the smallest   *)
(* queued type first, whatever the heap still holds of older types.          *)
THEOREM BroadcastInOrder == Spec => SmallestTypeFirst
<1>1. TypeOK /\ OnePlace /\ AnswerMatchesAwait /\ HeapCoversQueues /\ [Next]_vars
        => [\A t \in Types : Len(queue'[t]) < Len(queue[t]) =>
              \/ /\ \A i \in Task : handlerOf[i] = None \/ i \in Suspended
                 /\ \A u \in Types : u < t => queue[u] = << >>
              \/ \E i \in Task : awaited'[i] = t /\ pendingSend'[i] = Head(queue[t])]_vars
  BY TakenInOrder
<1> QED BY <1>1, TypeCorrect, EveryTaskInOnePlace, AnswersMatch, HeapNeverMissesAnEvent, PTL DEF Spec, SmallestTypeFirst

-----------------------------------------------------------------------------
(* The order in which EventLoop lets the handlers of an event begin.         *)

(* A task that was advanced is alive, and every task that waits was advanced *)
(* to its await. So a fresh identity was never started, and whoever is woken *)
(* lines up among the started ones.                                          *)
StartedLive ==
  /\ \A i \in started : handlerOf[i] # None
  /\ \A t \in Types : Range(waiting[t]) \subseteq started

LEMMA StartedLiveStep == TypeOK /\ OnePlace /\ StartedLive /\ [Next]_vars => StartedLive'
<1> SUFFICES ASSUME TypeOK, OnePlace, StartedLive, [Next]_vars PROVE StartedLive'
  OBVIOUS
<1>1. ASSUME NEW i \in Task, IsHead(i) PROVE handlerOf[i] # None /\ \A t \in Types : i \notin Range(waiting[t])
  BY <1>1, AdvancedTask, OnePlaceParts DEF Live
<1>2. ASSUME started' = started, waiting' = waiting, \A i \in started : handlerOf'[i] # None PROVE StartedLive'
  BY <1>2 DEF StartedLive
<1>3. ASSUME NEW i \in Task, IsHead(i), started' = started \cup {i}, handlerOf' = handlerOf,
             \A t \in Types : Range(waiting'[t]) \subseteq Range(waiting[t]) \cup {i}
      PROVE  StartedLive'
  BY <1>1, <1>3 DEF StartedLive
<1>4. ASSUME NEW t \in Types, Dispatch(t) PROVE StartedLive'
  <2>1. PICK s \in Slots(Len(Handlers[t])) :
          handlerOf' = [i \in Task |-> IF i \in Range(s)
                          THEN Handlers[t][CHOOSE k \in DOMAIN s : s[k] = i]
                          ELSE handlerOf[i]]
    BY <1>4 DEF Dispatch
  <2>2. \A i \in Range(s) : handlerOf[i] = None
    BY DEF Slots, Free, Range
  <2>3. \A i \in started : handlerOf'[i] = handlerOf[i]
    BY <2>1, <2>2 DEF StartedLive, TypeOK
  <2> QED BY <1>2, <1>4, <2>3 DEF StartedLive, Dispatch
<1>5. ASSUME NEW i \in Task, NEW t \in Types, NEW p \in Payload, EmitToWaiter(i, t, p) PROVE StartedLive'
  <2>1. /\ waiting[t] \in Seq(Task) /\ waiting[t] # << >> /\ IsInjective(waiting[t])
        /\ waiting'[t] = Tail(waiting[t]) /\ \A u \in Types \ {t} : waiting'[u] = waiting[u]
    BY <1>5 DEF EmitToWaiter, TypeOK, OnePlace
  <2>2. Range(waiting'[t]) \subseteq Range(waiting[t])
    BY <2>1, RangeOfTail
  <2> QED BY <1>3, <1>5, <2>1, <2>2 DEF EmitToWaiter, Advance
<1>6. ASSUME NEW i \in Task, NEW t \in Types, NEW p \in Payload, EmitToQueue(i, t, p) PROVE StartedLive'
  BY <1>3, <1>6 DEF EmitToQueue, Advance
<1>7. ASSUME NEW i \in Task, NEW t \in Types, AwaitQueued(i, t) PROVE StartedLive'
  BY <1>3, <1>7 DEF AwaitQueued, Advance
<1>8. ASSUME NEW i \in Task, NEW t \in Types, AwaitSuspend(i, t) PROVE StartedLive'
  <2>1. waiting[t] \in Seq(Task) /\ waiting'[t] = Append(waiting[t], i) /\ \A u \in Types \ {t} : waiting'[u] = waiting[u]
    BY <1>8 DEF AwaitSuspend, TypeOK
  <2>2. Range(waiting'[t]) = Range(waiting[t]) \cup {i}
    BY <2>1, RangeOfAppend
  <2> QED BY <1>3, <1>8, <2>1, <2>2 DEF AwaitSuspend, Advance
<1>9. ASSUME NEW i \in Task, Finish(i) \/ Stop(i) \/ Abort(i) PROVE StartedLive'
  <2>1. IsHead(i) /\ started' = started \ {i} /\ waiting' = waiting /\ handlerOf' = [handlerOf EXCEPT ![i] = None]
    BY <1>9 DEF Finish, Stop, Abort, End
  <2>2. \A j \in started' : handlerOf'[j] # None
    BY <2>1 DEF StartedLive, TypeOK
  <2>3. \A t \in Types : Range(waiting'[t]) \subseteq started'
    BY <1>1, <2>1 DEF StartedLive
  <2> QED BY <2>2, <2>3 DEF StartedLive
<1>10. CASE Return \/ UNCHANGED vars
  BY <1>2, <1>10 DEF StartedLive, Return, taskVars, vars
<1> QED BY <1>4, <1>5, <1>6, <1>7, <1>8, <1>9, <1>10 DEF Next, Iterate, Ended

LEMMA StartedTasksLive == Spec => []StartedLive
<1>1. Init => StartedLive
  BY DEF Init, StartedLive, Range
<1> QED BY <1>1, TypeCorrect, EveryTaskInOnePlace, StartedLiveStep, PTL DEF Spec

-----------------------------------------------------------------------------
(* The first n tasks of runnable are the last n handlers of an event of t.   *)
Beginners(t, n) ==
  /\ n <= Len(Handlers[t])
  /\ \A k \in DOMAIN runnable :
       /\ (k <= n) <=> (runnable[k] \notin started)
       /\ k <= n => /\ handlerOf[runnable[k]] = Handlers[t][Len(Handlers[t]) - n + k]
                    /\ binding[runnable[k]] = binding[runnable[1]]
                    /\ binding[runnable[k]].type = t

LEMMA OrderParts == HandlersStartInOrder <=> \E t \in Types, n \in 0..Len(runnable) : Beginners(t, n)
  BY DEF HandlersStartInOrder, Beginners

LEMMA OrderPartsNext == (\E t \in Types, n \in 0..Len(runnable') : Beginners(t, n)') => HandlersStartInOrder'
  BY DEF HandlersStartInOrder, Beginners

(* The head leaves, and what lines up behind the others was started before:  *)
(* one handler less is to begin.                                             *)
LEMMA HeadBegan ==
  ASSUME TypeOK, OnePlace, HandlersStartInOrder, NEW i \in Task, IsHead(i),
         runnable' \in Seq(Task), Len(runnable') >= Len(runnable) - 1,
         \A k \in 1..(Len(runnable) - 1) : runnable'[k] = runnable[k + 1],
         \A k \in 1..Len(runnable') : k >= Len(runnable) => runnable'[k] \in started',
         \A j \in Task \ {i} : /\ j \in started' <=> j \in started
                               /\ handlerOf'[j] = handlerOf[j] /\ binding'[j] = binding[j]
  PROVE  HandlersStartInOrder'
<1>1. PICK t \in Types, n \in 0..Len(runnable) : Beginners(t, n)
  BY OrderParts
<1>2. runnable \in Seq(Task) /\ Len(runnable) \in Nat \ {0} /\ runnable[1] = i /\ IsInjective(runnable)
  BY HeadTailProperties DEF TypeOK, OnePlace, IsHead
<1>3. PICK N \in Nat : N = Len(runnable)
  BY <1>2
<1>4. PICK h \in Nat : h = Len(Handlers[t])
  BY HandlersType
<1>5. PICK m \in Nat : m = IF n = 0 THEN 0 ELSE n - 1
  OBVIOUS
<1>6. m \in 0..Len(runnable') /\ m <= N - 1 /\ m <= h /\ n \in 0..N
  BY <1>1, <1>2, <1>3, <1>4, <1>5 DEF Beginners
<1>7. ASSUME NEW k \in 1..(N - 1)
      PROVE  /\ runnable'[k] = runnable[k + 1] /\ runnable[k + 1] \in Task \ {i}
             /\ (k <= m) <=> (runnable'[k] \notin started')
             /\ k <= m => /\ handlerOf'[runnable'[k]] = Handlers[t][h - m + k]
                          /\ binding'[runnable'[k]] = binding[runnable[1]]
                          /\ binding'[runnable'[k]].type = t
  <2>1. runnable'[k] = runnable[k + 1] /\ k + 1 \in DOMAIN runnable /\ runnable[k + 1] \in Task
    BY <1>2, <1>3
  <2>2. runnable[k + 1] # i
    <3>1. 1 \in DOMAIN runnable /\ k + 1 # 1
      BY <1>2
    <3> QED BY <1>2, <2>1, <3>1 DEF IsInjective
  <2>3. (k + 1 <= n) <=> (runnable[k + 1] \notin started)
    BY <1>1, <2>1 DEF Beginners
  <2>4. (k <= m) <=> (k + 1 <= n)
    BY <1>5, <1>6
  <2>5. (k <= m) <=> (runnable'[k] \notin started')
    BY <2>1, <2>2, <2>3, <2>4
  <2>6. ASSUME k <= m
        PROVE  /\ handlerOf'[runnable'[k]] = Handlers[t][h - m + k]
               /\ binding'[runnable'[k]] = binding[runnable[1]]
               /\ binding'[runnable'[k]].type = t
    <3>1. h - n + (k + 1) = h - m + k
      BY <1>5, <2>6
    <3>2. /\ handlerOf[runnable[k + 1]] = Handlers[t][h - n + (k + 1)]
          /\ binding[runnable[k + 1]] = binding[runnable[1]] /\ binding[runnable[k + 1]].type = t
      BY <1>1, <1>4, <2>1, <2>4, <2>6 DEF Beginners
    <3> QED BY <2>1, <2>2, <3>1, <3>2
  <2> QED BY <2>1, <2>2, <2>5, <2>6
<1>8. ASSUME NEW k \in DOMAIN runnable'
      PROVE  /\ (k <= m) <=> (runnable'[k] \notin started')
             /\ k <= m => /\ handlerOf'[runnable'[k]] = Handlers[t][h - m + k]
                          /\ binding'[runnable'[k]] = binding'[runnable'[1]]
                          /\ binding'[runnable'[k]].type = t
  <2>1. k \in 1..Len(runnable')
    OBVIOUS
  <2>2. CASE k \in 1..(N - 1)
    <3>1. k <= m => 1 \in 1..(N - 1) /\ 1 <= m
      BY <2>2
    <3>2. k <= m => binding'[runnable'[1]] = binding[runnable[1]]
      BY <1>7, <3>1
    <3> QED BY <1>7, <2>2, <3>2
  <2>3. CASE k \notin 1..(N - 1)
    BY <1>3, <1>6, <2>1, <2>3
  <2> QED BY <2>2, <2>3
<1>9. Beginners(t, m)'
  BY <1>4, <1>6, <1>8 DEF Beginners
<1> QED BY <1>6, <1>9, OrderPartsNext

(* The tasks of a dispatched event are all to begin.                         *)
LEMMA DispatchedInOrder ==
  ASSUME TypeOK, QueueTyped, StartedLive, NEW t \in Types, Dispatch(t)
  PROVE  HandlersStartInOrder'
<1>1. PICK h \in Nat : h = Len(Handlers[t])
  BY HandlersType
<1>2. PICK s \in Slots(h) :
         /\ runnable' = s
         /\ handlerOf' = [i \in Task |-> IF i \in Range(s)
                            THEN Handlers[t][CHOOSE k \in DOMAIN s : s[k] = i]
                            ELSE handlerOf[i]]
         /\ binding' = [i \in Task |-> IF i \in Range(s) THEN Head(queue[t]) ELSE binding[i]]
  BY <1>1 DEF Dispatch
<1>3. /\ s \in [1..h -> Task] /\ IsInjective(s) /\ DOMAIN s = 1..h /\ s \in Seq(Task) /\ Len(s) = h
      /\ \A k \in 1..h : handlerOf[s[k]] = None
  BY DEF Slots, Free
<1>4. Head(queue[t]).type = t
  BY HeadTailProperties DEF Dispatch, IsNext, TypeOK, QueueTyped
<1>5. ASSUME NEW k \in 1..h
      PROVE  /\ s[k] \notin started' /\ handlerOf'[s[k]] = Handlers[t][k]
             /\ binding'[s[k]] = Head(queue[t])
  <2>1. s[k] \in Task /\ s[k] \in Range(s)
    BY <1>3 DEF Range
  <2>2. (CHOOSE j \in DOMAIN s : s[j] = s[k]) = k
    BY <1>3 DEF IsInjective
  <2>3. s[k] \notin started'
    BY <1>3 DEF StartedLive, Dispatch
  <2> QED BY <1>2, <2>1, <2>2, <2>3
<1>6. h \in 0..Len(runnable') /\ DOMAIN runnable' = 1..h
  BY <1>2, <1>3
<1>7. ASSUME NEW k \in DOMAIN runnable'
      PROVE  /\ (k <= h) <=> (runnable'[k] \notin started')
             /\ handlerOf'[runnable'[k]] = Handlers[t][h - h + k]
             /\ binding'[runnable'[k]] = binding'[runnable'[1]]
             /\ binding'[runnable'[k]].type = t
  <2>1. k \in 1..h /\ 1 \in 1..h /\ h - h + k = k
    BY <1>6
  <2> QED BY <1>2, <1>4, <1>5, <2>1
<1>8. Beginners(t, h)'
  BY <1>1, <1>7 DEF Beginners
<1> QED BY <1>6, <1>8, OrderPartsNext

(* The advanced task lines up again, alone or behind one that was woken.     *)
LEMMA BackInOrder ==
  ASSUME TypeOK, OnePlace, HandlersStartInOrder, NEW i \in Task, NEW c, Advance(i, c),
         runnable' = ToBack(i)
  PROVE  HandlersStartInOrder'
<1>1. /\ runnable \in Seq(Task) /\ IsHead(i) /\ Tail(runnable) \in Seq(Task) /\ Len(Tail(runnable)) = Len(runnable) - 1
      /\ Len(runnable) \in Nat /\ \A k \in 1..(Len(runnable) - 1) : Tail(runnable)[k] = runnable[k + 1]
  BY HeadTailProperties DEF TypeOK, Advance, IsHead
<1>2. /\ runnable' \in Seq(Task) /\ Len(runnable') = Len(runnable)
      /\ \A k \in 1..(Len(runnable) - 1) : runnable'[k] = runnable[k + 1]
      /\ runnable'[Len(runnable)] = i
  BY <1>1 DEF ToBack
<1>3. \A k \in 1..Len(runnable') : k >= Len(runnable) => runnable'[k] \in started'
  BY <1>1, <1>2 DEF Advance
<1> QED BY <1>1, <1>2, <1>3, HeadBegan DEF Advance

LEMMA WokenInOrder ==
  ASSUME TypeOK, OnePlace, StartedLive, HandlersStartInOrder, NEW i \in Task, NEW t \in Types, NEW p \in Payload,
         EmitToWaiter(i, t, p)
  PROVE  HandlersStartInOrder'
<1>1. /\ runnable \in Seq(Task) /\ IsHead(i) /\ Tail(runnable) \in Seq(Task) /\ Len(Tail(runnable)) = Len(runnable) - 1
      /\ Len(runnable) \in Nat /\ \A k \in 1..(Len(runnable) - 1) : Tail(runnable)[k] = runnable[k + 1]
  BY HeadTailProperties DEF TypeOK, EmitToWaiter, Advance, IsHead
<1>2. PICK w \in Task : w = Head(waiting[t]) /\ w \in started
  <2>1. waiting[t] \in Seq(Task) /\ waiting[t] # << >>
    BY DEF EmitToWaiter, TypeOK
  <2>2. Head(waiting[t]) \in Range(waiting[t])
    BY <2>1, HeadInRange
  <2> QED BY <2>2 DEF StartedLive, TypeOK
<1>3. /\ runnable' \in Seq(Task) /\ Len(runnable') = Len(runnable) + 1
      /\ \A k \in 1..(Len(runnable) - 1) : runnable'[k] = runnable[k + 1]
      /\ runnable'[Len(runnable)] = w /\ runnable'[Len(runnable) + 1] = i
  <2> DEFINE q == Append(Tail(runnable), w)
  <2>1. runnable' = Append(q, i)
    BY <1>2 DEF EmitToWaiter
  <2>2. /\ q \in Seq(Task) /\ Len(q) = Len(runnable) /\ q[Len(runnable)] = w
        /\ \A k \in 1..(Len(runnable) - 1) : q[k] = runnable[k + 1]
    BY <1>1
  <2> HIDE DEF q
  <2>3. /\ Append(q, i) \in Seq(Task) /\ Len(Append(q, i)) = Len(q) + 1 /\ Append(q, i)[Len(q) + 1] = i
        /\ \A k \in 1..Len(q) : Append(q, i)[k] = q[k]
    BY <2>2
  <2>4. PICK N \in Nat \ {0} : N = Len(runnable)
    <3>1. Len(runnable) # 0
      BY <1>1 DEF IsHead
    <3> QED BY <1>1, <3>1
  <2>5. N \in 1..Len(q) /\ \A k \in 1..(N - 1) : k \in 1..Len(q)
    BY <2>2, <2>4
  <2> QED BY <2>1, <2>2, <2>3, <2>4, <2>5
<1>4. started' = started \cup {i} /\ handlerOf' = handlerOf /\ binding' = binding
  BY DEF EmitToWaiter, Advance
<1>5. \A k \in 1..Len(runnable') : k >= Len(runnable) => runnable'[k] \in started'
  BY <1>1, <1>2, <1>3, <1>4
<1> QED BY <1>1, <1>3, <1>4, <1>5, HeadBegan

(* The advanced task does not line up again: it sleeps or ended.             *)
LEMMA GoneInOrder ==
  ASSUME TypeOK, OnePlace, HandlersStartInOrder, NEW i \in Task, IsHead(i), runnable' = Tail(runnable),
         \A j \in Task \ {i} : /\ j \in started' <=> j \in started
                               /\ handlerOf'[j] = handlerOf[j] /\ binding'[j] = binding[j]
  PROVE  HandlersStartInOrder'
<1>1. /\ runnable' \in Seq(Task) /\ Len(runnable') = Len(runnable) - 1 /\ Len(runnable) \in Nat
      /\ \A k \in 1..(Len(runnable) - 1) : runnable'[k] = runnable[k + 1]
  BY HeadTailProperties DEF TypeOK, IsHead
<1>2. \A k \in 1..Len(runnable') : ~ (k >= Len(runnable))
  BY <1>1
<1> QED BY <1>1, <1>2, HeadBegan

LEMMA OrderStep ==
  TypeOK /\ OnePlace /\ QueueTyped /\ StartedLive /\ HandlersStartInOrder /\ [Next]_vars => HandlersStartInOrder'
<1> SUFFICES ASSUME TypeOK, OnePlace, QueueTyped, StartedLive, HandlersStartInOrder, [Next]_vars
             PROVE  HandlersStartInOrder'
  OBVIOUS
<1>1. ASSUME NEW t \in Types, Dispatch(t) PROVE HandlersStartInOrder'
  BY <1>1, DispatchedInOrder
<1>2. CASE Return \/ UNCHANGED vars
  BY <1>2 DEF Return, taskVars, vars, HandlersStartInOrder
<1>3. ASSUME NEW i \in Task, NEW t \in Types, NEW p \in Payload, EmitToWaiter(i, t, p) PROVE HandlersStartInOrder'
  BY <1>3, WokenInOrder
<1>4. ASSUME NEW i \in Task, NEW t \in Types, NEW p \in Payload, EmitToQueue(i, t, p) PROVE HandlersStartInOrder'
  BY <1>4, BackInOrder DEF EmitToQueue
<1>5. ASSUME NEW i \in Task, NEW t \in Types, AwaitQueued(i, t) PROVE HandlersStartInOrder'
  BY <1>5, BackInOrder DEF AwaitQueued
<1>6. ASSUME NEW i \in Task, NEW t \in Types, AwaitSuspend(i, t) PROVE HandlersStartInOrder'
  BY <1>6, GoneInOrder DEF AwaitSuspend, Advance
<1>7. ASSUME NEW i \in Task, Finish(i) \/ Stop(i) \/ Abort(i) PROVE HandlersStartInOrder'
  BY <1>7, GoneInOrder DEF Finish, Stop, Abort, End, TypeOK
<1> QED BY <1>1, <1>2, <1>3, <1>4, <1>5, <1>6, <1>7 DEF Next, Iterate, Ended

(* The handlers of an event begin in program order, before any task that ran *)
(* already gets another turn, for every program and every order of its       *)
(* emits and awaits.                                                         *)
THEOREM HandlersBeginInOrder == Spec => []HandlersStartInOrder
<1>1. Init => HandlersStartInOrder
  BY EntryAssumption, HandlersAssumption DEF Init, HandlersStartInOrder
<1> QED BY <1>1, TypeCorrect, EveryTaskInOnePlace, QueuesTyped, StartedTasksLive, OrderStep, PTL DEF Spec

-----------------------------------------------------------------------------
(* EventLoop implements EventBus for every set of types, payloads and tasks, *)
(* every assignment of handlers and every bound.                             *)

(* The module of the bus has these operators of its own.                     *)
LEMMA BusOperators == \A f : Bus!Range(f) = Range(f) /\ (Bus!IsInjective(f) <=> IsInjective(f))
  BY DEF Range, Bus!Range, IsInjective, Bus!IsInjective

LEMMA InitOnBus == Init => Bus!Init
  BY DEF Init, Bus!Init, Range

(* A dispatched event is broadcast, although the event is found in a heap    *)
(* that holds stale entries.                                                 *)
LEMMA DispatchOnBus ==
  ASSUME TypeOK, TypeOK', HeapCoversQueues, NEW t \in Types, Dispatch(t)
  PROVE  Bus!Broadcast(t)
<1>1. status = "running" /\ Range(runnable) = {} /\ queue[t] # << >>
  BY DEF Dispatch, IsNext, Range
<1>2. ASSUME NEW u \in Types, u < t PROVE queue[u] = << >>
  BY <1>2 DEF Dispatch, IsNext, HeapCoversQueues
<1>3. PICK s \in Slots(Len(Handlers[t])) :
         /\ runnable' = s
         /\ handlerOf' = [i \in Task |-> IF i \in Range(s)
                            THEN Handlers[t][CHOOSE k \in DOMAIN s : s[k] = i]
                            ELSE handlerOf[i]]
         /\ binding' = [i \in Task |-> IF i \in Range(s) THEN Head(queue[t])
                                                         ELSE binding[i]]
  BY DEF Dispatch
<1>4. /\ s \in [1..Len(Handlers[t]) -> Task] /\ IsInjective(s)
      /\ \A k \in DOMAIN s : handlerOf[s[k]] = None
  BY DEF Slots, Free
<1>5. ASSUME NEW k \in DOMAIN s PROVE handlerOf'[s[k]] = Handlers[t][k]
  <2>1. s[k] \in Range(s) /\ s[k] \in Task
    BY <1>4 DEF Range
  <2>2. (CHOOSE j \in DOMAIN s : s[j] = s[k]) = k
    BY <1>4 DEF IsInjective
  <2> QED BY <2>1, <2>2, <1>3
<1>6. \A i \in Range(s) : i \in Task /\ binding'[i] = Head(queue[t])
  BY <1>3, <1>4 DEF Range
<1>7. \A i \in Task \ Range(s) : handlerOf'[i] = handlerOf[i] /\ binding'[i] = binding[i]
  BY <1>3
<1>8. /\ handlerOf' \in [Task -> (UNION {Bus!Range(Handlers[u]) : u \in Types}) \cup {None}]
      /\ binding' \in [Task -> [type : Types, payload : Payload] \cup {None}]
  BY BusOperators DEF TypeOK, Handler, Event
<1>9. /\ queue' = [queue EXCEPT ![t] = Tail(@)] /\ UNCHANGED <<waiting, pendingSend>>
      /\ status' = IF Handlers[t] = << >> THEN "crashed" ELSE "running"
  BY DEF Dispatch
<1>10. /\ Bus!IsInjective(s) /\ Bus!Range(s) = Range(s) /\ Range(runnable)' = Range(s)
       /\ s \in [1..Len(Handlers[t]) -> Task]
  BY <1>3, <1>4, BusOperators
<1>11. \E q \in [1..Len(Handlers[t]) -> Task] :
         /\ Bus!IsInjective(q) /\ \A k \in DOMAIN q : handlerOf[q[k]] = None
         /\ Range(runnable)' = Bus!Range(q)
         /\ \A i \in Bus!Range(q) : binding'[i] = Head(queue[t])
         /\ \A k \in DOMAIN q : handlerOf'[q[k]] = Handlers[t][k]
         /\ \A i \in Task \ Bus!Range(q) : handlerOf'[i] = handlerOf[i] /\ binding'[i] = binding[i]
  <2> s \in [1..Len(Handlers[t]) -> Task]
    BY <1>10
  <2> WITNESS s \in [1..Len(Handlers[t]) -> Task]
  <2> QED BY <1>4, <1>5, <1>6, <1>7, <1>10
<1> QED BY <1>1, <1>2, <1>8, <1>9, <1>11 DEF Bus!Broadcast

LEMMA ReturnOnBus ==
  ASSUME TypeOK, HeapCoversQueues, Return
  PROVE  Bus!Quiesce
<1>1. Range(runnable) = {} /\ Range(runnable') = Range(runnable)
  BY DEF Return, Range
<1>2. \A t \in Types : queue[t] = << >>
  BY ReturnCovers DEF Return
<1> QED BY <1>1, <1>2 DEF Return, taskVars, Bus!Quiesce

(* The advanced task has a turn of the bus.                                  *)
LEMMA TurnOnBus ==
  ASSUME TypeOK, NEW i \in Task, IsHead(i)
  PROVE  Bus!Turn(i)
  BY HeadInRange DEF TypeOK, IsHead, Bus!Turn

LEMMA EmitToWaiterOnBus ==
  ASSUME TypeOK, OnePlace, NEW i \in Task, NEW t \in Types, NEW p \in Payload, EmitToWaiter(i, t, p)
  PROVE  Bus!Publish(i, t, p)
<1> DEFINE w == Head(waiting[t])
<1>1. IsHead(i) /\ Bus!Turn(i) /\ UNCHANGED <<status, handlerOf, binding, queue>> /\ waiting[t] # << >>
  BY TurnOnBus DEF EmitToWaiter, Advance
<1>2. w \in Task /\ w \in Range(waiting[t])
  BY <1>1, TailType, HeadInRange DEF TypeOK
<1>3. w \notin Range(runnable) /\ runnable' = Append(Append(Tail(runnable), w), i)
  BY <1>2 DEF OnePlace, EmitToWaiter
<1>4. Range(runnable') = Range(runnable) \cup {w}
  BY <1>1, <1>2, <1>3, Woken
<1>5. pendingSend' = [pendingSend EXCEPT ![i] = None, ![w] = [type |-> t, payload |-> p]]
  BY DEF EmitToWaiter, Taken, Ev
<1>6. waiting' = [waiting EXCEPT ![t] = Tail(@)]
  BY DEF EmitToWaiter
<1> QED BY <1>1, <1>4, <1>5, <1>6 DEF Bus!Publish

LEMMA EmitToQueueOnBus ==
  ASSUME TypeOK, OnePlace, NEW i \in Task, NEW t \in Types, NEW p \in Payload, EmitToQueue(i, t, p)
  PROVE  Bus!Publish(i, t, p)
<1>1. IsHead(i) /\ Bus!Turn(i) /\ UNCHANGED <<status, handlerOf, binding, waiting>> /\ waiting[t] = << >>
  BY TurnOnBus DEF EmitToQueue, Advance, NoWaiter
<1>2. Range(runnable') = Range(runnable)
  BY <1>1, PutBack DEF EmitToQueue
<1>3. pendingSend' = [pendingSend EXCEPT ![i] = None]
  BY DEF EmitToQueue, Taken
<1>4. queue' = [queue EXCEPT ![t] = Append(@, [type |-> t, payload |-> p])]
  BY DEF EmitToQueue, Ev
<1> QED BY <1>1, <1>2, <1>3, <1>4 DEF Bus!Publish

LEMMA AwaitQueuedOnBus ==
  ASSUME TypeOK, OnePlace, NEW i \in Task, NEW t \in Types, AwaitQueued(i, t)
  PROVE  Bus!Await(i, t)
<1>1. IsHead(i) /\ Bus!Turn(i) /\ UNCHANGED <<status, handlerOf, binding, waiting>>
  BY TurnOnBus DEF AwaitQueued, Advance
<1>2. Range(runnable') = Range(runnable)
  BY <1>1, PutBack DEF AwaitQueued
<1>3. pendingSend' = [pendingSend EXCEPT ![i] = Head(queue[t])]
  BY DEF AwaitQueued, Taken, TypeOK
<1> QED BY <1>1, <1>2, <1>3 DEF AwaitQueued, Bus!Await

LEMMA AwaitSuspendOnBus ==
  ASSUME TypeOK, OnePlace, NEW i \in Task, NEW t \in Types, AwaitSuspend(i, t)
  PROVE  Bus!Await(i, t)
<1>1. IsHead(i) /\ Bus!Turn(i) /\ UNCHANGED <<status, handlerOf, binding, queue>> /\ queue[t] = << >>
  BY TurnOnBus DEF AwaitSuspend, Advance
<1>2. Range(runnable') = Range(runnable) \ {i}
  BY <1>1, AdvancedTask DEF AwaitSuspend
<1>3. pendingSend' = [pendingSend EXCEPT ![i] = None]
  BY DEF AwaitSuspend, Taken
<1> QED BY <1>1, <1>2, <1>3 DEF AwaitSuspend, Bus!Await

LEMMA EndOnBus ==
  ASSUME TypeOK, OnePlace, NEW i \in Task, NEW outcome \in {"running", "stopped", "aborted"}, End(i, outcome)
  PROVE  Bus!Leave(i)
<1>1. IsHead(i) /\ Bus!Turn(i)
  BY TurnOnBus DEF End
<1>2. Range(runnable') = Range(runnable) \ {i}
  BY <1>1, AdvancedTask DEF End
<1> QED BY <1>1, <1>2 DEF End, Taken, Bus!Leave

LEMMA StepOnBus ==
  TypeOK /\ TypeOK' /\ OnePlace /\ HeapCoversQueues /\ [Next]_vars => [Bus!Next]_(Bus!vars)
<1> SUFFICES ASSUME TypeOK, TypeOK', OnePlace, HeapCoversQueues, [Next]_vars
             PROVE  Bus!Next \/ UNCHANGED Bus!vars
  OBVIOUS
<1>1. ASSUME NEW t \in Types, Dispatch(t) PROVE Bus!Next
  BY <1>1, DispatchOnBus DEF Bus!Next
<1>2. CASE Return
  BY <1>2, ReturnOnBus DEF Bus!Next
<1>3. ASSUME NEW i \in Task, NEW t \in Types, NEW p \in Payload,
             EmitToWaiter(i, t, p) \/ EmitToQueue(i, t, p)
      PROVE  Bus!Next
  BY <1>3, EmitToWaiterOnBus, EmitToQueueOnBus DEF Bus!Next
<1>4. ASSUME NEW i \in Task, NEW t \in Types, AwaitQueued(i, t) \/ AwaitSuspend(i, t) PROVE Bus!Next
  BY <1>4, AwaitQueuedOnBus, AwaitSuspendOnBus DEF Bus!Next
<1>5. ASSUME NEW i \in Task, Finish(i) \/ Stop(i) \/ Abort(i) PROVE Bus!Next
  BY <1>5, EndOnBus DEF Finish, Stop, Abort, Bus!Next
<1>6. ASSUME UNCHANGED vars PROVE UNCHANGED Bus!vars
  BY <1>6 DEF vars, Bus!vars
<1> QED BY <1>1, <1>2, <1>3, <1>4, <1>5, <1>6 DEF Next, Iterate, Ended

(* Every behaviour of the loop, with its deques, its heap and its lazy       *)
(* deletions, is a behaviour of the bus.                                     *)
THEOREM LoopImplementsBus == Spec => ImplementsEventBus
<1>1. Spec => [](TypeOK /\ OnePlace /\ HeapCoversQueues)
  BY TypeCorrect, EveryTaskInOnePlace, HeapNeverMissesAnEvent, PTL
<1> QED BY <1>1, InitOnBus, StepOnBus, PTL DEF Spec, ImplementsEventBus, Bus!Spec
=============================================================================
