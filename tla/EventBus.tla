------------------------------- MODULE EventBus -------------------------------
(***************************************************************************)
(* What the event loop promises its programs, without the deque of ready   *)
(* tasks and without the heap of types: events of one type are consumed in *)
(* the order in which they were published, each of them by one awaiting    *)
(* task or by all handlers of its type, never by both; awaiting tasks are  *)
(* served in the order in which they began to wait; a queued event is      *)
(* broadcast only when no task is ready, and then the smallest type is     *)
(* served; and the run ends by itself only when no event is left.          *)
(* EventLoop implements this module (EventLoopRefinement).                 *)
(***************************************************************************)
EXTENDS Naturals, Sequences, Functions

CONSTANTS Types, Payload, Task, Handlers, EntryType, EntryValue, None

VARIABLES
  status,   \* "running", or how the run ended
  ready,    \* the tasks that will get a turn
  parked,   \* parked[t]: the tasks that wait for an event of t
  mail,     \* mail[t]: the events of t nobody has consumed
  role,     \* the handler a task runs, None for an unused identity
  subject,  \* the event a task was created for
  inbox     \* the event a ready task's await returns

vars == <<status, ready, parked, mail, role, subject, inbox>>

Init ==
  /\ status = "running" /\ ready = {}
  /\ parked = [t \in Types |-> << >>]
  /\ mail = [t \in Types |-> IF t = EntryType
               THEN << [type |-> t, payload |-> EntryValue] >> ELSE << >>]
  /\ role = [i \in Task |-> None]
  /\ subject = [i \in Task |-> None]
  /\ inbox = [i \in Task |-> None]

Turn(i) == status = "running" /\ i \in ready

(* A task publishes an event: the longest waiting task gets it, or it is    *)
(* kept.                                                                    *)
Publish(i, t, p) ==
  LET ev == [type |-> t, payload |-> p] IN
  /\ Turn(i)
  /\ \/ /\ parked[t] # << >>
        /\ parked' = [parked EXCEPT ![t] = Tail(@)]
        /\ ready' = ready \cup {Head(parked[t])}
        /\ inbox' = [inbox EXCEPT ![i] = None, ![Head(parked[t])] = ev]
        /\ mail' = mail
     \/ /\ parked[t] = << >>
        /\ mail' = [mail EXCEPT ![t] = Append(@, ev)]
        /\ inbox' = [inbox EXCEPT ![i] = None]
        /\ UNCHANGED <<parked, ready>>
  /\ UNCHANGED <<status, role, subject>>

(* A task awaits an event: it gets the oldest one, or it parks.             *)
Await(i, t) ==
  /\ Turn(i)
  /\ \/ /\ mail[t] # << >>
        /\ mail' = [mail EXCEPT ![t] = Tail(@)]
        /\ inbox' = [inbox EXCEPT ![i] = Head(mail[t])]
        /\ UNCHANGED <<parked, ready>>
     \/ /\ mail[t] = << >>
        /\ parked' = [parked EXCEPT ![t] = Append(@, i)]
        /\ ready' = ready \ {i}
        /\ inbox' = [inbox EXCEPT ![i] = None]
        /\ mail' = mail
  /\ UNCHANGED <<status, role, subject>>

(* A task ends, and with it the run when it stops or fails.                 *)
Leave(i) ==
  /\ Turn(i)
  /\ status' \in {"running", "stopped", "aborted"}
  /\ ready' = ready \ {i}
  /\ role' = [role EXCEPT ![i] = None]
  /\ subject' = [subject EXCEPT ![i] = None]
  /\ inbox' = [inbox EXCEPT ![i] = None]
  /\ UNCHANGED <<parked, mail>>

(* The oldest event of the smallest type with mail goes to a new task for   *)
(* each of its handlers.                                                    *)
Broadcast(t) ==
  /\ status = "running" /\ ready = {}
  /\ mail[t] # << >> /\ \A u \in Types : u < t => mail[u] = << >>
  /\ mail' = [mail EXCEPT ![t] = Tail(@)]
  /\ \E s \in [1..Len(Handlers[t]) -> Task] :
       /\ IsInjective(s) /\ \A k \in DOMAIN s : role[s[k]] = None
       /\ ready' = Range(s)
       /\ \A i \in Range(s) : subject'[i] = Head(mail[t])
       /\ \A k \in DOMAIN s : role'[s[k]] = Handlers[t][k]
       /\ \A i \in Task \ Range(s) : role'[i] = role[i] /\ subject'[i] = subject[i]
  /\ role' \in [Task -> (UNION {Range(Handlers[u]) : u \in Types}) \cup {None}]
  /\ subject' \in [Task -> [type : Types, payload : Payload] \cup {None}]
  /\ status' = IF Handlers[t] = << >> THEN "crashed" ELSE "running"
  /\ UNCHANGED <<parked, inbox>>

(* Nothing is ready and no event is left.                                   *)
Quiesce ==
  /\ status = "running" /\ ready = {} /\ \A t \in Types : mail[t] = << >>
  /\ status' = "returned"
  /\ UNCHANGED <<ready, parked, mail, role, subject, inbox>>

Next ==
  \/ \E i \in Task, t \in Types, p \in Payload : Publish(i, t, p)
  \/ \E i \in Task, t \in Types : Await(i, t)
  \/ \E i \in Task : Leave(i)
  \/ \E t \in Types : Broadcast(t)
  \/ Quiesce

Spec == Init /\ [][Next]_vars
=============================================================================
