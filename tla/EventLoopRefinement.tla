------------------------- MODULE EventLoopRefinement -------------------------
(* EventLoop implements EventBus: the ready tasks are those in the runnable *)
(* deque, an event is kept while it is in its queue; the order of the deque *)
(* and the heap are details of the implementation.                          *)
EXTENDS EventLoop

Bus == INSTANCE EventBus WITH
         ready   <- Range(runnable),
         parked  <- waiting,
         mail    <- queue,
         role    <- handlerOf,
         subject <- binding,
         inbox   <- pendingSend

(* Every behaviour of the loop is one the bus allows: the heap, with its    *)
(* lazily deleted entries, finds the smallest type with a queued event      *)
(* whenever there is one, and the loop returns only when there is none.     *)
ImplementsEventBus == Bus!Spec
=============================================================================
