---------------------------- MODULE MCEventLoop ----------------------------
(* Instances of EventLoop for TLC.  Type 1 has two handlers, type 2 has one *)
(* and type 3, where it exists, has none: its events can only be awaited.   *)
EXTENDS EventLoopRefinement, TLC

CONSTANTS i1, i2, i3, i4, a, b

MCPairTypes == {1, 2}
MCAllTypes == {1, 2, 3}
MCTwoTasks == {i1, i2}
MCFourTasks == {i1, i2, i3, i4}
MCOnePayload == {a}
MCTwoPayloads == {a, b}
MCHandlers == [t \in Types |-> CASE t = 1 -> <<"first", "second">>
                                 [] t = 2 -> <<"third">>
                                 [] OTHER -> << >>]
MCSingleHandlers == [t \in Types |-> IF t = 1 THEN <<"first">> ELSE <<"third">>]
MCSymmetry == Permutations(Task)
=============================================================================
