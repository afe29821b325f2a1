-------------------------- MODULE MCAdapterProcess --------------------------
(* Two threads, two requests, two children: enough for a late answer of a   *)
(* closed child to meet a younger call, and for two threads to race through *)
(* start().                                                                 *)
EXTENDS AdapterProcess, TLC

CONSTANTS c1, c2, x, y

MCCallers == {c1, c2}
MCArgs == {x, y}
MCSymmetry == Permutations(MCCallers) \cup Permutations(MCArgs)
=============================================================================
