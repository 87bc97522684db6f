---------------------------- MODULE MCTwoCommands ----------------------------
(* TwoCommands for TLC: the processes are interchangeable. *)
EXTENDS TwoCommands
TwiceFOnceG == [f |-> 2, g |-> 1]
Interchangeable == Permutations(Processes)
=============================================================================
