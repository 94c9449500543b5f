--------------------------- MODULE MC_ContextControl ---------------------------
(* ContextControl with its CStates, local states and window pointers as   *)
(* symmetric model values.                                                 *)
EXTENDS ContextControl, TLC

Symm == Permutations(RemoteStates) \cup Permutations(LocalStates) \cup Permutations(Pages)

=============================================================================
