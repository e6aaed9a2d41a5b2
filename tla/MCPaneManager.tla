---------------------------- MODULE MCPaneManager ----------------------------
(* Small instances of PaneManager for TLC. *)
EXTENDS PaneManager, TLC

\* Workers and object addresses are interchangeable.
Symmetry == Permutations(Workers) \cup Permutations(Ref)

\* What is left in the heap at an address nobody refers to cannot be read.
View == <<panes, order, nextPaneID, stateFile, tmp, call, torn,
          [r \in ObjectsInUse |-> heap[r]]>>

================================================================================
