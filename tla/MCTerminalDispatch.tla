------------------------ MODULE MCTerminalDispatch ------------------------
(* Finite instances of TerminalDispatch.                                   *)
EXTENDS TerminalDispatch, TLC

MCSymmetry == Permutations(Requests) \cup Permutations(Conns)
                \cup Permutations(Nodes) \cup Permutations(Sessions)

=============================================================================
