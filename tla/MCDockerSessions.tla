-------------------------- MODULE MCDockerSessions --------------------------
(* TLC instances of DockerSessions.                                        *)
EXTENDS DockerSessions, TLC

MCSymmetry == Permutations(Ids) \cup Permutations(Structs)
                 \cup Permutations(Commands)

=============================================================================
