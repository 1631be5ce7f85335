------------------------ MODULE MCWorkerConnection ------------------------
EXTENDS WorkerConnection, TLC

CONSTANTS c1, c2, d1, d2

\* Every policy with every kind of worker; or the one setup whose console may
\* dispatch from the start of a session and whose worker counts its slots.
MCAllSetups == {"reject", "replace"} \X {"docker", "sys"}
MCOneSetup  == {<<"replace", "sys">>}
MCSymmetry  == Permutations(Conns) \cup Permutations(Commands)
=============================================================================
