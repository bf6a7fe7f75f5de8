---------------------------- MODULE MCTunnelPool ----------------------------
(* One Burrow, two connections, one canonical statement and two frontends:   *)
(* one sends every command, the other has a startup parameter and a smaller   *)
(* vocabulary.  Connections are never told apart, so they are symmetric.      *)
EXTENDS TunnelPool, TLC

CONSTANTS plain, dressed

StartupValues == [s \in {plain, dressed} |-> IF s = dressed THEN 1 ELSE 0]

CommandSets ==
    [s \in {plain, dressed} |->
       IF s = plain THEN Commands \cup {"execute"}
                    ELSE {"query", "begin", "rollback", "set", "discardAll", "execute"}]

Symmetry == Permutations(Conns)

=============================================================================
