------------------------ MODULE MCExtendedProtocol ------------------------
(* Instances of ExtendedProtocol: two Burrows, a routed write, a scattered *)
(* read and ROLLBACK.                                                      *)
EXTENDS ExtendedProtocol

MCBurrows == {1, 2}
MCStatements == {"write", "read", "rollback"}
MCRoute == [q \in Statements |-> IF q = "write" THEN {2} ELSE {1, 2}]
=============================================================================
