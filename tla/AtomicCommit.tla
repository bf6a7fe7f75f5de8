---------------------------- MODULE AtomicCommit ----------------------------
(***************************************************************************)
(* What the Proxy promises about one transaction's work on several         *)
(* Burrows: it becomes durable on one of them only when every other Burrow *)
(* that holds some of it has it safely prepared, and from then on none of  *)
(* it is discarded.  TransactionCoordinator implements this.               *)
(***************************************************************************)
CONSTANT Burrows

VARIABLE stage   \* per Burrow: what became of the transaction's work there

Stages == {"none", "working", "prepared", "committed", "aborted"}

Init == stage = [b \in Burrows |-> "none"]

\* The next transaction starts, possibly in the step that ends the last one.
NewTransaction ==
    /\ \A b, c \in Burrows : ~(stage[b] = "working" /\ stage[c] = "committed")
    /\ stage' \in [Burrows -> {"none", "working"}]

\* Work is done, or undone up to a savepoint.
Works(b) == stage[b] \in {"none", "working"} /\ stage'[b] \in {"none", "working"}

\* Work is prepared while nothing of the transaction is lost.
Prepares(b) ==
    /\ stage[b] \in {"none", "working"} /\ stage'[b] = "prepared"
    /\ \A c \in Burrows : stage[c] # "aborted"

\* Work is committed when all the other work is prepared at least.
Commits(b) ==
    /\ stage[b] \in {"working", "prepared"} /\ stage'[b] = "committed"
    /\ \A c \in Burrows \ {b} : stage[c] \in {"none", "prepared", "committed"}

\* Work is discarded when none of it is committed.
Aborts(b) ==
    /\ stage[b] \in {"working", "prepared"} /\ stage'[b] = "aborted"
    /\ \A c \in Burrows : stage[c] # "committed" /\ stage'[c] # "committed"

Proceed ==
    /\ stage' \in [Burrows -> Stages]
    /\ \A b \in Burrows :
         stage'[b] = stage[b] \/ Works(b) \/ Prepares(b) \/ Commits(b) \/ Aborts(b)

Next == NewTransaction \/ Proceed

Spec == Init /\ [][Next]_stage
=============================================================================
