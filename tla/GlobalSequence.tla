--------------------------- MODULE GlobalSequence ---------------------------
(***************************************************************************)
(* What nest.SequenceStore promises to the callers of Manager.NextGlobalID *)
(* (internal/nest/sequence.go:13-15): one shared sequence whose allocation *)
(* is a single atomic step.  An allocated value may be thrown away (a gap) *)
(* but is handed to at most one caller.                                    *)
(***************************************************************************)
EXTENDS Naturals, Sequences

CONSTANTS Callers, MaxID, NoValue

VARIABLES
    last,       \* the highest value allocated so far
    held,       \* held[c]: the value allocated to c's running call, or NoValue
    returned    \* the values handed to callers, in the order of the returns

absVars == <<last, held, returned>>

AbsInit ==
    /\ last = 0
    /\ held = [c \in Callers |-> NoValue]
    /\ returned = << >>

\* The sequence advances by one and the new value belongs to one caller.
Allocate(c) ==
    /\ held[c] = NoValue
    /\ last < MaxID
    /\ last' = last + 1
    /\ held' = [held EXCEPT ![c] = last']
    /\ UNCHANGED returned

\* The sequence advances and nobody will ever see the value.
Skip ==
    /\ last < MaxID
    /\ last' = last + 1
    /\ UNCHANGED <<held, returned>>

\* The caller receives the value allocated to it.
Hand(c) ==
    /\ held[c] # NoValue
    /\ returned' = Append(returned, held[c])
    /\ held' = [held EXCEPT ![c] = NoValue]
    /\ UNCHANGED last

\* The answer to the caller is lost: its value becomes a gap.
Forget(c) ==
    /\ held[c] # NoValue
    /\ held' = [held EXCEPT ![c] = NoValue]
    /\ UNCHANGED <<last, returned>>

AbsNext == Skip \/ \E c \in Callers : Allocate(c) \/ Hand(c) \/ Forget(c)

AbsSpec == AbsInit /\ [][AbsNext]_absVars
=============================================================================
