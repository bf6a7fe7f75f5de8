---------------------------- MODULE SequenceStore ----------------------------
(***************************************************************************)
(* internal/nest/sequence.go: the fleet-wide generated-key sequence.       *)
(*                                                                         *)
(* SequenceStore.Next is an optimistic loop over two Nest (etcd) requests: *)
(* a range read and a compare-and-swap transaction.  A request travels     *)
(* apart from its caller: the caller may stop waiting (an HTTP error, a    *)
(* cancelled context) while the transaction is still on its way to etcd,   *)
(* so it can be applied after Next has returned an error, or its answer    *)
(* can be lost after it was applied.                                       *)
(*                                                                         *)
(* Data kept: the decimal value of the key, its mod_revision and whether   *)
(* it exists.  JSON and base64 framing is left out.                        *)
(***************************************************************************)
EXTENDS Integers, Sequences

CONSTANTS
    Callers,        \* concurrent Next calls, of one Proxy or of several
    MaxAttempts,    \* 64 in the code
    MaxID,          \* the largest int64 in the code
    MaxOtherWrites, \* bound: writes of other Nest keys
    NoValue, NoRequest

ASSUME SequenceAssumption ==
    /\ MaxAttempts \in Nat \ {0}
    /\ MaxID \in Nat
    /\ MaxOtherWrites \in Nat
    /\ NoValue \notin Int

VARIABLES
    kv,         \* the key in etcd: does it exist, its value and mod_revision
    revision,   \* etcd's cluster-wide revision, advanced by every write
    pc,         \* where the caller is in Next
    seen,       \* what the caller's last read returned
    attempts,   \* completed failed attempts of the running call
    request,    \* the caller's transaction on its way to etcd, or NoRequest
    answer,     \* what etcd answered: "none", "succeeded", "conflict"
    orphans,    \* transactions nobody waits for any more
    returned,   \* history: the values Next returned, in order
    start       \* history: the value of the key when the running call began

etcdVars == <<kv, revision>>
callVars == <<pc, seen, attempts>>
netVars  == <<request, answer, orphans>>
vars == <<etcdVars, callVars, netVars, returned, start>>

\* A swap names the revision it read (VERSION = 0 when the key was absent).
Request == [found : BOOLEAN, revision : Nat, next : Nat]
Key == [found : BOOLEAN, value : Nat, mod : Nat]

TypeOK ==
    /\ kv \in Key
    /\ revision \in Nat
    /\ pc \in [Callers -> {"idle", "read", "check", "wait"}]
    /\ seen \in [Callers -> [found : BOOLEAN, current : Nat, revision : Nat]]
    /\ attempts \in [Callers -> Nat]
    /\ request \in [Callers -> Request \cup {NoRequest}]
    /\ answer \in [Callers -> {"none", "succeeded", "conflict"}]
    /\ orphans \in SUBSET Request
    /\ returned \in Seq(Nat)
    /\ start \in [Callers -> Nat]

Init ==
    /\ kv = [found |-> FALSE, value |-> 0, mod |-> 0]
    /\ revision = 1
    /\ pc = [c \in Callers |-> "idle"]
    /\ seen = [c \in Callers |-> [found |-> FALSE, current |-> 0, revision |-> 0]]
    /\ attempts = [c \in Callers |-> 0]
    /\ request = [c \in Callers |-> NoRequest]
    /\ answer = [c \in Callers |-> "none"]
    /\ orphans = {}
    /\ returned = << >>
    /\ start = [c \in Callers |-> 0]
-----------------------------------------------------------------------------
\* Manager.NextGlobalID enters the loop of Next.
Call(c) ==
    /\ pc[c] = "idle"
    /\ pc' = [pc EXCEPT ![c] = "read"]
    /\ attempts' = [attempts EXCEPT ![c] = 0]
    /\ start' = [start EXCEPT ![c] = kv.value]
    /\ UNCHANGED <<etcdVars, seen, netVars, returned>>

\* Mutant: the cluster's revision is taken for the key's.
ReadHeader(c) ==
    /\ pc[c] = "read"
    /\ seen' = [seen EXCEPT ![c] =
                  [found |-> kv.found, current |-> kv.value, revision |-> revision]]
    /\ pc' = [pc EXCEPT ![c] = "check"]
    /\ UNCHANGED <<etcdVars, attempts, netVars, returned, start>>

\* s.read: an absent key reads as value 0, revision 0, found = false.
Read(c) ==
    /\ pc[c] = "read"
    /\ seen' = [seen EXCEPT ![c] =
                  [found |-> kv.found, current |-> kv.value, revision |-> kv.mod]]
    /\ pc' = [pc EXCEPT ![c] = "check"]
    /\ UNCHANGED <<etcdVars, attempts, netVars, returned, start>>

\* s.read fails, or the sequence is exhausted: Next returns an error.
GiveUp(c) ==
    /\ \/ pc[c] = "read"
       \/ pc[c] = "check" /\ seen[c].current = MaxID
    /\ pc' = [pc EXCEPT ![c] = "idle"]
    /\ UNCHANGED <<etcdVars, seen, attempts, netVars, returned, start>>

\* Mutant: the transaction skips a value.
SwapSkips(c) ==
    /\ pc[c] = "check"
    /\ seen[c].current # MaxID
    /\ request' = [request EXCEPT ![c] =
                     [found |-> seen[c].found, revision |-> seen[c].revision,
                      next |-> seen[c].current + 2]]
    /\ answer' = [answer EXCEPT ![c] = "none"]
    /\ pc' = [pc EXCEPT ![c] = "wait"]
    /\ UNCHANGED <<etcdVars, seen, attempts, orphans, returned, start>>

\* s.swap sends its transaction.
Swap(c) ==
    /\ pc[c] = "check"
    /\ seen[c].current # MaxID
    /\ request' = [request EXCEPT ![c] =
                     [found |-> seen[c].found, revision |-> seen[c].revision,
                      next |-> seen[c].current + 1]]
    /\ answer' = [answer EXCEPT ![c] = "none"]
    /\ pc' = [pc EXCEPT ![c] = "wait"]
    /\ UNCHANGED <<etcdVars, seen, attempts, orphans, returned, start>>

\* Mutants: the compare asks only whether the key exists, or nothing.
MatchesExistence(r) == r.found = kv.found
MatchesAnything(r) == TRUE

\* The compare of the transaction: MOD = revision, or VERSION = 0.
Matches(r) == IF r.found THEN kv.found /\ kv.mod = r.revision ELSE ~kv.found

\* etcd executes a transaction atomically.
Apply(r) ==
    IF Matches(r)
    THEN /\ revision' = revision + 1
         /\ kv' = [found |-> TRUE, value |-> r.next, mod |-> revision']
    ELSE UNCHANGED etcdVars

EtcdTxn(c) ==
    /\ request[c] # NoRequest
    /\ Apply(request[c])
    /\ answer' = [answer EXCEPT ![c] =
                    IF Matches(request[c]) THEN "succeeded" ELSE "conflict"]
    /\ request' = [request EXCEPT ![c] = NoRequest]
    /\ UNCHANGED <<callVars, orphans, returned, start>>

\* A transaction whose caller is gone reaches etcd after all.
EtcdOrphanTxn(r) ==
    /\ Apply(r)
    /\ orphans' = orphans \ {r}
    /\ UNCHANGED <<callVars, request, answer, returned, start>>

\* The registry and topology keys share etcd's revision counter.
OtherKeyWrite ==
    /\ revision - kv.value <= MaxOtherWrites
    /\ revision' = revision + 1
    /\ UNCHANGED <<kv, callVars, netVars, returned, start>>

\* Mutant: a conflict is answered by the same transaction again.
ReceiveSpins(c) ==
    /\ pc[c] = "wait"
    /\ answer[c] # "none"
    /\ answer' = [answer EXCEPT ![c] = "none"]
    /\ IF answer[c] = "succeeded"
       THEN /\ returned' = Append(returned, seen[c].current + 1)
            /\ pc' = [pc EXCEPT ![c] = "idle"]
       ELSE pc' = [pc EXCEPT ![c] = "check"] /\ UNCHANGED returned
    /\ UNCHANGED <<etcdVars, seen, attempts, request, orphans, start>>

\* The answer arrives: return the value, try again, or report contention.
Receive(c) ==
    /\ pc[c] = "wait"
    /\ answer[c] # "none"
    /\ answer' = [answer EXCEPT ![c] = "none"]
    /\ IF answer[c] = "succeeded"
       THEN /\ returned' = Append(returned, seen[c].current + 1)
            /\ pc' = [pc EXCEPT ![c] = "idle"]
            /\ UNCHANGED attempts
       ELSE /\ attempts' = [attempts EXCEPT ![c] = @ + 1]
            /\ pc' = [pc EXCEPT ![c] =
                        IF attempts'[c] < MaxAttempts THEN "read" ELSE "idle"]
            /\ UNCHANGED returned
    /\ UNCHANGED <<etcdVars, seen, request, orphans, start>>

\* s.swap returns an error while the transaction or its answer is under way.
Abandon(c) ==
    /\ pc[c] = "wait"
    /\ pc' = [pc EXCEPT ![c] = "idle"]
    /\ orphans' = IF request[c] = NoRequest THEN orphans ELSE orphans \cup {request[c]}
    /\ request' = [request EXCEPT ![c] = NoRequest]
    /\ answer' = [answer EXCEPT ![c] = "none"]
    /\ UNCHANGED <<etcdVars, seen, attempts, returned, start>>

CallerStep(c) == Call(c) \/ Read(c) \/ GiveUp(c) \/ Swap(c) \/ Receive(c) \/ Abandon(c)

Next ==
    \/ OtherKeyWrite
    \/ \E c \in Callers : CallerStep(c) \/ EtcdTxn(c)
    \/ \E r \in orphans : EtcdOrphanTxn(r)

\* A running call is executed by a live goroutine and etcd answers.
Fairness ==
    /\ \A c \in Callers : /\ WF_vars(Read(c) \/ GiveUp(c))
                          /\ WF_vars(Swap(c))
                          /\ WF_vars(Receive(c))
                          /\ WF_vars(EtcdTxn(c))

Spec == Init /\ [][Next]_vars
FairSpec == Spec /\ Fairness
-----------------------------------------------------------------------------
\* "an allocated value is never returned twice" (sequence.go:15): no two
\* returns of Next, by whichever callers, carry the same value, even when
\* answers are lost and abandoned transactions are applied late.
NeverReturnedTwice ==
    \A i, j \in DOMAIN returned : i # j => returned[i] # returned[j]

\* "strictly increasing" across calls that do not overlap: the value a call
\* is about to return is above every value the key had when the call began,
\* hence above everything returned before it began.
AboveCallStart ==
    \A c \in Callers : answer[c] = "succeeded" => seen[c].current + 1 > start[c]

\* A failed compare-and-swap costs an attempt only when somebody else advanced
\* the sequence in between, so "too much concurrent contention" is reported
\* only after MaxAttempts other allocations during this one call.
ContentionIsReal ==
    \A c \in Callers :
        pc[c] # "idle" => kv.value >= start[c] + attempts[c]
                                      + (IF answer[c] = "conflict" THEN 1 ELSE 0)

\* Every call of Next ends, with a value or an error.
CallsEnd == \A c \in Callers : pc[c] # "idle" ~> pc[c] = "idle"

\* The value a caller owns from the transaction that allocated it.
Held == [c \in Callers |->
           IF answer[c] = "succeeded" THEN seen[c].current + 1 ELSE NoValue]

Abstract == INSTANCE GlobalSequence WITH last <- kv.value, held <- Held

\* Next implements the atomic sequence.
ImplementsGlobalSequence == Abstract!AbsSpec
-----------------------------------------------------------------------------
(* The inductive invariant behind these properties.                        *)

\* What a reader or a transaction r knows: it is either current, and then the
\* key has the value v, or the key has moved past v since.
Knows(r, v) ==
    /\ r.revision <= revision
    /\ ~r.found => v = 0
    /\ IF Matches(r) THEN kv.value = v ELSE kv.value > v

\* Each transaction under way, waited for or not, asks for the successor of what
\* its caller read.
Faithful ==
    /\ kv.mod <= revision
    /\ ~kv.found => kv.value = 0
    /\ kv.value <= MaxID
    /\ \A c \in Callers :
         /\ pc[c] = "read" => kv.value >= start[c] + attempts[c]
         /\ pc[c] \in {"check", "wait"} =>
              /\ Knows(seen[c], seen[c].current)
              /\ seen[c].current >= start[c] + attempts[c]
         /\ pc[c] = "wait" => seen[c].current < MaxID
         /\ request[c] # NoRequest =>
              /\ pc[c] = "wait" /\ answer[c] = "none"
              /\ request[c] = [found |-> seen[c].found, revision |-> seen[c].revision,
                               next |-> seen[c].current + 1]
         /\ answer[c] # "none" => pc[c] = "wait" /\ kv.value > seen[c].current
    /\ \A r \in orphans : Knows(r, r.next - 1) /\ r.next \in 1..MaxID

\* A value has one owner: the caller it was allocated to, or the caller it was
\* returned to.
OneOwner ==
    /\ NeverReturnedTwice
    /\ \A i \in DOMAIN returned : returned[i] <= kv.value
    /\ \A c \in Callers : answer[c] = "succeeded" =>
         /\ \A i \in DOMAIN returned : returned[i] # seen[c].current + 1
         /\ \A e \in Callers : e # c /\ answer[e] = "succeeded" =>
                                 seen[e].current # seen[c].current

IInv == TypeOK /\ Faithful /\ OneOwner
=============================================================================
