--------------------------- MODULE SchemaBarrier ---------------------------
(***************************************************************************)
(* How the sessions of one Proxy keep its routing registry up with the     *)
(* DDL they commit: the pending flag and the mutex of                      *)
(* internal/proxy/server.go (schemaRefreshPending, schemaRefreshMu), the   *)
(* gate that serialises fleet DDL and the bounded Tunnel pools of          *)
(* internal/backend/backend.go (fleetWriteGate, shard.pool).               *)
(*                                                                         *)
(* A schema is a version: fleet is what the Burrows have committed,        *)
(* routing what Manager.schema was built from.  A session takes its        *)
(* Tunnels on all Burrows in one fixed order, so one pool stands for the   *)
(* scarcest.  Two-phase commit is TransactionCoordinator's; here it is     *)
(* the outcomes it can have.                                               *)
(***************************************************************************)
EXTENDS Integers, FiniteSets

CONSTANTS
    Sessions,       \* frontend connections of the Proxy
    PoolSize,       \* backend_pool.max_connections
    FleetOrdered,   \* whether there are two Burrows or more
    MaxDDL,         \* bound on schema changes
    None            \* nobody holds the mutex or the gate

ASSUME BarrierAssumption ==
    /\ PoolSize \in Nat \ {0}
    /\ FleetOrdered \in BOOLEAN
    /\ MaxDDL \in Nat
    /\ None \notin Sessions

VARIABLES
    schemaRefreshPending,
    schemaRefreshMu,    \* the session that holds it, or None
    fleetWriteGate,     \* the session that took its token, or None
    fleet,              \* schema version committed on the Burrows
    doubt,              \* a fleet DDL left prepared on all Burrows or on some
    outOfBand,          \* history: an operator committed it behind the Proxy
    routing,            \* schema version of Manager.schema
    tunnels,            \* the sessions that hold Tunnels
    pc, message,        \* per session: where its goroutine is, and in what
    transaction, schemaDirty,
    loaded,             \* what a session's RefreshSchema read
    arrived             \* history: fleet when the message in hand came

server == <<schemaRefreshPending, schemaRefreshMu, fleetWriteGate, routing, tunnels>>
burrows == <<fleet, doubt, outOfBand>>
session == <<pc, message, transaction, schemaDirty, loaded, arrived>>
vars == <<server, burrows, session>>

Messages == {"statement", "ddl", "begin", "commit", "chain", "rollback"}

\* Points of a session's goroutine.  "barrier" and "publish" wait for the mutex
\* in refreshSchemaIfPending, before the message is handled and after its DDL;
\* "reload" and "republish" run RefreshSchema for them.  "schemaCommit" waits in
\* beginSchemaCommit and "committing" holds the mutex over the physical commit.
Points == {"idle", "barrier", "reload", "handle", "gate", "acquire", "exec",
           "schemaCommit", "committing", "publish", "republish"}
Refreshing == {"reload", "republish"}
Unread == -1
Mismatch == -2

TypeOK ==
    /\ schemaRefreshPending \in BOOLEAN
    /\ schemaRefreshMu \in Sessions \cup {None}
    /\ fleetWriteGate \in Sessions \cup {None}
    /\ fleet \in Nat /\ routing \in Nat
    /\ doubt \in {"none", "unapplied", "split"}
    /\ outOfBand \in BOOLEAN
    /\ tunnels \subseteq Sessions
    /\ pc \in [Sessions -> Points]
    /\ message \in [Sessions -> Messages \cup {"none"}]
    /\ transaction \in [Sessions -> BOOLEAN]
    /\ schemaDirty \in [Sessions -> BOOLEAN]
    /\ loaded \in [Sessions -> Nat \cup {Unread, Mismatch}]
    /\ arrived \in [Sessions -> Nat]

Init ==
    /\ schemaRefreshPending = FALSE /\ schemaRefreshMu = None
    /\ fleetWriteGate = None /\ tunnels = {}
    /\ fleet = 0 /\ routing = 0 /\ doubt = "none" /\ outOfBand = FALSE
    /\ pc = [s \in Sessions |-> "idle"]
    /\ message = [s \in Sessions |-> "none"]
    /\ transaction = [s \in Sessions |-> FALSE]
    /\ schemaDirty = [s \in Sessions |-> FALSE]
    /\ loaded = [s \in Sessions |-> Unread]
    /\ arrived = [s \in Sessions |-> 0]

Goto(s, point) == pc' = [pc EXCEPT ![s] = point]

\* Session.UnlockFleetWrites: gives the token back if s has it.
GateWithout(s) == IF fleetWriteGate = s THEN None ELSE fleetWriteGate

\* Mutant: the gate is unlocked after every message.
AnsweredUnlocks(s, inTransaction) ==
    /\ Goto(s, "idle")
    /\ message' = [message EXCEPT ![s] = "none"]
    /\ arrived' = [arrived EXCEPT ![s] = 0]
    /\ fleetWriteGate' = GateWithout(s)
    /\ tunnels' = IF inTransaction THEN tunnels ELSE tunnels \ {s}

\* The message is answered.  Outside a transaction the serve loop then closes
\* the session: its Tunnels go back to the pool and the gate is unlocked.
Answered(s, inTransaction) ==
    /\ Goto(s, "idle")
    /\ message' = [message EXCEPT ![s] = "none"]
    /\ arrived' = [arrived EXCEPT ![s] = 0]
    /\ IF inTransaction
         THEN UNCHANGED <<tunnels, fleetWriteGate>>
         ELSE tunnels' = tunnels \ {s} /\ fleetWriteGate' = GateWithout(s)

-----------------------------------------------------------------------------
(* serveQueries: a message arrives and meets the barrier. *)

Offered(s) == IF transaction[s] THEN Messages \ {"begin"}
                                ELSE {"statement", "ddl", "begin"}

\* Mutant: a message of an open transaction passes without looking at the flag.
ReceiveUnchecked(s, m) ==
    /\ pc[s] = "idle"
    /\ m \in Offered(s)
    /\ message' = [message EXCEPT ![s] = m]
    /\ arrived' = [arrived EXCEPT ![s] = fleet]
    /\ schemaRefreshPending' = (schemaRefreshPending \/ (schemaDirty[s] /\ ~transaction[s]))
    /\ Goto(s, IF schemaRefreshPending' /\ ~transaction[s] THEN "barrier" ELSE "handle")
    /\ UNCHANGED <<schemaRefreshMu, fleetWriteGate, routing, tunnels, burrows,
                   transaction, schemaDirty, loaded>>

Receive(s, m) ==
    /\ pc[s] = "idle"
    /\ m \in Offered(s)
    /\ message' = [message EXCEPT ![s] = m]
    /\ arrived' = [arrived EXCEPT ![s] = fleet]
    /\ LET localSchemaRefresh == schemaDirty[s] /\ ~transaction[s]
       IN  /\ schemaRefreshPending' = (schemaRefreshPending \/ localSchemaRefresh)
           /\ Goto(s, IF schemaRefreshPending' THEN "barrier" ELSE "handle")
    /\ UNCHANGED <<schemaRefreshMu, fleetWriteGate, routing, tunnels, burrows,
                   transaction, schemaDirty, loaded>>

\* Where refreshSchemaIfPending returns to without an error.  After the DDL the
\* message is answered; schemaDirty is cleared by both callers, except at the
\* barrier of a session whose transaction is open.
Refreshed(s) ==
    /\ schemaDirty' = [schemaDirty EXCEPT ![s] = @ /\ transaction[s]]
    /\ IF pc[s] \in {"barrier", "reload"}
         THEN Goto(s, "handle") /\ UNCHANGED <<tunnels, fleetWriteGate, message, arrived>>
         ELSE Answered(s, transaction[s])

\* schemaRefreshMu.Lock and the second look at the flag.
LockRefresh(s) ==
    /\ pc[s] \in {"barrier", "publish"}
    /\ schemaRefreshMu = None
    /\ IF schemaRefreshPending
         THEN /\ schemaRefreshMu' = s
              /\ Goto(s, IF pc[s] = "barrier" THEN "reload" ELSE "republish")
              /\ UNCHANGED <<schemaDirty, tunnels, fleetWriteGate, message, arrived>>
         ELSE Refreshed(s) /\ UNCHANGED schemaRefreshMu
    /\ UNCHANGED <<schemaRefreshPending, routing, burrows, transaction, loaded>>

\* loadSchema queries every Burrow through its pool; the refresh has no session
\* and so needs a connection besides those the sessions hold.
LoadSchema(s) ==
    /\ pc[s] \in Refreshing
    /\ loaded[s] = Unread
    /\ Cardinality(tunnels) < PoolSize
    /\ loaded' = [loaded EXCEPT ![s] = IF doubt = "split" THEN Mismatch ELSE fleet]
    /\ UNCHANGED <<server, burrows, pc, message, transaction, schemaDirty, arrived>>

\* Nest accepts the registry, and Manager.schema is replaced.
FinishRefresh(s) ==
    /\ pc[s] \in Refreshing
    /\ loaded[s] \in Nat
    /\ routing' = loaded[s]
    /\ schemaRefreshPending' = FALSE
    /\ schemaRefreshMu' = None
    /\ loaded' = [loaded EXCEPT ![s] = Unread]
    /\ Refreshed(s)
    /\ UNCHANGED <<burrows, transaction>>

\* Mutant: a failed refresh returns with the mutex.
FailRefreshKeepsMutex(s) ==
    /\ pc[s] \in Refreshing
    /\ loaded[s] # Unread
    /\ loaded' = [loaded EXCEPT ![s] = Unread]
    /\ Answered(s, transaction[s])
    /\ UNCHANGED <<schemaRefreshPending, schemaRefreshMu, routing, burrows,
                   transaction, schemaDirty>>

\* A Burrow or Nest failed the refresh, or the Burrows disagree: the message is
\* refused with 55000 and the flag stays up.
FailRefresh(s) ==
    /\ pc[s] \in Refreshing
    /\ loaded[s] # Unread
    /\ schemaRefreshMu' = None
    /\ loaded' = [loaded EXCEPT ![s] = Unread]
    /\ Answered(s, transaction[s])
    /\ UNCHANGED <<schemaRefreshPending, routing, burrows, transaction, schemaDirty>>

-----------------------------------------------------------------------------
(* handleSessionQuery, flushPendingExtended and handleQuery. *)

\* Commits that publish DDL of this session, and autocommitted DDL, wait for
\* the mutex before they reach a Burrow; with several Burrows autocommitted DDL
\* first runs inside a transaction of its own.
CommitsSchema(s) ==
    \/ message[s] \in {"commit", "chain"} /\ transaction[s] /\ schemaDirty[s]
    \/ message[s] = "ddl" /\ ~transaction[s]

\* The registry is read, then the gate is taken for fleet DDL.
Handle(s) ==
    /\ pc[s] = "handle"
    /\ arrived' = [arrived EXCEPT ![s] = 0]
    /\ Goto(s, IF message[s] = "ddl" /\ FleetOrdered /\ fleetWriteGate # s THEN "gate"
               ELSE IF CommitsSchema(s) /\ ~(message[s] = "ddl" /\ FleetOrdered) THEN "schemaCommit"
               ELSE "acquire")
    /\ UNCHANGED <<server, burrows, message, transaction, schemaDirty, loaded>>

LockFleetWrites(s) ==
    /\ pc[s] = "gate"
    /\ fleetWriteGate = None
    /\ fleetWriteGate' = s
    /\ Goto(s, "acquire")
    /\ UNCHANGED <<schemaRefreshPending, schemaRefreshMu, routing, tunnels, burrows,
                   message, transaction, schemaDirty, loaded, arrived>>

\* Session.acquire, or the pooled query of handleQuery: a Tunnel already held is used.
Acquire(s) ==
    /\ pc[s] = "acquire"
    /\ s \in tunnels \/ Cardinality(tunnels) < PoolSize
    /\ tunnels' = tunnels \cup {s}
    /\ Goto(s, IF schemaRefreshMu = s THEN "committing" ELSE "exec")
    /\ UNCHANGED <<schemaRefreshPending, schemaRefreshMu, fleetWriteGate, routing, burrows,
                   message, transaction, schemaDirty, loaded, arrived>>

\* The Burrows answer the statement; DDL dirties the transaction it ran in.
Execute(s) ==
    /\ pc[s] = "exec"
    /\ ~CommitsSchema(s)
    /\ LET now == CASE message[s] = "begin" -> TRUE
                    [] message[s] \in {"commit", "rollback"} -> FALSE
                    [] OTHER -> transaction[s]
       IN  /\ transaction' = [transaction EXCEPT ![s] = now]
           /\ schemaDirty' = [schemaDirty EXCEPT ![s] =
                IF message[s] = "ddl" THEN TRUE ELSE @ /\ message[s] # "rollback"]
           /\ Answered(s, now)
    /\ UNCHANGED <<schemaRefreshPending, schemaRefreshMu, routing, burrows, loaded>>

\* A Burrow refuses the statement; autocommitted DDL is rolled back.  COMMIT and
\* ROLLBACK of a transaction without DDL are left to TransactionCoordinator.
ExecuteFails(s) ==
    /\ pc[s] = "exec"
    /\ message[s] \in {"statement", "ddl", "begin"}
    /\ Answered(s, transaction[s])
    /\ UNCHANGED <<schemaRefreshPending, schemaRefreshMu, routing, burrows,
                   transaction, schemaDirty, loaded>>

\* The autocommitted fleet DDL has run on every Burrow and goes to commit.
ExecuteFleetDDL(s) ==
    /\ pc[s] = "exec"
    /\ CommitsSchema(s)
    /\ Goto(s, "schemaCommit")
    /\ UNCHANGED <<server, burrows, message, transaction, schemaDirty, loaded, arrived>>

\* Mutant: the flag is left to refreshSchemaAfterDDL.
BeginSchemaCommitUnmarked(s) ==
    /\ pc[s] = "schemaCommit"
    /\ schemaRefreshMu = None
    /\ schemaRefreshMu' = s
    /\ Goto(s, IF s \in tunnels THEN "committing" ELSE "acquire")
    /\ UNCHANGED <<schemaRefreshPending, fleetWriteGate, routing, tunnels, burrows,
                   message, transaction, schemaDirty, loaded, arrived>>

BeginSchemaCommit(s) ==
    /\ pc[s] = "schemaCommit"
    /\ schemaRefreshMu = None
    /\ schemaRefreshMu' = s
    /\ schemaRefreshPending' = TRUE
    /\ Goto(s, IF s \in tunnels THEN "committing" ELSE "acquire")
    /\ UNCHANGED <<fleetWriteGate, routing, tunnels, burrows,
                   message, transaction, schemaDirty, loaded, arrived>>

\* The schema after a commit took effect: DDL may turn out to change nothing.
\* MaxDDL leaves room for the one in doubt.
MayChange == fleet + (IF doubt = "none" THEN 0 ELSE 1) < MaxDDL
Applied == {fleet} \cup (IF MayChange THEN {fleet + 1} ELSE {})

\* The physical commit succeeds and the mutex is released.  A chained COMMIT on
\* one Burrow stays in a transaction and skips the refresh; the coordinator of
\* several Burrows ignores AND CHAIN.
CommitSchema(s) ==
    /\ pc[s] = "committing"
    /\ fleet' \in Applied
    /\ schemaRefreshMu' = None
    /\ schemaDirty' = [schemaDirty EXCEPT ![s] = TRUE]
    /\ LET chained == message[s] = "chain" /\ ~FleetOrdered
       IN  /\ transaction' = [transaction EXCEPT ![s] = chained]
           /\ IF chained
                THEN Answered(s, TRUE)
                ELSE Goto(s, "publish") /\ UNCHANGED <<tunnels, fleetWriteGate, message, arrived>>
    /\ UNCHANGED <<schemaRefreshPending, routing, doubt, outOfBand, loaded>>

\* The commit fails or its answer is lost: it took no effect, took effect all
\* the same, or left the DDL prepared on every Burrow or on some.  schemaDirty stays
\* as it was.  A simple COMMIT in two phases leaves the transaction; an extended one,
\* and COMMIT of a single Burrow, do not touch the session's transaction state.
CommitSchemaFails(s) ==
    /\ pc[s] = "committing"
    /\ \/ fleet' \in Applied /\ UNCHANGED doubt
       \/ /\ FleetOrdered /\ doubt = "none" /\ MayChange
          /\ doubt' \in {"unapplied", "split"} /\ UNCHANGED fleet
    /\ schemaRefreshMu' = None
    /\ \E held \in {transaction[s]} \cup (IF FleetOrdered THEN {FALSE} ELSE {}) :
         transaction' = [transaction EXCEPT ![s] = held] /\ Answered(s, held)
    /\ UNCHANGED <<schemaRefreshPending, routing, outOfBand, schemaDirty, loaded>>

-----------------------------------------------------------------------------

\* The frontend goes away: noticed while the session reads its socket, waits
\* for the gate or waits for a Tunnel, all under the session's context.
Disconnect(s) ==
    /\ pc[s] \in {"idle", "gate", "acquire"}
    /\ schemaRefreshMu' = (IF schemaRefreshMu = s THEN None ELSE schemaRefreshMu)
    /\ transaction' = [transaction EXCEPT ![s] = FALSE]
    /\ schemaDirty' = [schemaDirty EXCEPT ![s] = FALSE]
    /\ Answered(s, FALSE)
    /\ UNCHANGED <<schemaRefreshPending, routing, burrows, loaded>>

\* An operator finishes the prepared DDL by hand; once a Burrow has committed
\* it, only committing it makes the Burrows agree.
OperatorResolves ==
    /\ doubt # "none"
    /\ doubt' = "none"
    /\ \/ /\ fleet' = fleet + 1
          /\ outOfBand' = (outOfBand \/ doubt = "unapplied")
       \/ doubt = "unapplied" /\ UNCHANGED <<fleet, outOfBand>>
    /\ UNCHANGED <<server, session>>

Step(s) ==
    \/ LockRefresh(s) \/ LoadSchema(s) \/ FinishRefresh(s) \/ FailRefresh(s)
    \/ Handle(s) \/ LockFleetWrites(s) \/ Acquire(s)
    \/ Execute(s) \/ ExecuteFails(s) \/ ExecuteFleetDDL(s)
    \/ BeginSchemaCommit(s) \/ CommitSchema(s) \/ CommitSchemaFails(s)

Next ==
    \/ \E s \in Sessions : Step(s) \/ Disconnect(s) \/ \E m \in Messages : Receive(s, m)
    \/ OperatorResolves

Spec == Init /\ [][Next]_vars

\* Clients end their transactions: by COMMIT or ROLLBACK, or by leaving when that
\* fails again and again.
EndTransaction(s) ==
    /\ transaction[s]
    /\ Step(s) \/ (pc[s] = "idle" /\ Disconnect(s))
    /\ ~transaction'[s]

\* Sessions go on: Go's mutex and channels and the pool serve their waiters in
\* turn, so a wait that is over again and again ends.  Burrows and Nest do not
\* fail every refresh, and operators act.
Fairness ==
    /\ \A s \in Sessions : /\ SF_vars(Step(s))
                          /\ SF_vars(EndTransaction(s))
                          /\ SF_vars(FinishRefresh(s))
    /\ WF_vars(OperatorResolves)

FairSpec == Spec /\ Fairness

-----------------------------------------------------------------------------
(* Properties *)

\* Whenever the Burrows have a schema the Proxy does not route by, the flag is
\* up, so that no message passes the barrier: beginSchemaCommit raises it before
\* the commit, and only a refresh that saw that commit lowers it.  Stated for
\* the Proxy's own DDL: an operator may commit prepared DDL behind its back.
StaleRoutingIsFenced ==
    routing # fleet /\ ~outOfBand => schemaRefreshPending

\* A message about to be routed is routed by a schema at least as new as the one
\* committed when it arrived, in or outside a transaction, whoever committed it.
RoutesFresh ==
    ~outOfBand => \A s \in Sessions : pc[s] = "handle" => arrived[s] <= routing

\* s has uncommitted DDL on the Burrows or is about to.
OpenDDL(s) ==
    \/ transaction[s] /\ schemaDirty[s]
    \/ message[s] = "ddl" /\ pc[s] \in {"acquire", "exec", "schemaCommit", "committing"}

\* With several Burrows, only one session at a time has uncommitted DDL, so all
\* Burrows see schema changes in one order (LockFleetWrites).
FleetDDLIsSerial ==
    FleetOrdered => \A s, t \in Sessions : OpenDDL(s) /\ OpenDDL(t) => s = t

\* The same promise as StaleRoutingIsFenced without the exception: once the
\* Burrows agree on DDL sent through the Proxy, however its commit ended, the
\* Proxy routes by it or knows that it must refresh.
DDLNeverMissed == routing # fleet => schemaRefreshPending

\* Every message is answered.
MessagesAnswered == \A s \in Sessions : pc[s] # "idle" ~> pc[s] = "idle"

\* DDL that succeeded on the Burrows is followed by a refresh that ends.
DDLIsPublished ==
    \A s \in Sessions : pc[s] \in {"publish", "republish"} ~> pc[s] = "idle"

-----------------------------------------------------------------------------
(* The inductive invariant behind these properties. *)

\* Who holds the mutex, and that the flag is up while it is held.
Mutex ==
    /\ \A s \in Sessions :
         /\ pc[s] \in Refreshing \cup {"committing"} => schemaRefreshMu = s
         /\ schemaRefreshMu = s =>
              pc[s] \in Refreshing \cup {"committing", "acquire"}
         /\ loaded[s] # Unread => pc[s] \in Refreshing
    /\ schemaRefreshMu # None => schemaRefreshPending

\* A refresh under way has seen every commit, and none is split between Burrows
\* without the flag.
Fenced ==
    /\ doubt = "split" => schemaRefreshPending
    /\ StaleRoutingIsFenced
    /\ routing <= fleet
    /\ \A s \in Sessions : loaded[s] \in Nat =>
         /\ doubt # "split" /\ routing <= loaded[s] /\ loaded[s] <= fleet
         /\ outOfBand \/ loaded[s] = fleet

Fresh ==
    /\ RoutesFresh
    /\ \A s \in Sessions : arrived[s] <= fleet

\* Uncommitted fleet DDL goes with the gate, and a message that has passed the
\* barrier does not find the session dirty outside a transaction.
Gated ==
    /\ FleetOrdered => \A s \in Sessions : OpenDDL(s) => fleetWriteGate = s
    /\ \A s \in Sessions :
         /\ pc[s] \in {"handle", "gate", "acquire", "exec", "schemaCommit", "committing"}
         /\ schemaDirty[s]
         => transaction[s]

IInv == TypeOK /\ Mutex /\ Fenced /\ Fresh /\ Gated
=============================================================================
