------------------------ MODULE TransactionCoordinator ------------------------
(***************************************************************************)
(* internal/proxy/server.go: one frontend session's explicit transactions  *)
(* and fleet-wide DDL, as the Proxy drives them on its Burrows.            *)
(*                                                                         *)
(* BEGIN, COMMIT, ROLLBACK and savepoint commands are sent to every        *)
(* Burrow; a statement goes to the Burrows it routes to.  A COMMIT with    *)
(* more than one write participant runs commitTwoPhase, whose commands go  *)
(* out one at a time, so failures, a frontend disconnect or a Proxy crash  *)
(* fall between any two of them.                                           *)
(*                                                                         *)
(* A command sent to a Burrow has one of four replies: "ok", "error" (an   *)
(* ErrorResponse), "lost" (the Tunnel broke before PostgreSQL executed     *)
(* it) and "unacked" (executed, but the Tunnel broke before the answer).   *)
(* PostgreSQL itself is external: TxAfter and FateAfter say what a command *)
(* does to the transaction open on one Tunnel.                             *)
(***************************************************************************)
EXTENDS Integers, FiniteSets

CONSTANTS
    Burrows,        \* positions of the Burrow names in sorted order
    TwoPhaseCommit, \* transactions.two_phase_commit
    Faults,         \* what goes wrong around the Proxy in a run
    Client          \* what the application does beyond the ordinary

ASSUME CoordinatorAssumption ==
    /\ Burrows \subseteq Nat
    /\ TwoPhaseCommit \in BOOLEAN
    /\ Faults \subseteq {"transport", "disconnect", "crash"}
    /\ Client \subseteq {"commitAfterError", "beginInTransaction", "chain",
                         "extended", "pin", "unrecorded"}

VARIABLES
    \* extendedState, the session's view
    transaction, transactionFailed, mutated, writeParticipants,
    pinned,         \* sessionAffinity: the session keeps its Tunnels
    copyTargets,    \* the Burrows of the COPY FROM STDIN under way
    \* the running commitTwoPhase
    phase,          \* "ready" between commands, the loop being run, "stuck" or
                    \* "closed"
    via,            \* its caller: "simple", "extended", "ddl"
    members,        \* the burrows argument
    todo,           \* the names the running loop has not reached
    prepared,       \* the prepared slice
    andChain,       \* the COMMIT said AND CHAIN
    \* PostgreSQL, per Burrow
    tx,             \* the session's Tunnel: "idle", "open", "failed", "copying" (left
                    \* waiting for COPY data) or "lost"
    dirty,          \* uncommitted work in the transaction open there
    saved,          \* dirty, as the open savepoint would restore it
    savepoint,      \* is there an open savepoint
    fate,           \* what became of the transaction's work on this Burrow
    \* the client
    answer,         \* the last reply it read
    errored,        \* it read an error in the current transaction
    gone            \* its connection has ended

session == <<transaction, transactionFailed, mutated, writeParticipants>>
commit  == <<via, members, todo, prepared, andChain>>
vars == <<session, pinned, copyTargets, phase, commit, tx, dirty, saved,
          savepoint, fate, answer, errored, gone>>

Replies == {"ok", "error", "lost", "unacked", "unsent"}
Unharmed == [b \in Burrows |-> FALSE]
AllIdle  == [b \in Burrows |-> "idle"]
NoFate   == [b \in Burrows |-> "none"]

TypeOK ==
    /\ transaction \in BOOLEAN /\ transactionFailed \in BOOLEAN
    /\ mutated \in BOOLEAN /\ pinned \in BOOLEAN /\ savepoint \in BOOLEAN
    /\ errored \in BOOLEAN /\ gone \in BOOLEAN
    /\ writeParticipants \in SUBSET Burrows
    /\ copyTargets \in SUBSET Burrows
    /\ phase \in {"ready", "readers", "prepare", "undo", "commit", "stuck", "closed"}
    /\ via \in {"simple", "extended", "ddl"}
    /\ members \in SUBSET Burrows
    /\ todo \in SUBSET Burrows
    /\ prepared \in SUBSET Burrows /\ andChain \in BOOLEAN
    /\ tx \in [Burrows -> {"idle", "open", "failed", "copying", "lost"}]
    /\ dirty \in [Burrows -> BOOLEAN]
    /\ saved \in [Burrows -> BOOLEAN]
    /\ fate \in [Burrows -> {"none", "prepared", "committed", "aborted"}]
    /\ answer \in [what : {"none", "done", "commit", "chain", "rollback", "error",
                           "rolledback", "indoubt"}, status : {"I", "T", "E", "-"}]

Init ==
    /\ transaction = FALSE /\ transactionFailed = FALSE /\ mutated = FALSE
    /\ writeParticipants = {} /\ pinned = FALSE /\ copyTargets = {}
    /\ phase = "ready" /\ via = "simple"
    /\ members = {} /\ todo = {} /\ prepared = {} /\ andChain = FALSE
    /\ tx = AllIdle /\ dirty = Unharmed /\ saved = Unharmed /\ savepoint = FALSE
    /\ fate = NoFate
    /\ answer = [what |-> "none", status |-> "I"]
    /\ errored = FALSE /\ gone = FALSE
-----------------------------------------------------------------------------
(* PostgreSQL: what a command does on one Tunnel.                          *)

\* A Tunnel's work may be cut off by a transport failure, or by the deadline
\* watchCancellation puts on it when the frontend is gone.  A pinned session that
\* lives on after a transport failure reads stale responses from its other
\* Tunnels, which this module does not track: its Tunnels hold while it lasts.
Flaky == ("transport" \in Faults /\ ~pinned) \/ gone

\* The replies command c can have on Burrow b.  A broken Tunnel answers
\* nothing more; an aborted transaction block refuses everything but its end;
\* a COMMIT may fail (a deferred constraint) where there is something to commit.
CanReply(c, chain, b) ==
    LET open == tx[b] = "open"
        sound == IF tx[b] = "copying" THEN {"error"}
                 ELSE IF open /\ (c = "prepare" \/ (c = "commit" /\ dirty[b])) THEN {"ok", "error"}
                 ELSE IF c \in {"commit", "rollback"}
                      THEN IF chain /\ tx[b] = "idle" THEN {"error"} ELSE {"ok"}
                 ELSE IF c = "begin" THEN IF tx[b] = "failed" THEN {"error"} ELSE {"ok"}
                 ELSE IF c = "savepoint" THEN IF open THEN {"ok"} ELSE {"error"}
                 ELSE IF c = "rollback to" THEN IF tx[b] = "idle" THEN {"error"} ELSE {"ok"}
                 ELSE IF c = "statement"
                      THEN IF tx[b] = "failed" THEN {"error"} ELSE {"ok", "error"}
                 ELSE IF c = "commit prepared" /\ fate[b] = "prepared" THEN {"ok", "error"}
                 ELSE IF c = "rollback prepared" /\ fate[b] # "prepared" THEN {"error"}
                 ELSE IF c = "commit prepared" THEN {"error"} ELSE {"ok"}
    IN  IF tx[b] = "lost" THEN {"lost"}
        ELSE sound \cup (IF Flaky THEN {"lost", "unacked"} ELSE {})

Cut(r) == r \in {"lost", "unacked"}

\* COMMIT, ROLLBACK and PREPARE TRANSACTION leave the transaction block, whatever
\* they answer, unless the Burrow is still waiting for COPY data.
Ends(c, b, r) ==
    c \in {"commit", "rollback", "prepare"} /\ r # "unsent" /\ tx[b] # "copying"

\* The state of the transaction block after the reply.
TxAfter(c, chain, b, r) ==
    IF r = "unsent" THEN tx[b]
    ELSE IF Cut(r) THEN "lost"
    ELSE IF Ends(c, b, r)
         THEN IF chain /\ r = "ok" /\ tx[b] # "idle" THEN "open" ELSE "idle"
    ELSE IF r = "error"
         THEN IF tx[b] \in {"open", "copying"} THEN "failed" ELSE tx[b]
    ELSE IF c = "begin" /\ tx[b] = "idle" THEN "open"
    ELSE IF c = "rollback to" THEN "open"
    ELSE tx[b]

\* COMMIT publishes the work of a healthy block and PREPARE TRANSACTION keeps it;
\* a block that is rolled back, aborted or cut off loses it.
FateAfter(c, b, r) ==
    LET done == r \in {"ok", "unacked"}
    IN  IF c = "prepare" /\ tx[b] = "open" /\ done THEN "prepared"
        ELSE IF c = "commit prepared" /\ fate[b] = "prepared" /\ done THEN "committed"
        ELSE IF c = "rollback prepared" /\ fate[b] = "prepared" /\ done THEN "aborted"
        ELSE IF dirty[b] /\ c = "commit" /\ tx[b] = "open" /\ done THEN "committed"
        ELSE IF dirty[b] /\ (Ends(c, b, r) \/ Cut(r)) THEN "aborted"
        ELSE fate[b]

DirtyAfter(c, b, r) ==
    IF Ends(c, b, r) \/ Cut(r) THEN FALSE
    ELSE IF c = "rollback to" /\ r = "ok" THEN saved[b]
    ELSE dirty[b]

\* exchange: the command goes to the Burrows S in order, then the answers are
\* read.  A Tunnel that cannot be acquired or written to ends the loop, so the
\* Burrows after it are not sent the command.
Exchange(S, c, chain) ==
    {r \in [S -> Replies] :
        /\ \A b \in S :
             \/ r[b] \in CanReply(c, chain, b)
             \/ /\ r[b] = "unsent"
                /\ \E a \in S :
                     /\ a <= b
                     /\ r[a] = "lost" \/ (r[a] = "unsent" /\ Flaky /\ tx[a] = "idle")
        /\ \A a, b \in S : a < b /\ r[a] = "unsent" => r[b] = "unsent"}
-----------------------------------------------------------------------------
(* What the handlers share.                                                *)

\* extendedState.txStatus
TxStatus == IF transaction THEN IF transactionFailed THEN "E" ELSE "T" ELSE "I"

\* readyTxStatus: the merged ReadyForQuery of the Burrows S, whose transaction
\* blocks are in the states t: the first one not idle, and "E" when a later one
\* differs from it.
ReadyTxStatus(S, t) ==
    IF \A b \in S : t[b] = "idle" THEN "I"
    ELSE IF \E b \in S :
              /\ t[b] = "open"
              /\ \A c \in S : (c < b => t[c] = "idle") /\ (c > b => t[c] = "open")
         THEN "T" ELSE "E"

\* exchange returned an error instead of the responses.
Broken(S, r) == \E b \in S : r[b] \notin {"ok", "error"}

\* The end of serveQueries' loop body: outside a transaction an unpinned
\* session closes, which resets its idle Tunnels and destroys the others.
Settle(inTx, t, d, f) ==
    IF inTx \/ pinned
    THEN tx' = t /\ dirty' = d /\ fate' = f
    ELSE /\ tx' = AllIdle
         /\ dirty' = Unharmed
         /\ fate' = [b \in Burrows |-> IF d[b] THEN "aborted" ELSE f[b]]

\* The error paths of handleSessionQuery and flushPendingExtended: neither
\* touches the session's transaction state.
Fail(v, S, r, t, d, f) ==
    /\ UNCHANGED session
    /\ Settle(transaction, t, d, f)
    /\ answer' = [what |-> "error",
                  status |-> IF v = "extended" THEN TxStatus
                             ELSE IF Broken(S, r) THEN "I"
                             ELSE ReadyTxStatus(S, t)]
    /\ errored' = transaction

\* A failed handleExecute waits for Sync, and handleSync fails for as long as
\* the session holds a broken Tunnel: no ReadyForQuery, and state.failed stays.
Stuck(v, t) == v = "extended" /\ \E b \in Burrows : t[b] = "lost"

\* The error paths of a transaction command: handleSessionQuery or handleExecute.
FailCommand(v, r, t, d, f) ==
    IF Stuck(v, t)
    THEN /\ phase' = "stuck"
         /\ tx' = t /\ dirty' = d /\ fate' = f
         /\ answer' = [what |-> "error", status |-> "-"]
         /\ errored' = transaction
         /\ UNCHANGED session
    ELSE Fail(v, Burrows, r, t, d, f) /\ phase' = phase

\* What a transaction command does to the fleet when it has the replies r.
Blocks(c, chain, r) == [b \in Burrows |-> TxAfter(c, chain, b, r[b])]
Work(c, r) == [b \in Burrows |-> DirtyAfter(c, b, r[b])]
Fates(c, r) == [b \in Burrows |-> FateAfter(c, b, r[b])]

Ready == phase = "ready" /\ ~gone /\ copyTargets = {}

Speaks(v) == v = "extended" => "extended" \in Client

\* After an error in a transaction an ordinary client sends nothing but ROLLBACK
\* [TO]; others send COMMIT, which ends a PostgreSQL transaction just as well.
MayCommit == ~errored \/ "commitAfterError" \in Client

\* The client has no reason to believe that it is in a transaction.
ToldIdle == ~transaction \/ answer.status = "I"

AllOk(S, r) == \A b \in S : r[b] = "ok"
-----------------------------------------------------------------------------
(* Transaction commands: handleSessionQuery, or Bind and Execute with      *)
(* handleExecute, followed by updateTransactionStatement.                  *)

Begin(v) ==
    /\ Ready /\ Speaks(v)
    /\ ToldIdle \/ (~errored /\ "beginInTransaction" \in Client)
    /\ \E r \in Exchange(Burrows, "begin", FALSE) :
         LET t == Blocks("begin", FALSE, r)
             d == Work("begin", r)
             f == Fates("begin", r)
         IN  IF AllOk(Burrows, r)
             THEN /\ transaction' = TRUE /\ transactionFailed' = FALSE
                  /\ mutated' = FALSE /\ writeParticipants' = {}
                  /\ tx' = t /\ dirty' = d
                  /\ fate' = IF ToldIdle THEN NoFate ELSE f
                  /\ phase' = phase
                  /\ answer' = [what |-> "done", status |-> "T"]
                  /\ errored' = FALSE
             ELSE FailCommand(v, r, t, d, f)
    /\ UNCHANGED <<pinned, copyTargets, commit, saved, savepoint, gone>>

Savepoint(v) ==
    /\ Ready /\ Speaks(v) /\ ~errored
    /\ transaction
    /\ \E r \in Exchange(Burrows, "savepoint", FALSE) :
         LET t == Blocks("savepoint", FALSE, r)
             d == Work("savepoint", r)
             f == Fates("savepoint", r)
         IN  IF AllOk(Burrows, r)
             THEN /\ savepoint' = TRUE /\ saved' = dirty
                  /\ answer' = [what |-> "done", status |-> TxStatus]
                  /\ UNCHANGED <<session, tx, dirty, fate, errored>>
             ELSE /\ Fail(v, Burrows, r, t, d, f)
                  /\ UNCHANGED <<saved, savepoint>>
    /\ UNCHANGED <<pinned, copyTargets, phase, commit, gone>>

RollbackTo(v) ==
    /\ Ready /\ Speaks(v)
    /\ transaction /\ savepoint
    /\ \E r \in Exchange(Burrows, "rollback to", FALSE) :
         LET t == Blocks("rollback to", FALSE, r)
             d == Work("rollback to", r)
             f == Fates("rollback to", r)
         IN  IF AllOk(Burrows, r)
             THEN /\ transactionFailed' = FALSE
                  /\ tx' = t /\ dirty' = d /\ fate' = f
                  /\ phase' = phase
                  /\ answer' = [what |-> "done", status |-> "T"]
                  /\ errored' = FALSE
                  /\ UNCHANGED <<transaction, mutated, writeParticipants>>
             ELSE FailCommand(v, r, t, d, f)
    /\ UNCHANGED <<pinned, copyTargets, commit, saved, savepoint, gone>>

Rollback(v, chain) ==
    /\ Ready /\ Speaks(v)
    /\ transaction /\ (chain => "chain" \in Client)
    /\ \E r \in Exchange(Burrows, "rollback", chain) :
         LET t == Blocks("rollback", chain, r)
             d == Work("rollback", r)
             f == Fates("rollback", r)
         IN  IF AllOk(Burrows, r)
             THEN /\ transaction' = chain /\ transactionFailed' = FALSE
                  /\ mutated' = FALSE /\ writeParticipants' = {}
                  /\ Settle(chain, t, d, IF chain THEN NoFate ELSE f)
                  /\ phase' = phase
                  /\ answer' = [what |-> "rollback", status |-> IF chain THEN "T" ELSE "I"]
                  /\ errored' = FALSE
             ELSE FailCommand(v, r, t, d, f)
    /\ savepoint' = FALSE /\ saved' = Unharmed
    /\ UNCHANGED <<pinned, copyTargets, commit, gone>>

\* Mutant: two participants are not taken for more than one.
NeedsTwoPhaseFromThree(v) ==
    /\ mutated /\ TwoPhaseCommit
    /\ v = "simple" => ~transactionFailed
    /\ \E a, b, c \in writeParticipants : a # b /\ b # c /\ a # c

\* The condition of handleSessionQuery (simple) and handleExecute (extended)
\* for entering commitTwoPhase.
NeedsTwoPhase(v) ==
    /\ mutated /\ TwoPhaseCommit
    /\ v = "simple" => ~transactionFailed
    /\ \E a, b \in writeParticipants : a # b

\* A Burrow whose block had failed answers COMMIT with the tag ROLLBACK.
CommitTag(chain) ==
    IF \A b \in Burrows : tx[b] # "failed" THEN IF chain THEN "chain" ELSE "commit"
    ELSE IF \A b \in Burrows : tx[b] = "failed" THEN "rollback" ELSE "done"

\* COMMIT sent to every Burrow at once.
CommitEverywhere(v, chain) ==
    /\ Ready /\ Speaks(v) /\ MayCommit
    /\ transaction /\ (chain => "chain" \in Client)
    /\ ~NeedsTwoPhase(v)
    /\ \E r \in Exchange(Burrows, "commit", chain) :
         LET t == Blocks("commit", chain, r)
             d == Work("commit", r)
             f == Fates("commit", r)
         IN  IF AllOk(Burrows, r)
             THEN /\ transaction' = chain /\ transactionFailed' = FALSE
                  /\ mutated' = FALSE /\ writeParticipants' = {}
                  /\ Settle(chain, t, d, IF chain THEN NoFate ELSE f)
                  /\ phase' = phase
                  /\ answer' = [what |-> CommitTag(chain), status |-> IF chain THEN "T" ELSE "I"]
                  /\ errored' = FALSE
             ELSE FailCommand(v, r, t, d, f)
    /\ savepoint' = FALSE /\ saved' = Unharmed
    /\ UNCHANGED <<pinned, copyTargets, commit, gone>>
-----------------------------------------------------------------------------
(* Statements.                                                             *)

\* A statement runs on one Burrow or on the whole fleet.
Targets == {{b} : b \in Burrows} \cup {Burrows}

TargetReplies(S) == Exchange(S, "statement", FALSE)

StatementBlocks(S, r) ==
    [b \in Burrows |-> IF b \in S THEN TxAfter("statement", FALSE, b, r[b]) ELSE tx[b]]

\* A write joins the open block; with no block open it commits by itself.
StatementWork(S, r, write) ==
    [b \in Burrows |->
        IF b \notin S THEN dirty[b]
        ELSE IF write /\ r[b] = "ok" /\ tx[b] = "open" THEN TRUE
        ELSE DirtyAfter("statement", b, r[b])]
StatementFates(S, r, write) ==
    [b \in Burrows |->
        IF b \notin S THEN fate[b]
        ELSE IF write /\ transaction /\ tx[b] = "idle" /\ r[b] \in {"ok", "unacked"}
             THEN "committed"
        ELSE FateAfter("statement", b, r[b])]

\* A statement reads, writes or is DDL.  A write that begins with another keyword
\* (WITH, EXPLAIN ANALYZE, EXECUTE, CALL, SELECT of a function that writes) and DDL
\* on a single Burrow are "unrecorded".
Kinds == {"read", "write"} \cup (Client \cap {"unrecorded"})
Writes(kind) == kind # "read"

\* recordWriteParticipants goes by the first keyword, and by the kinds of DDL that
\* requiresFleetWriteOrder knows.
Recorded(kind) == kind = "write"

\* A statement inside the transaction.
Statement(v, S, kind) ==
    /\ Ready /\ Speaks(v) /\ ~errored
    /\ transaction
    /\ \E r \in TargetReplies(S) :
         LET t == StatementBlocks(S, r)
             d == StatementWork(S, r, Writes(kind))
             f == StatementFates(S, r, Writes(kind))
         IN  IF AllOk(S, r)
             THEN /\ writeParticipants' = writeParticipants \cup (IF Recorded(kind) THEN S ELSE {})
                  /\ mutated' = (mutated \/ Recorded(kind))
                  /\ tx' = t /\ dirty' = d /\ fate' = f
                  /\ answer' = [what |-> "done", status |-> TxStatus]
                  /\ UNCHANGED <<transaction, transactionFailed, errored>>
             ELSE Fail(v, S, r, t, d, f)
    /\ UNCHANGED <<pinned, copyTargets, phase, commit, saved, savepoint, gone>>

\* A write outside a transaction, routed to one Burrow.
Autocommit(v, b) ==
    /\ Ready /\ Speaks(v)
    /\ ~transaction
    /\ \E r \in TargetReplies({b}) :
         LET t == StatementBlocks({b}, r)
             d == StatementWork({b}, r, TRUE)
             f == StatementFates({b}, r, TRUE)
         IN  IF AllOk({b}, r)
             THEN /\ Settle(FALSE, t, d, f)
                  /\ answer' = [what |-> "done", status |-> "I"]
                  /\ UNCHANGED <<session, errored>>
             ELSE Fail(v, {b}, r, t, d, f)
    /\ UNCHANGED <<pinned, copyTargets, phase, commit, saved, savepoint, gone>>

\* When only some Burrows accept the COPY, nothing tells those to give it up.
CopyBlocks(S, r) ==
    [b \in Burrows |-> IF b \in S /\ r[b] = "ok" /\ ~AllOk(S, r) THEN "copying"
                       ELSE StatementBlocks(S, r)[b]]

\* handleCopyQuery in a transaction: the participants are recorded when the
\* Burrows enter copy-in mode, before any row is accepted.
CopyQuery(S) ==
    /\ Ready /\ ~errored
    /\ transaction
    /\ \E r \in TargetReplies(S) :
         /\ tx' = CopyBlocks(S, r)
         /\ dirty' = StatementWork(S, r, FALSE)
         /\ fate' = StatementFates(S, r, FALSE)
         /\ IF AllOk(S, r)
            THEN /\ copyTargets' = S
                 /\ writeParticipants' = writeParticipants \cup S
                 /\ mutated' = TRUE
                 /\ answer' = [what |-> "done", status |-> TxStatus]
                 /\ UNCHANGED <<transactionFailed, errored>>
            ELSE /\ transactionFailed' = TRUE
                 /\ answer' = [what |-> "error", status |-> "E"]
                 /\ errored' = TRUE
                 /\ UNCHANGED <<copyTargets, writeParticipants, mutated>>
    /\ UNCHANGED <<transaction, pinned, phase, commit, saved, savepoint, gone>>

\* The end of the stream: handleCopyCompletion, or abortCopy, after which no
\* Burrow has accepted it.
CopyEnd ==
    /\ phase = "ready" /\ ~gone
    /\ copyTargets # {}
    /\ \E r \in TargetReplies(copyTargets) :
         /\ tx' = StatementBlocks(copyTargets, r)
         /\ dirty' = StatementWork(copyTargets, r, TRUE)
         /\ fate' = StatementFates(copyTargets, r, TRUE)
         /\ transactionFailed' = (transactionFailed \/ ~AllOk(copyTargets, r))
         /\ errored' = (errored \/ ~AllOk(copyTargets, r))
         /\ answer' = IF AllOk(copyTargets, r)
                      THEN [what |-> "done", status |-> TxStatus]
                      ELSE [what |-> "error", status |-> "E"]
    /\ copyTargets' = {}
    /\ UNCHANGED <<transaction, mutated, writeParticipants, pinned, phase, commit,
                   saved, savepoint, gone>>
-----------------------------------------------------------------------------
(* commitTwoPhase, one command at a time.                                  *)

StartTwoPhase(v, S, chain) ==
    /\ via' = v /\ members' = S /\ prepared' = {} /\ andChain' = chain
    /\ IF S = Burrows THEN phase' = "prepare" /\ todo' = S
                      ELSE phase' = "readers" /\ todo' = Burrows \ S

\* handleTwoPhaseCommit, and the same path in handleExecute.
CommitTwoPhase(v, chain) ==
    /\ Ready /\ Speaks(v) /\ MayCommit
    /\ transaction /\ (chain => "chain" \in Client)
    /\ NeedsTwoPhase(v)
    /\ StartTwoPhase(v, writeParticipants, chain)
    /\ savepoint' = FALSE /\ saved' = Unharmed
    /\ UNCHANGED <<session, pinned, copyTargets, tx, dirty, fate, answer, errored, gone>>

\* commitTwoPhase returns, and its caller finishes the transaction.  A failure
\* ends it for a simple COMMIT only.
Return(what, t, d, f) ==
    LET ok   == what = "commit"
        held == transaction /\ via = "extended" /\ ~ok
    IN  /\ phase' = IF held /\ Stuck(via, t) THEN "stuck" ELSE "ready"
        /\ via' = "simple" /\ members' = {} /\ todo' = {} /\ prepared' = {}
        /\ andChain' = FALSE
        /\ transaction' = held
        /\ writeParticipants' = IF held THEN writeParticipants ELSE {}
        /\ mutated' = (mutated /\ (~ok \/ via = "ddl"))
        /\ Settle(held, t, d, f)
        /\ answer' = [what |-> IF ok /\ andChain THEN "chain" ELSE what,
                      status |-> IF ~held THEN "I"
                                 ELSE IF Stuck(via, t) THEN "-" ELSE TxStatus]
        /\ errored' = held
        /\ UNCHANGED <<transactionFailed, pinned, copyTargets, saved, savepoint, gone>>

\* The loops visit the Burrows in the order of their names.
First(b) == b \in todo /\ \A c \in todo : b <= c

\* The loop goes on, or gives way to the next one.
Continue(p, S, t, d, f) ==
    /\ phase' = p /\ todo' = S
    /\ tx' = t /\ dirty' = d /\ fate' = f
    /\ UNCHANGED <<session, pinned, copyTargets, via, members, andChain, saved,
                   savepoint, answer, errored, gone>>

\* Command c of commitTwoPhase on Burrow b has the reply r.
After(c, b, r) ==
    [t |-> [tx EXCEPT ![b] = TxAfter(c, FALSE, b, r)],
     d |-> [dirty EXCEPT ![b] = DirtyAfter(c, b, r)],
     f |-> [fate EXCEPT ![b] = FateAfter(c, b, r)]]

\* ROLLBACK on a Burrow the transaction did not write to.  A failure returns at
\* once, before any participant is touched.
EndReader(b) ==
    /\ phase = "readers" /\ First(b)
    /\ \E r \in CanReply("rollback", FALSE, b) :
         LET x == After("rollback", b, r)
         IN  IF r # "ok" THEN Return("error", x.t, x.d, x.f)
             ELSE /\ IF todo = {b} THEN Continue("prepare", members, x.t, x.d, x.f)
                     ELSE Continue("readers", todo \ {b}, x.t, x.d, x.f)
                  /\ UNCHANGED prepared

\* Mutant: the commit loop starts after the first participant is prepared.
PrepareFirst(b) ==
    /\ phase = "prepare" /\ First(b)
    /\ \E r \in CanReply("prepare", FALSE, b) :
         LET x == After("prepare", b, r)
         IN  IF r # "ok"
             THEN Continue("undo", members, x.t, x.d, x.f) /\ UNCHANGED prepared
             ELSE /\ prepared' = prepared \cup {b}
                  /\ Continue("commit", members, x.t, x.d, x.f)

\* PREPARE TRANSACTION.  An aborted block answers it with the tag ROLLBACK, which
\* is not an error.
Prepare(b) ==
    /\ phase = "prepare" /\ First(b)
    /\ \E r \in CanReply("prepare", FALSE, b) :
         LET x == After("prepare", b, r)
         IN  IF r # "ok"
             THEN Continue("undo", members, x.t, x.d, x.f) /\ UNCHANGED prepared
             ELSE /\ prepared' = prepared \cup {b}
                  /\ IF todo = {b} THEN Continue("commit", members, x.t, x.d, x.f)
                     ELSE Continue("prepare", todo \ {b}, x.t, x.d, x.f)

\* Mutant: participants that were not prepared are not rolled back.
UndoPrepared(b) ==
    /\ phase = "undo" /\ First(b)
    /\ \E r \in IF b \in prepared THEN CanReply("rollback prepared", FALSE, b) ELSE {"unsent"} :
         LET x == After("rollback prepared", b, r)
         IN  IF todo = {b} THEN Return("rolledback", x.t, x.d, x.f)
             ELSE Continue("undo", todo \ {b}, x.t, x.d, x.f) /\ UNCHANGED prepared

\* Mutant: a failed ROLLBACK is tried again.
UndoRetries(b) ==
    /\ phase = "undo" /\ First(b)
    /\ LET c == IF b \in prepared THEN "rollback prepared" ELSE "rollback"
       IN  \E r \in CanReply(c, FALSE, b) :
             LET x == After(c, b, r)
             IN  IF r = "ok" /\ todo = {b} THEN Return("rolledback", x.t, x.d, x.f)
                 ELSE /\ Continue("undo", IF r = "ok" THEN todo \ {b} ELSE todo, x.t, x.d, x.f)
                      /\ UNCHANGED prepared

\* After a failed preparation: ROLLBACK PREPARED or ROLLBACK, whatever they answer.
Undo(b) ==
    /\ phase = "undo" /\ First(b)
    /\ LET c == IF b \in prepared THEN "rollback prepared" ELSE "rollback"
       IN  \E r \in CanReply(c, FALSE, b) :
             LET x == After(c, b, r)
             IN  IF todo = {b} THEN Return("rolledback", x.t, x.d, x.f)
                 ELSE Continue("undo", todo \ {b}, x.t, x.d, x.f) /\ UNCHANGED prepared

\* Mutant: a failure does not end the loop.
CommitPreparedRegardless(b) ==
    /\ phase = "commit" /\ First(b)
    /\ \E r \in CanReply("commit prepared", FALSE, b) :
         LET x == After("commit prepared", b, r)
         IN  IF todo = {b} THEN Return("commit", x.t, x.d, x.f)
             ELSE Continue("commit", todo \ {b}, x.t, x.d, x.f) /\ UNCHANGED prepared

\* COMMIT PREPARED.  The first failure ends the loop with SQLSTATE 40003.
CommitPrepared(b) ==
    /\ phase = "commit" /\ First(b)
    /\ \E r \in CanReply("commit prepared", FALSE, b) :
         LET x == After("commit prepared", b, r)
         IN  IF r # "ok" THEN Return("indoubt", x.t, x.d, x.f)
             ELSE IF todo = {b} THEN Return("commit", x.t, x.d, x.f)
             ELSE Continue("commit", todo \ {b}, x.t, x.d, x.f) /\ UNCHANGED prepared
-----------------------------------------------------------------------------
(* Fleet-wide DDL outside a transaction.                                   *)

FleetDDLAllowed == TwoPhaseCommit /\ \E a, b \in Burrows : a # b

\* beginAtomicFleetDDL and the statement succeed; commitAtomicFleetDDL runs next.
FleetDDL(v) ==
    /\ Ready /\ Speaks(v)
    /\ ~transaction /\ FleetDDLAllowed
    /\ \A b \in Burrows : tx[b] \in {"idle", "open"}
    /\ tx' = [b \in Burrows |-> "open"]
    /\ dirty' = [b \in Burrows |-> TRUE]
    /\ fate' = NoFate
    /\ StartTwoPhase("ddl", Burrows, FALSE)
    /\ UNCHANGED <<session, pinned, copyTargets, saved, savepoint, answer, errored, gone>>

\* rollbackAtomicFleetDDL, best effort, on Burrow b where BEGIN had succeeded.
Undone(b, s) == tx[b] \in {"idle", "open"} /\ (s = "idle" \/ (Flaky /\ s = "lost"))

\* BEGIN fails on Burrow b, or the statement fails on some Burrow.
FleetDDLFailed(v) ==
    /\ Ready /\ Speaks(v)
    /\ ~transaction /\ FleetDDLAllowed
    /\ \E t \in [Burrows -> {"idle", "open", "failed", "copying", "lost"}] :
         LET d == [b \in Burrows |-> dirty[b] /\ t[b] = tx[b]]
         IN  /\ \/ \A b \in Burrows : Undone(b, t[b])
                \/ \E b \in Burrows :
                     /\ \A c \in Burrows : c < b => Undone(c, t[c])
                     /\ \/ tx[b] \in {"failed", "lost"} /\ t[b] = tx[b]
                        \/ tx[b] = "copying" /\ t[b] = "failed"
                        \/ Flaky /\ t[b] = "lost"
                        \/ Flaky /\ tx[b] = "idle" /\ t[b] = "idle"
                     /\ \A c \in Burrows : c > b => t[c] = tx[c]
             /\ Settle(FALSE, t, d, [b \in Burrows |->
                                IF dirty[b] /\ ~d[b] THEN "aborted" ELSE fate[b]])
    /\ answer' = [what |-> "error", status |-> "I"]
    /\ UNCHANGED <<session, pinned, copyTargets, phase, commit, saved, savepoint,
                   errored, gone>>
-----------------------------------------------------------------------------
(* Session affinity, and the end of the session.                           *)

\* A statement with session-local effect (SET, LISTEN, a temporary table).
Pin ==
    /\ Ready /\ "pin" \in Client
    /\ ~pinned /\ ~errored
    /\ \A b \in Burrows : tx[b] # "lost"
    /\ pinned' = TRUE
    /\ UNCHANGED <<session, copyTargets, phase, commit, tx, dirty, saved, savepoint,
                   fate, answer, errored, gone>>

\* The session is over: Close resets or destroys its Tunnels, or PostgreSQL
\* notices that they are gone.  A prepared transaction stays.
EndSession ==
    /\ transaction' = FALSE /\ transactionFailed' = FALSE /\ mutated' = FALSE
    /\ writeParticipants' = {} /\ pinned' = FALSE /\ copyTargets' = {}
    /\ phase' = "closed" /\ via' = "simple"
    /\ members' = {} /\ todo' = {} /\ prepared' = {} /\ andChain' = FALSE
    /\ tx' = AllIdle /\ dirty' = Unharmed /\ saved' = Unharmed /\ savepoint' = FALSE
    /\ fate' = [b \in Burrows |-> IF dirty[b] THEN "aborted" ELSE fate[b]]
    /\ answer' = [what |-> "none", status |-> "I"]
    /\ errored' = FALSE /\ gone' = FALSE

\* Mutant: a session that waits for Sync does not notice the end of its connection.
LeaveReady == phase = "ready" /\ EndSession

\* Terminate, or the connection ends between two commands.
Leave == phase \in {"ready", "stuck"} /\ EndSession

\* The frontend connection ends while commitTwoPhase runs: the session context
\* is cancelled under it.
Disconnect ==
    /\ "disconnect" \in Faults
    /\ phase \in {"readers", "prepare", "undo", "commit"} /\ ~gone
    /\ gone' = TRUE
    /\ UNCHANGED <<session, pinned, copyTargets, phase, commit, tx, dirty, saved,
                   savepoint, fate, answer, errored>>

\* The Proxy process dies.
Crash == "crash" \in Faults /\ phase # "closed" /\ EndSession

\* A new frontend session.
Connect ==
    /\ phase = "closed"
    /\ phase' = "ready" /\ fate' = NoFate
    /\ UNCHANGED <<session, pinned, copyTargets, commit, tx, dirty, saved, savepoint,
                   answer, errored, gone>>

Coordinate == \E b \in Burrows :
    EndReader(b) \/ Prepare(b) \/ Undo(b) \/ CommitPrepared(b)

Next ==
    \/ \E v \in {"simple", "extended"} :
         \/ Begin(v) \/ Savepoint(v) \/ RollbackTo(v)
         \/ FleetDDL(v) \/ FleetDDLFailed(v)
         \/ \E chain \in BOOLEAN :
              Rollback(v, chain) \/ CommitEverywhere(v, chain) \/ CommitTwoPhase(v, chain)
         \/ \E S \in Targets, kind \in Kinds : Statement(v, S, kind)
         \/ \E b \in Burrows : Autocommit(v, b)
    \/ \E S \in Targets : CopyQuery(S)
    \/ CopyEnd
    \/ Coordinate
    \/ Pin \/ Leave \/ Disconnect \/ Crash \/ Connect

Spec == Init /\ [][Next]_vars

\* The session's goroutine runs until the handler returns, every command ending
\* with an answer or a broken Tunnel; once the frontend is gone it returns from
\* serveQueries.
Fairness == WF_vars(Coordinate) /\ WF_vars(gone /\ Leave)

FairSpec == Spec /\ Fairness
-----------------------------------------------------------------------------
(* Correctness.                                                            *)

\* Two-phase commit makes the outcome of a transaction atomic: its work is
\* never durable on one Burrow and discarded on another, at any moment of
\* commitTwoPhase, whatever fails, disconnects or crashes.  The code has it for
\* transactions whose writes recordWriteParticipants sees: with the client
\* "unrecorded", commitTwoPhase rolls back as a reader a Burrow that was written to.
NeverMixed ==
    \A a, b \in Burrows : ~(fate[a] = "committed" /\ fate[b] = "aborted")

\* What a client whose writes are recorded is told of its COMMIT is true.  After COMMIT its work is durable
\* everywhere: nothing discarded, left prepared or still uncommitted on any Burrow.
\* After a failed preparation nothing of it has been published (commitTwoPhase).
CommitAnswerIsTrue ==
    phase = "ready" =>
      /\ answer.what = "commit" /\ ~transaction
         => \A b \in Burrows : fate[b] \in {"none", "committed"} /\ ~dirty[b]
      /\ answer.what = "rolledback" => \A b \in Burrows : fate[b] # "committed"

\* A client that is told ROLLBACK has nothing of its transaction published, nor
\* still waiting to be.
RollbackUndoes ==
    answer.what = "rollback" /\ phase = "ready"
    => \A b \in Burrows : fate[b] \in {"none", "aborted"} /\ ~dirty[b]

\* Between two commands outside a transaction, no Tunnel of the session still
\* holds a transaction block open.
NoLeftoverBlock ==
    Ready /\ ~transaction => \A b \in Burrows : tx[b] = "idle"

\* ReadyForQuery reports PostgreSQL's transaction state: a client told "idle"
\* has no transaction, and one told "in transaction" has one on every Burrow
\* whose Tunnel still works.
StatusIsTruthful ==
    Ready => /\ answer.status = "I" => ~transaction
             /\ answer.status = "T" => \A b \in Burrows : tx[b] \in {"open", "lost"}

\* Every Sync is answered with ReadyForQuery.
SyncIsAnswered == answer.status # "-"

\* AND CHAIN starts the next transaction at once.
ChainContinues == answer.what = "chain" /\ phase = "ready" => answer.status = "T"

\* A preparation failure is rolled back: when the client is told, no Burrow
\* still holds the transaction prepared.
NothingLeftPrepared ==
    answer.what = "rolledback" /\ phase = "ready"
    => \A b \in Burrows : fate[b] # "prepared"

\* The detailed commit implements the abstract one: the first Burrow commits
\* only when all the other work is prepared, and nothing is discarded after it.
Stage == [b \in Burrows |-> IF fate[b] # "none" THEN fate[b]
                            ELSE IF dirty[b] THEN "working" ELSE "none"]

AC == INSTANCE AtomicCommit WITH stage <- Stage

ImplementsAtomicCommit == AC!Spec

-----------------------------------------------------------------------------
(* The inductive invariant behind NeverMixed, for clients that neither     *)
(* commit after an error nor nest BEGIN, and whose writes the Proxy records *)
(* as such.                                                                *)

Disciplined ==
    /\ TwoPhaseCommit
    /\ {"commitAfterError", "beginInTransaction", "unrecorded"} \cap Client = {}

\* Uncommitted work lives in a transaction block.
WorkInBlocks == \A b \in Burrows : dirty[b] => tx[b] \in {"open", "failed", "copying"}

\* Once anything is committed there is nothing left to lose.
Decided ==
    \A b \in Burrows : fate[b] = "committed"
        => \A c \in Burrows : ~dirty[c] /\ fate[c] # "aborted"

\* A Tunnel breaks only when something breaks it.
NoLoss == ~Flaky => \A b \in Burrows : tx[b] # "lost"

\* Outside a transaction the Tunnels are idle.
Quiet ==
    phase = "ready" /\ ~transaction /\ ~gone
    => \A b \in Burrows : tx[b] = "idle" /\ ~dirty[b]

\* In a transaction without errors, every Burrow has a healthy block and the
\* session knows every Burrow with work.
Working ==
    phase = "ready" /\ transaction /\ ~errored
    => /\ ~transactionFailed
       /\ writeParticipants # {} => mutated
       /\ \A b \in Burrows : /\ tx[b] = "open" /\ fate[b] = "none"
                             /\ dirty[b] => b \in writeParticipants

\* A savepoint restores such a transaction.
Restorable ==
    /\ ~transaction => ~savepoint
    /\ phase = "ready" /\ savepoint
       => /\ writeParticipants # {} => mutated
          /\ \A b \in Burrows : /\ tx[b] # "idle" /\ fate[b] \in {"none", "aborted"}
                                /\ tx[b] # "lost" => fate[b] = "none"
                                /\ saved[b] => b \in writeParticipants

\* A client that wrongly believes its transaction is over finds no work of it
\* when it starts the next one.
Forgotten ==
    /\ phase = "ready" /\ transaction
    /\ answer.status = "I" \/ \E b \in Burrows : tx[b] = "idle"
    /\ \A b \in Burrows : tx[b] # "lost"
    => ~savepoint /\ \A b \in Burrows : tx[b] = "open" => ~dirty[b]

\* A COPY runs in a transaction without errors.
Copying ==
    copyTargets # {}
    => /\ phase = "ready" /\ transaction /\ ~errored /\ ~gone
       /\ copyTargets \subseteq writeParticipants

\* The loops of commitTwoPhase.
Committing ==
    /\ phase \in {"readers", "prepare", "undo", "commit"}
       => ~savepoint /\ (transaction <=> via # "ddl")
    /\ phase = "readers"
       => /\ prepared = {} /\ todo \cap members = {}
          /\ \A b \in Burrows :
               /\ fate[b] = "none"
               /\ b \notin members => ~dirty[b]
               /\ tx[b] = IF b \in members \cup todo THEN "open" ELSE "idle"
    /\ phase = "prepare"
       => \A b \in Burrows :
            /\ b \in todo => b \in members
            /\ b \in prepared <=> b \in members \ todo
            /\ tx[b] = IF b \in todo THEN "open" ELSE "idle"
            /\ b \notin todo => ~dirty[b]
            /\ fate[b] = IF b \in prepared THEN "prepared" ELSE "none"
    /\ phase = "undo"
       => \A b \in Burrows :
            /\ fate[b] # "committed"
            /\ tx[b] \in {"open", "idle", "lost"}
            /\ b \notin todo \/ b \in prepared => tx[b] # "open" /\ ~dirty[b]
    /\ phase = "commit"
       => \A b \in Burrows :
            /\ ~dirty[b] /\ tx[b] = "idle"
            /\ b \in todo => fate[b] = "prepared"
            /\ fate[b] # "aborted"

\* Between two sessions nothing is left of the first.
Closed ==
    phase = "closed"
    => /\ ~transaction /\ ~savepoint /\ ~gone /\ copyTargets = {}
       /\ \A b \in Burrows : tx[b] = "idle" /\ ~dirty[b]

IInv ==
    /\ TypeOK /\ (pinned => "pin" \in Client) /\ Closed
    /\ WorkInBlocks /\ Decided /\ NoLoss /\ Quiet /\ Working /\ Restorable
    /\ Forgotten /\ Copying /\ Committing

\* What CommitAnswerIsTrue needs besides: the Burrows that the commit loop has
\* passed are committed, and a new client has not been told anything.
Told ==
    /\ CommitAnswerIsTrue
    /\ phase = "commit" => \A b \in Burrows \ todo : fate[b] \in {"none", "committed"}
    /\ phase = "closed" => answer.what = "none"
-----------------------------------------------------------------------------
(* Progress.                                                               *)

\* When the frontend goes away during commitTwoPhase, the session ends, with
\* its Tunnels released.
AbandonedSessionEnds == gone ~> phase = "closed"

\* commitTwoPhase returns.
CommitReturns ==
    phase \in {"readers", "prepare", "undo", "commit"}
    ~> phase \in {"ready", "stuck", "closed"}
=============================================================================
