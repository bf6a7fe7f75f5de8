----------------------------- MODULE TunnelPool -----------------------------
(***************************************************************************)
(* One Burrow's pool of physical connections and the frontend sessions     *)
(* that are multiplexed over it: Session.acquire, Close and the prepared-  *)
(* statement cache of backend.go, and the session-state policy of          *)
(* server.go that decides whether a session keeps, resets or destroys its  *)
(* connection.                                                             *)
(*                                                                         *)
(* PostgreSQL is external.  A connection carries one setting, "objects"    *)
(* (notifications, temporary tables, cursors, advisory locks), SQL         *)
(* prepared statements, canonical statements of the Proxy, process-local   *)
(* effects and a transaction block.  `ideal` is the connection each        *)
(* frontend would have if it had PostgreSQL to itself.                     *)
(***************************************************************************)
EXTENDS Naturals, FiniteSets

CONSTANTS
    Sessions, Conns, Statements,
    Startup,     \* session -> the value its startup packet gives the setting, 0 for none
    Uses,        \* session -> the commands its frontend sends
    Client,      \* "resetAll": RESET ALL with session objects; "reset": RESET of a startup
                 \* parameter; "deallocate": DEALLOCATE ALL without a session
    Faults,      \* of "error", "acquire", "reset", "disconnect"
    Unknown, None

\* What a frontend may send: SQL commands by their effect, and the Execute of a statement.
Commands == {"query", "begin", "commit", "rollback", "set", "reset", "resetAll", "discardAll",
             "create", "prepare", "do", "deallocate"}
Requests == [command : Commands] \cup [command : {"execute"}, statement : Statements]

ASSUME PoolAssumption ==
    /\ Startup \in [Sessions -> {0, 1, 2}]
    /\ Client \subseteq {"resetAll", "reset", "deallocate"}
    /\ Faults \subseteq {"error", "acquire", "reset", "disconnect"}
    /\ \A known \in SUBSET Statements : Unknown # known
    /\ None \notin Conns \cup {"set", "reset"} /\ \A r \in Requests : None # r

VARIABLES
    pg,          \* connection -> the state of its PostgreSQL session
    prepared,    \* Manager.prepared: connection -> Unknown, or the canonical statements
    conn,        \* session -> the connection it has checked out
    state,       \* session -> extendedState: transaction, affinity, destroy, ...
    request,     \* session -> the message in hand, None between messages
    ideal        \* session -> the frontend's own PostgreSQL session

vars == <<pg, prepared, conn, state, request, ideal>>

Fresh(startup) == [guc |-> startup, objects |-> FALSE, native |-> FALSE, loaded |-> FALSE,
                   canonical |-> {}, block |-> "I", saved |-> 0]

NewState == [transaction |-> FALSE, affinity |-> FALSE, destroy |-> FALSE,
             discardPrepared |-> FALSE, settings |-> None]

Init ==
    /\ pg = [c \in Conns |-> Fresh(0)]
    /\ prepared = [c \in Conns |-> Unknown]
    /\ conn = [s \in Sessions |-> None]
    /\ state = [s \in Sessions |-> NewState]
    /\ request = [s \in Sessions |-> None]
    /\ ideal = [s \in Sessions |-> Fresh(Startup[s])]

Idle == {c \in Conns : \A s \in Sessions : conn[s] # c}

-----------------------------------------------------------------------------
(* PostgreSQL *)

Ended(p) == [p EXCEPT !.block = "I", !.saved = 0]
Aborted(p) == Ended([p EXCEPT !.guc = p.saved])

\* A command that succeeds; `base` is the value RESET goes back to.
Executed(p, command, base) ==
    CASE command = "begin"      -> IF p.block = "I" THEN [p EXCEPT !.block = "T", !.saved = p.guc] ELSE p
      [] command = "commit"     -> IF p.block = "E" THEN Aborted(p) ELSE Ended(p)
      [] command = "rollback"   -> IF p.block = "I" THEN p ELSE Aborted(p)
      [] command = "set"        -> [p EXCEPT !.guc = 2]
      [] command = "reset"      -> [p EXCEPT !.guc = base]
      [] command = "resetAll"   -> [p EXCEPT !.guc = base]
      [] command = "discardAll" -> [p EXCEPT !.guc = base, !.objects = FALSE, !.native = FALSE, !.canonical = {}]
      [] command = "create"     -> [p EXCEPT !.objects = TRUE]
      [] command = "prepare"    -> [p EXCEPT !.native = TRUE]
      [] command = "do"         -> [p EXCEPT !.loaded = TRUE]
      [] command = "deallocate" -> [p EXCEPT !.native = FALSE, !.canonical = {}]
      [] OTHER                  -> p

\* Whether PostgreSQL accepts a command: in a failed block only its end, DISCARD ALL
\* in no block, SQL PREPARE of a name that is free.
Accepts(p, command) ==
    /\ p.block = "E" => command \in {"commit", "rollback"}
    /\ command = "discardAll" => p.block = "I"
    /\ command = "prepare" => ~p.native

Erred(p) == IF p.block = "I" THEN p ELSE [p EXCEPT !.block = "E"]

-----------------------------------------------------------------------------
(* Session-state policy: classifySessionState *)

Policy(command, transaction) ==
    LET settings == command \in {"set", "reset", "resetAll", "discardAll"}
    IN  [requiresBackend |-> settings \/ command \in {"create", "prepare", "do"},
         pin |-> command \in {"create", "prepare", "do"} \/ (transaction /\ settings),
         destroy |-> command = "do",
         discardPrepared |-> command = "prepare",
         resetAll |-> ~transaction /\ command \in {"resetAll", "discardAll"},
         replay |-> ~transaction /\ command \in {"set", "reset"}]

BeginSessionState(st, policy) ==
    [st EXCEPT !.affinity = @ \/ policy.pin, !.destroy = @ \/ policy.destroy,
               !.discardPrepared = @ \/ policy.discardPrepared]

\* Mutant of CommitSessionState: a reset forgets that the connection must be destroyed.
CommitForgetsDestroy(st, command, policy) ==
    IF policy.resetAll
      THEN [st EXCEPT !.settings = None, !.affinity = FALSE, !.destroy = FALSE, !.discardPrepared = FALSE]
      ELSE IF policy.replay THEN [st EXCEPT !.settings = command] ELSE st

CommitSessionState(st, command, policy) ==
    IF policy.resetAll
      THEN [st EXCEPT !.settings = None, !.affinity = st.destroy, !.discardPrepared = FALSE]
      ELSE IF policy.replay THEN [st EXCEPT !.settings = command] ELSE st

\* updateTransactionState, of a command that succeeded.
UpdateTransaction(st, command) ==
    [st EXCEPT !.transaction = CASE command = "begin" -> TRUE
                                 [] command \in {"commit", "rollback"} -> FALSE
                                 [] OTHER -> @]

-----------------------------------------------------------------------------
(* Checking out *)

\* handleQuery's path: neither state to replay nor a command that needs a session.
Stateless(s, r) ==
    /\ conn[s] = None /\ Startup[s] = 0 /\ state[s].settings = None
    /\ ~state[s].affinity
    /\ r.command \in {"query", "deallocate"}

\* What this frontend may send in its present state.
Allowed(s, r) ==
    LET pinned == state[s].transaction \/ state[s].destroy
        resets == \/ r.command = "reset"
                  \/ r.command \in {"resetAll", "discardAll"} /\ pinned
    IN  /\ r.command \in Uses[s]
        /\ r.command = "resetAll" /\ (ideal[s].objects \/ ideal[s].native) => "resetAll" \in Client
        /\ Startup[s] # 0 /\ resets => "reset" \in Client
        /\ r.command = "deallocate" /\ Stateless(s, r) => "deallocate" \in Client

Sends(s, r) == request[s] = None /\ Allowed(s, r)

\* applyRuntimeParams on a connection at its pool baseline, then replaySessionSettings.
Dressed(s, settings, p) ==
    LET started == IF Startup[s] # 0 THEN [p EXCEPT !.guc = Startup[s]] ELSE p
    IN  IF settings = None THEN started ELSE Executed(started, settings, 0)

\* syncPreparedStatements
Synchronized(c) == IF prepared[c] = Unknown THEN pg[c].canonical ELSE prepared[c]

\* A message for a session that has none: Session.acquire.
Acquire(s, r) ==
    /\ Sends(s, r) /\ conn[s] = None /\ ~Stateless(s, r)
    /\ \E c \in Idle :
         /\ conn' = [conn EXCEPT ![s] = c]
         /\ prepared' = [prepared EXCEPT ![c] = Synchronized(c)]
         /\ pg' = [pg EXCEPT ![c] = Dressed(s, state[s].settings, @)]
    /\ request' = [request EXCEPT ![s] = r]
    /\ UNCHANGED <<state, ideal>>

\* A connection that cannot be synchronised, dressed or reset is closed; the pool
\* opens another in its place.
Replaced(f, c, value) == [f EXCEPT ![c] = value]

AcquireFails(s, r) ==
    /\ Sends(s, r) /\ conn[s] = None /\ ~Stateless(s, r) /\ "acquire" \in Faults
    /\ \E c \in Idle :
         /\ pg' = Replaced(pg, c, Fresh(0))
         /\ prepared' = Replaced(prepared, c, Unknown)
    /\ state' = [state EXCEPT ![s] = BeginSessionState(@, Policy(r.command, @.transaction))]
    /\ UNCHANGED <<conn, request, ideal>>

-----------------------------------------------------------------------------
(* Running and releasing *)

\* The SQL that cleans a connection: pooledSessionResetSQL, or DISCARD ALL.
Reset(p, discardPrepared) ==
    IF discardPrepared THEN Executed(p, "discardAll", 0) ELSE [p EXCEPT !.guc = 0, !.objects = FALSE]

\* Session.Close(reusable, discardPrepared) on connection c, whose PostgreSQL session is p
\* and whose cache entry is known.  resetSessionState refuses a connection in a block.
Close(c, p, known, reusable, discardPrepared) ==
    \E clean \in BOOLEAN :
      /\ clean => reusable /\ p.block = "I"
      /\ ~clean => ~reusable \/ p.block # "I" \/ "reset" \in Faults
      /\ pg' = Replaced(pg, c, IF clean THEN Reset(p, discardPrepared) ELSE Fresh(0))
      /\ prepared' = Replaced(known, c, IF ~clean \/ discardPrepared THEN Unknown ELSE known[c])

\* The release rule at the end of a Query or Sync.
Releasable(st) == ~st.transaction /\ ~st.affinity

\* Mutant of EndOfCycle: a connection is released whatever the session left on it.
EndIgnoresAffinity(s, p, known, st) ==
    IF ~st.transaction
      THEN Close(conn[s], p, known, TRUE, FALSE) /\ conn' = [conn EXCEPT ![s] = None]
      ELSE pg' = Replaced(pg, conn[s], p) /\ prepared' = known /\ UNCHANGED conn

EndOfCycle(s, p, known, st) ==
    IF Releasable(st)
      THEN Close(conn[s], p, known, TRUE, FALSE) /\ conn' = [conn EXCEPT ![s] = None]
      ELSE pg' = Replaced(pg, conn[s], p) /\ prepared' = known /\ UNCHANGED conn

\* Mutant of Invalidated: DISCARD is not taken for a command that drops statements.
InvalidatedPartly(command) ==
    IF command = "deallocate" THEN [c \in Conns |-> Unknown] ELSE prepared

\* InvalidatePreparedStatements, after DEALLOCATE or DISCARD.
Invalidated(command) ==
    IF command \in {"deallocate", "discardAll"} THEN [c \in Conns |-> Unknown] ELSE prepared

\* The message in hand: the one the connection was acquired for, or the next one of a
\* session that holds its connection.
InHand(s, r) == conn[s] # None /\ (request[s] = r \/ Sends(s, r))

\* handleSessionQuery on the session's connection.
RunQuery(s, r) ==
    LET c == conn[s]
        command == r.command
        policy == Policy(command, state[s].transaction)
        begun == BeginSessionState(state[s], policy)
        good == CommitSessionState(UpdateTransaction(begun, command), command, policy)
    IN  /\ InHand(s, r) /\ command \in Commands
        /\ \E ok \in BOOLEAN :
             /\ ok => Accepts(pg[c], command)
             /\ ~ok => ~Accepts(pg[c], command) \/ ("error" \in Faults /\ command \notin {"commit", "rollback"})
             /\ ideal' = [ideal EXCEPT ![s] = IF ok THEN Executed(@, command, Startup[s]) ELSE Erred(@)]
             /\ state' = [state EXCEPT ![s] = IF ok THEN good ELSE begun]
             /\ IF ok THEN EndOfCycle(s, Executed(pg[c], command, 0), Invalidated(command), good)
                      ELSE EndOfCycle(s, Erred(pg[c]), prepared, begun)
        /\ request' = [request EXCEPT ![s] = None]

\* flushPendingExtended with its Sync: a statement the cache does not have is parsed
\* first, which PostgreSQL refuses if it has the name (42P05); a Bind of a name it does
\* not have is refused too (26000).  ParseComplete is recorded even if the Execute fails.
RunExecute(s, r) ==
    LET c == conn[s]
        q == r.statement
        known == prepared[c] # Unknown /\ q \in prepared[c]
        parsed == [pg[c] EXCEPT !.canonical = @ \cup {q}]
        marked == [prepared EXCEPT ![c] = IF @ = Unknown THEN {q} ELSE @ \cup {q}]
        accepted == pg[c].block # "E" /\ (known <=> q \in pg[c].canonical)
    IN  /\ InHand(s, r) /\ r.command = "execute"
        /\ \/ /\ accepted
              /\ EndOfCycle(s, parsed, marked, state[s])
              /\ UNCHANGED ideal
           \/ /\ accepted /\ "error" \in Faults
              /\ EndOfCycle(s, Erred(parsed), marked, state[s])
              /\ ideal' = [ideal EXCEPT ![s] = Erred(@)]
           \/ /\ ~accepted \/ ("error" \in Faults /\ ~known)
              /\ EndOfCycle(s, Erred(pg[c]), prepared, state[s])
              /\ ideal' = [ideal EXCEPT ![s] = Erred(@)]
        /\ request' = [request EXCEPT ![s] = None]
        /\ UNCHANGED state

\* handleQuery and queryShard: any connection of the pool, released without a reset;
\* the cache is invalidated after the release.
StatelessQuery(s, r) ==
    /\ Sends(s, r) /\ Stateless(s, r)
    /\ \E c \in Idle : pg' = [pg EXCEPT ![c] = Executed(@, r.command, 0)]
    /\ ideal' = [ideal EXCEPT ![s] = Executed(@, r.command, Startup[s])]
    /\ request' = [request EXCEPT ![s] = r]
    /\ UNCHANGED <<prepared, conn, state>>

StatelessDone(s) ==
    /\ request[s] # None /\ conn[s] = None
    /\ prepared' = Invalidated(request[s].command)
    /\ request' = [request EXCEPT ![s] = None]
    /\ UNCHANGED <<pg, conn, state, ideal>>

\* The frontend's session ends and another takes its place.
Departed(s) ==
    /\ conn' = [conn EXCEPT ![s] = None]
    /\ state' = [state EXCEPT ![s] = NewState]
    /\ ideal' = [ideal EXCEPT ![s] = Fresh(Startup[s])]
    /\ request' = [request EXCEPT ![s] = None]

\* Terminate, and the deferred Close of serveQueries.
Terminate(s) ==
    /\ request[s] = None
    /\ Departed(s)
    /\ IF conn[s] = None THEN UNCHANGED <<pg, prepared>>
       ELSE Close(conn[s], pg[conn[s]], prepared, ~state[s].destroy, state[s].discardPrepared)

\* The frontend is gone: its context is cancelled and its connection is destroyed.
Disconnect(s) ==
    /\ "disconnect" \in Faults /\ (conn[s] = None => request[s] = None)
    /\ Departed(s)
    /\ IF conn[s] = None THEN UNCHANGED <<pg, prepared>>
       ELSE Close(conn[s], pg[conn[s]], prepared, FALSE, FALSE)

Next ==
    \E s \in Sessions :
      \/ \E r \in Requests : Acquire(s, r)
      \/ \E r \in Requests : AcquireFails(s, r)
      \/ \E r \in Requests : StatelessQuery(s, r)
      \/ StatelessDone(s)
      \/ \E r \in Requests : RunQuery(s, r)
      \/ \E r \in Requests : RunExecute(s, r)
      \/ Terminate(s)
      \/ Disconnect(s)

Spec == Init /\ [][Next]_vars

-----------------------------------------------------------------------------
(* Properties *)

PostgresSession == [guc : {0, 1, 2}, objects : BOOLEAN, native : BOOLEAN, loaded : BOOLEAN,
                    canonical : SUBSET Statements, block : {"I", "T", "E"}, saved : {0, 1, 2}]

SessionState == [transaction : BOOLEAN, affinity : BOOLEAN, destroy : BOOLEAN,
                 discardPrepared : BOOLEAN, settings : {None, "set", "reset"}]

\* Types; only SET and RESET of one setting are ever recorded for replay (commitSessionState).
TypeOK ==
    /\ pg \in [Conns -> PostgresSession]
    /\ prepared \in [Conns -> {Unknown} \cup SUBSET Statements]
    /\ conn \in [Sessions -> Conns \cup {None}]
    /\ state \in [Sessions -> SessionState]
    /\ request \in [Sessions -> {None} \cup Requests]
    /\ ideal \in [Sessions -> PostgresSession]

Clean(p) == p.guc = 0 /\ p.block = "I" /\ p.saved = 0 /\ ~p.objects /\ ~p.native /\ ~p.loaded

\* Session.Close returns a connection to the pool only clean: an idle connection carries no
\* setting, object, SQL prepared statement, process-local effect or open transaction of the
\* frontends that used it, whatever they ran, failed at or left unfinished.
PoolIsClean == \A c \in Idle : Clean(pg[c])

Observable(p) == [guc |-> p.guc, objects |-> p.objects, native |-> p.native,
                  loaded |-> p.loaded, block |-> p.block]

\* Multiplexing (acquire, replaySessionSettings, the release rule of serveQueries) is invisible:
\* the connection a frontend holds is in the state its own PostgreSQL session would be
\* in, and while it holds none the settings replayed on a clean one give that state.
Transparency ==
    \A s \in Sessions :
      Observable(ideal[s]) = Observable(IF conn[s] # None THEN pg[conn[s]] ELSE Dressed(s, state[s].settings, Fresh(0)))

\* syncPreparedStatements, MarkPrepared and InvalidatePreparedStatements never credit a
\* connection with a canonical statement it does not have, so no Parse is wrongly skipped.
CacheSound ==
    \A c \in Conns : prepared[c] = Unknown \/ prepared[c] \subseteq pg[c].canonical

\* What the session's flags say of what its frontend has done: a transaction is a block, what
\* cannot be replayed pins the session, what the ordinary reset leaves behind is marked
\* for DISCARD ALL or destruction, and the recorded settings are those in force.
Coherent(s, st, p) ==
    /\ st.transaction <=> p.block # "I"
    /\ p.block = "I" => p.saved = 0
    /\ p.objects \/ p.native \/ st.destroy => st.affinity
    /\ p.native => st.discardPrepared
    /\ p.loaded => st.destroy
    /\ \/ st.affinity
       \/ p.guc = Dressed(s, st.settings, Fresh(0)).guc /\ (p.block # "I" => p.saved = p.guc)

\* The inductive invariant of the pool: beside the properties above, connections are
\* checked out to one session each, the flags of extendedState are coherent, and a
\* message waiting on its connection is still one its frontend may send.
IInv ==
    /\ TypeOK /\ PoolIsClean /\ Transparency /\ CacheSound
    /\ \A s, t \in Sessions : conn[s] # None /\ conn[s] = conn[t] => s = t
    /\ \A s \in Sessions :
         /\ Coherent(s, state[s], ideal[s])
         /\ conn[s] # None => pg[conn[s]].saved = ideal[s].saved
         /\ request[s] # None =>
              IF conn[s] = None THEN request[s].command = "query" ELSE Allowed(s, request[s])

\* The comment of InvalidatePreparedStatements: the next checkout reconciles a forgotten
\* connection, so one whose statements are known is known exactly.  MarkPrepared on a
\* connection that another session's DISCARD ALL made unknown leaves it known in part.
CacheExact ==
    \A c \in Conns : prepared[c] = Unknown \/ prepared[c] = pg[c].canonical

=============================================================================
