-------------------------- MODULE ExtendedProtocol --------------------------
(***************************************************************************)
(* internal/proxy/server.go: the extended-query half of serveQueries for   *)
(* one frontend session outside explicit transactions: state.transaction   *)
(* is FALSE throughout, and of the statements exchanged message by message *)
(* the client uses those that leave it so.                                 *)
(*                                                                         *)
(* A Bind and the Describe and Execute of its portal are held back in      *)
(* state.pending and leave as one batch, with a Sync of the Proxy's own,   *)
(* at the next Sync, Flush, Close or other Describe (flushPendingExtended).*)
(* Everything else, and the Bind and Execute of BEGIN, COMMIT and          *)
(* ROLLBACK, is exchanged with the Tunnels message by message.             *)
(*                                                                         *)
(* A client's messages up to its Sync are a cycle.  Each Bind of a cycle   *)
(* has a number, which also names the portal's contents.  PostgreSQL is    *)
(* external: a Tunnel has portals until Sync, and after an error it reads  *)
(* and drops messages until Sync.  Which statements a Tunnel has prepared  *)
(* is TunnelPool's: here any Tunnel may lack any.                          *)
(***************************************************************************)
EXTENDS Integers, Sequences, Functions

CONSTANTS
    Burrows,        \* positions of the Burrow names in sorted order
    Statements,     \* SQL the client uses
    Control,        \* those of them that are transaction control
    Route,          \* where a Bind of each goes
    Portals,        \* portal names
    Client,         \* what the client does beyond one request at a time
    Faults,         \* what goes wrong
    MaxMessages, MaxCycles      \* bounds: messages in a cycle, cycles

\* Client: "pipeline" sends a request behind one still held back, "reuse" uses a
\* portal after the Proxy's own Sync has closed it.  Faults: PostgreSQL refuses a
\* message ("error"), or one that follows the Proxy's own Sync ("lateError"); a
\* Tunnel breaks ("transport"); a Tunnel cannot be opened ("unsent"); another
\* session's DEALLOCATE or DISCARD made the Proxy forget a statement that a Tunnel
\* still has ("forgotten").
ASSUME ProtocolAssumption ==
    /\ Burrows \subseteq Nat /\ Burrows # {}
    /\ Control \subseteq Statements
    /\ Route \in [Statements -> (SUBSET Burrows) \ {{}}]
    /\ "none" \notin Portals
    /\ Client \subseteq {"pipeline", "reuse"}
    /\ Faults \subseteq {"error", "lateError", "transport", "unsent", "forgotten"}
    /\ {MaxMessages, MaxCycles} \subseteq Nat

VARIABLES
    statements,     \* state.statements
    portals,        \* state.portals: the last Bind of each portal, and where it went
    pending,        \* state.pending
    failed, syncConsumed,
    session,        \* the session has been opened
    connected,      \* Tunnels it holds
    tunnel,         \* PostgreSQL's side of each Tunnel
    message,        \* the frontend message being handled
    hung,           \* the Proxy waits for an answer that does not come
    ready,          \* the cycle has been answered with ReadyForQuery
    bound,          \* client: what its Binds of this cycle bound
    binds,          \* client: number of Binds in this cycle
    expected,       \* history: the answers PostgreSQL would have given
    answers,        \* history: the answers the client got
    wanted,         \* history: what the client asked to run on each Burrow
    ran,            \* history: what ran on each Burrow in this cycle
    released,       \* history: what was wrong with the Tunnels last released
    messages, cycles

\* As in FiniteSetsExt and SequencesExt.
Min(S) == CHOOSE x \in S : \A y \in S : x <= y
Last(s) == s[Len(s)]
IsPrefix(s, t) == Len(s) <= Len(t) /\ SubSeq(s, 1, Len(s)) = SubSeq(t, 1, Len(s))

state == <<statements, portals, pending, failed, syncConsumed>>
client == <<bound, binds, expected, wanted>>
vars == <<state, session, connected, tunnel, message, hung, ready, client, answers, ran, released, messages, cycles>>

NoPending == [portal |-> "none", bind |-> 0, on |-> {}, describe |-> FALSE, execute |-> FALSE]
Unbound == [bind |-> 0, on |-> Burrows]
Message(type, name) == [type |-> type, name |-> name, statement |-> "none", flushed |-> FALSE]
NoMessage == Message("none", "none")
FreshTunnel ==
    [portals |-> [p \in Portals |-> 0], skipping |-> FALSE, unread |-> FALSE, stale |-> "no", broken |-> FALSE]

Init ==
    /\ statements = {}
    /\ portals = [p \in Portals |-> Unbound]
    /\ pending = NoPending
    /\ failed = FALSE /\ syncConsumed = FALSE
    /\ session = FALSE /\ connected = {}
    /\ tunnel = [b \in Burrows |-> FreshTunnel]
    /\ message = NoMessage
    /\ hung = FALSE /\ ready = FALSE /\ released = {}
    /\ bound = [p \in Portals |-> Unbound] /\ binds = 0
    /\ expected = <<>> /\ answers = <<>>
    /\ ran = [b \in Burrows |-> <<>>] /\ wanted = ran
    /\ messages = 0 /\ cycles = 0

-----------------------------------------------------------------------------
(* PostgreSQL *)

\* How a message or batch can end on a Tunnel.
Outcomes ==
    {"ok"} \cup (IF (IF syncConsumed THEN "lateError" ELSE "error") \in Faults
                   THEN {"bindError", "executeError"} ELSE {})
           \cup (IF "transport" \in Faults THEN {"lost"} ELSE {})
           \cup (Faults \cap {"unsent"})

\* How it can end on the Tunnels of `on`: those the session holds are sent it.
Ends(on, outcomes) == {o \in [on -> outcomes] : \A b \in on \cap connected : o[b] # "unsent"}

\* The Tunnels in `on` that are sent it: those before the first that cannot be
\* opened.
Sent(on, o) == {b \in on : \A c \in on : o[c] = "unsent" => b < c}

Answer(kind, n) == [kind |-> kind, bind |-> n]
Error == Answer("error", 0)

\* A Tunnel after Sync, outside a transaction block.
Synced(t) == [t EXCEPT !.portals = [p \in Portals |-> 0], !.skipping = FALSE]

\* The Tunnels that have a portal.
Having(p) == {b \in Burrows : tunnel[b].portals[p] # 0}

\* With the answers of one exchange lost at the Tunnels in `lost`, read in order,
\* the answers of those behind the first stay unread.
Behind(b, lost) == lost # {} /\ b > Min(lost)

-----------------------------------------------------------------------------
(* Exchanges with the Tunnels *)

\* exchange and relayUniform: one message to every Burrow in `on`; PostgreSQL
\* refuses it outside `valid`, and elsewhere leaves the Tunnels as in `after`.  No
\* answer is read unless all are sent it, and a Tunnel that drops messages never
\* answers.
Relay(on, outcomes, valid, after, reply, runs) ==
    \E o \in Ends(on, outcomes) :
      LET sent == Sent(on, o)
          lost == {b \in sent : o[b] = "lost"}
          fine == {b \in sent : o[b] = "ok" /\ b \in valid}
          unread(b) == sent # on \/ Behind(b, lost)
      IN  /\ connected' = connected \cup sent
          /\ hung' = (sent = on /\ \E b \in on : tunnel[b].skipping)
          /\ IF hung'
               THEN UNCHANGED <<tunnel, answers, ran, failed>>
               ELSE /\ tunnel' = [b \in Burrows |->
                         IF b \notin sent THEN tunnel[b]
                         ELSE IF b \in lost THEN [tunnel[b] EXCEPT !.broken = TRUE]
                         ELSE IF b \in fine THEN [after[b] EXCEPT !.unread = unread(b)]
                         ELSE [tunnel[b] EXCEPT !.skipping = TRUE, !.unread = unread(b)]]
                    /\ ran' = [b \in Burrows |-> IF b \in fine THEN ran[b] \o runs ELSE ran[b]]
                    /\ answers' = Append(answers, IF fine = on THEN reply ELSE Error)
                    /\ failed' = (failed \/ fine # on)

\* Whether the whole batch of pending is sent when its targets end it as o.
AllSent(o) == Sent(pending.on, o) = pending.on

\* The answers to it then: streamed Burrow by Burrow, each kind once, the command's
\* tag last.  A Tunnel that drops messages contributes none.
BatchAnswers(o) ==
    LET served == {b \in pending.on : ~tunnel[b].skipping}
        bad == {b \in served : o[b] # "ok"}
        lost == {b \in served : o[b] = "lost"}
        first == IF bad = {} THEN {} ELSE {Min(bad)}
        complete == \/ \E b \in served : \A c \in bad : b < c
                    \/ \E b \in first : o[b] = "executeError"
        errors == IF bad = {} THEN <<>>
                  ELSE IF lost = {} \/ Min(lost) = Min(bad) THEN <<Error>> ELSE <<Error, Error>>
    IN  IF ~AllSent(o) THEN <<Error>>
        ELSE (IF complete THEN <<Answer("bind", pending.bind)>> ELSE <<>>)
             \o (IF complete /\ pending.describe THEN <<Answer("describe", pending.bind)>> ELSE <<>>)
             \o (IF pending.execute /\ bad = {} /\ served # {}
                   THEN <<Answer("result", pending.bind)>> ELSE errors)

\* What is left unread of a batch that was not sent to all ends in the ReadyForQuery
\* of the Proxy's own Sync.
BatchTunnels(o) ==
    LET sent == Sent(pending.on, o)
        lost == {b \in sent : ~tunnel[b].skipping /\ o[b] = "lost"}
    IN  [b \in Burrows |->
           IF b \notin sent THEN tunnel[b]
           ELSE IF b \in lost THEN [tunnel[b] EXCEPT !.broken = TRUE]
           ELSE [Synced(tunnel[b]) EXCEPT !.unread = ~AllSent(o) \/ Behind(b, lost),
                                          !.stale = IF AllSent(o) THEN "no" ELSE o[b]]]

BatchRan(o) ==
    [b \in Burrows |->
       IF b \in Sent(pending.on, o) /\ ~tunnel[b].skipping /\ o[b] = "ok" /\ pending.execute
         THEN Append(ran[b], pending.bind) ELSE ran[b]]

BatchFails(o) == ~AllSent(o) \/ \E b \in pending.on : ~tunnel[b].skipping /\ o[b] # "ok"
BatchLost(o) == ~AllSent(o) \/ \E b \in pending.on : ~tunnel[b].skipping /\ o[b] = "lost"

\* Mutant of FlushPending: state.pending is not cleared.
FlushPendingAgain(o) ==
    /\ tunnel' = BatchTunnels(o)
    /\ ran' = BatchRan(o)
    /\ answers' = answers \o BatchAnswers(o)
    /\ connected' = connected \cup Sent(pending.on, o)
    /\ failed' = BatchFails(o)
    /\ syncConsumed' = (syncConsumed \/ ~BatchLost(o))
    /\ UNCHANGED <<pending, hung>>

\* flushPendingExtended without ReadyForQuery: at Flush, and before a Describe or
\* Close of anything else.
FlushPending(o) ==
    /\ tunnel' = BatchTunnels(o)
    /\ ran' = BatchRan(o)
    /\ answers' = answers \o BatchAnswers(o)
    /\ connected' = connected \cup Sent(pending.on, o)
    /\ pending' = NoPending
    /\ failed' = BatchFails(o)
    /\ syncConsumed' = (syncConsumed \/ ~BatchLost(o))
    /\ UNCHANGED hung

-----------------------------------------------------------------------------
(* The client *)

\* Sends one message; `due` is what PostgreSQL would answer.
Send(m, due) ==
    /\ message = NoMessage /\ ~hung /\ ~ready
    /\ messages < MaxMessages
    /\ message' = m
    /\ expected' = expected \o due
    /\ messages' = messages + 1
    /\ UNCHANGED <<state, session, connected, tunnel, hung, ready, answers, ran, released, cycles>>

InOrder == pending = NoPending \/ "pipeline" \in Client

SendParse(q) ==
    /\ InOrder /\ q \notin statements
    /\ Send(Message("Parse", q), <<Answer("parse", 0)>>)
    /\ UNCHANGED <<bound, binds, wanted>>

SendBind(p, q) ==
    /\ InOrder /\ q \in statements
    /\ p = "" \/ bound[p] = Unbound
    /\ Send([Message("Bind", p) EXCEPT !.statement = q], <<Answer("bind", binds + 1)>>)
    /\ binds' = binds + 1
    /\ bound' = [bound EXCEPT ![p] = [bind |-> binds + 1, on |-> Route[q]]]
    /\ UNCHANGED wanted

\* A portal the client may use: of the request held back, or open on its Tunnels.
Usable(p) ==
    \/ failed
    \/ pending.portal = p /\ ~pending.execute
    \/ pending # NoPending /\ "pipeline" \in Client
    \/ pending = NoPending /\ \A b \in bound[p].on : tunnel[b].portals[p] = bound[p].bind
    \/ pending = NoPending /\ "reuse" \in Client

SendPortal(type, p, kind) ==
    /\ bound[p] # Unbound /\ Usable(p)
    /\ Answer(kind, bound[p].bind) \notin Range(expected)
    /\ Send(Message(type, p), <<Answer(kind, bound[p].bind)>>)
    /\ UNCHANGED <<bound, binds>>

SendDescribeP(p) == SendPortal("DescribeP", p, "describe") /\ UNCHANGED wanted

SendExecute(p) ==
    /\ SendPortal("Execute", p, "result")
    /\ wanted' = [b \in Burrows |-> IF b \in bound[p].on THEN Append(wanted[b], bound[p].bind) ELSE wanted[b]]

SendDescribeS(q) ==
    /\ q \in statements
    /\ Send(Message("DescribeS", q), <<Answer("describe", 0)>>)
    /\ UNCHANGED <<bound, binds, wanted>>

SendCloseS(q) ==
    /\ q \in statements
    /\ Send(Message("CloseS", q), <<Answer("close", 0)>>)
    /\ UNCHANGED <<bound, binds, wanted>>

SendCloseP(p) ==
    /\ bound[p] # Unbound
    /\ Send(Message("CloseP", p), <<Answer("close", 0)>>)
    /\ bound' = [bound EXCEPT ![p] = Unbound]
    /\ UNCHANGED <<binds, wanted>>

SendFlush == Send(Message("Flush", "none"), <<>>) /\ UNCHANGED <<bound, binds, wanted>>

\* One Sync ends the cycle; the client then waits.
SendSync ==
    /\ message = NoMessage /\ ~hung /\ ~ready
    /\ messages <= MaxMessages
    /\ message' = Message("Sync", "none")
    /\ messages' = MaxMessages + 1
    /\ UNCHANGED <<state, session, connected, tunnel, hung, ready, client, answers, ran, released, cycles>>

\* The client reads ReadyForQuery and starts over.
NextCycle ==
    /\ ready /\ cycles < MaxCycles
    /\ ready' = FALSE
    /\ bound' = [p \in Portals |-> Unbound] /\ binds' = 0
    /\ expected' = <<>> /\ answers' = <<>>
    /\ ran' = [b \in Burrows |-> <<>>] /\ wanted' = ran'
    /\ messages' = 0 /\ cycles' = cycles + 1
    /\ released' = {}
    /\ UNCHANGED <<state, session, connected, tunnel, message, hung>>

-----------------------------------------------------------------------------
(* serveQueries *)

Handling(types) == message.type \in types /\ ~hung

\* A handler that ends without an answer of its own from the Tunnels.
Answered(as) ==
    /\ answers' = answers \o as
    /\ message' = NoMessage
    /\ UNCHANGED <<connected, tunnel, hung, ready, client, ran, released, messages, cycles>>

\* A handler that ends with an exchange.
Exchanged ==
    /\ message' = NoMessage
    /\ UNCHANGED <<ready, client, released, messages, cycles>>

\* After a failure everything up to Sync is dropped.
Dropped ==
    /\ Handling({"Parse", "Bind", "DescribeS", "DescribeP", "Execute", "CloseS", "CloseP"})
    /\ failed /\ ~message.flushed
    /\ session' = (session \/ message.type # "Parse")
    /\ Answered(<<>>)
    /\ UNCHANGED state

\* A Parse is checked and remembered, and answered without the Burrows.
HandleParse ==
    /\ Handling({"Parse"}) /\ ~failed
    /\ \/ /\ statements' = statements \cup {message.name}
          /\ Answered(<<Answer("parse", 0)>>)
          /\ UNCHANGED failed
       \/ /\ "error" \in Faults
          /\ failed' = TRUE
          /\ Answered(<<Error>>)
          /\ UNCHANGED statements
    /\ UNCHANGED <<session, portals, pending, syncConsumed>>

\* A Bind the Proxy refuses: parameters or routing.
RefuseBind ==
    /\ Handling({"Bind"}) /\ ~failed
    /\ "error" \in Faults
    /\ session' = TRUE /\ failed' = TRUE
    /\ Answered(<<Error>>)
    /\ UNCHANGED <<statements, portals, pending, syncConsumed>>

HoldsBack(q) == pending = NoPending /\ q \notin Control

HandleBind ==
    /\ Handling({"Bind"}) /\ ~failed
    /\ session' = TRUE
    /\ LET p == message.name
           q == message.statement
           portal == [bind |-> binds, on |-> Route[q]]
           opened == [b \in Burrows |-> [tunnel[b] EXCEPT !.portals[p] = binds]]
       IN  \/ /\ HoldsBack(q)
              /\ portals' = [portals EXCEPT ![p] = portal]
              /\ pending' = [NoPending EXCEPT !.portal = p, !.bind = binds, !.on = Route[q]]
              /\ Answered(<<>>)
              /\ UNCHANGED failed
           \/ /\ ~HoldsBack(q)
              /\ Relay(Route[q], Outcomes, Burrows, opened, Answer("bind", binds), <<>>)
              /\ portals' = IF hung' \/ Last(answers') = Error THEN portals ELSE [portals EXCEPT ![p] = portal]
              /\ Exchanged
              /\ UNCHANGED pending
    /\ UNCHANGED <<statements, syncConsumed>>

\* Describe and Execute of the portal held back join its batch.
HandleHeldBack ==
    /\ Handling({"DescribeP", "Execute"}) /\ ~failed
    /\ pending # NoPending /\ pending.portal = message.name
    /\ pending' = IF message.type = "Execute" THEN [pending EXCEPT !.execute = TRUE]
                                              ELSE [pending EXCEPT !.describe = TRUE]
    /\ session' = TRUE
    /\ Answered(<<>>)
    /\ UNCHANGED <<statements, portals, failed, syncConsumed>>

\* Another Describe, or a Close, first sends what is held back.  It goes on even if
\* PostgreSQL refused the batch; only a lost Tunnel ends it.
FlushFirst ==
    /\ Handling({"DescribeS", "DescribeP", "CloseS", "CloseP"}) /\ ~failed
    /\ pending # NoPending
    /\ ~(message.type = "DescribeP" /\ pending.portal = message.name)
    /\ \E o \in Ends(pending.on, Outcomes) :
         /\ FlushPending(o)
         /\ message' = IF BatchLost(o) THEN NoMessage ELSE [message EXCEPT !.flushed = TRUE]
    /\ session' = TRUE
    /\ UNCHANGED <<statements, portals, ready, client, released, messages, cycles>>

\* Mutant of Direct: what is held back is not sent first.
DirectAhead == message.flushed \/ ~failed

\* A message that does not join a batch.
Direct == pending = NoPending /\ (message.flushed \/ ~failed)

\* Where materializeStatement parses the statement of a Bind or Describe that is
\* exchanged, and how the Parse can end there.
Materialized == IF message.type = "Bind" THEN Route[message.statement] ELSE {Min(Burrows)}
Parses == (Outcomes \ {"executeError"}) \cup (Faults \cap {"forgotten"})

\* materializeStatement does not succeed: a Tunnel cannot be opened, or the Tunnels
\* that lack the statement parse it one after another until one refuses or breaks.
\* One that has it already refuses too, but then the Proxy goes on without a Sync,
\* and waits for the answer to a message that PostgreSQL drops.
MaterializeFails ==
    /\ \/ Handling({"Bind"}) /\ ~failed /\ ~HoldsBack(message.statement)
       \/ Handling({"DescribeS"}) /\ Direct
    /\ session' = TRUE
    /\ \E o \in Ends(Materialized, Parses) :
         LET on == Materialized
             opened == Sent(on, o)
             stops == {b \in on : o[b] \in {"bindError", "lost"}}
             parsed == {b \in on : opened = on /\ \A c \in stops : b <= c}
             refusing == {b \in parsed : o[b] \in {"bindError", "forgotten"}}
         IN  /\ \E b \in on : o[b] # "ok"
             /\ connected' = connected \cup opened
             /\ tunnel' = [b \in Burrows |->
                  IF b \in refusing THEN [tunnel[b] EXCEPT !.skipping = TRUE]
                  ELSE IF b \in parsed /\ o[b] = "lost" THEN [tunnel[b] EXCEPT !.broken = TRUE]
                  ELSE tunnel[b]]
             /\ hung' = (opened = on /\ (stops = {} \/ \E b \in refusing : tunnel[b].skipping))
             /\ failed' = (failed \/ ~hung')
             /\ answers' = IF hung' THEN answers ELSE Append(answers, Error)
    /\ Exchanged
    /\ UNCHANGED <<statements, portals, pending, syncConsumed, ran>>

HandleDescribeS ==
    /\ Handling({"DescribeS"}) /\ Direct
    /\ session' = TRUE
    /\ Relay({Min(Burrows)}, Outcomes, Burrows, tunnel, Answer("describe", 0), <<>>)
    /\ Exchanged
    /\ UNCHANGED <<statements, portals, pending, syncConsumed>>

HandleDescribeP ==
    /\ Handling({"DescribeP"}) /\ Direct
    /\ session' = TRUE
    /\ LET on == portals[message.name].on
       IN  Relay(on, Outcomes, Having(message.name), tunnel, Answer("describe", tunnel[Min(on)].portals[message.name]), <<>>)
    /\ Exchanged
    /\ UNCHANGED <<statements, portals, pending, syncConsumed>>

\* Mutant of HandleExecute: Execute is not dropped after a failure.
HandleExecuteAfterError ==
    /\ Handling({"Execute"})
    /\ pending.portal # message.name
    /\ session' = TRUE
    /\ LET on == portals[message.name].on
           n == tunnel[Min(on)].portals[message.name]
       IN  Relay(on, Outcomes, Having(message.name), tunnel, Answer("result", n), <<n>>)
    /\ Exchanged
    /\ UNCHANGED <<statements, portals, pending, syncConsumed>>

\* An Execute whose portal is not the one held back goes ahead of it.
HandleExecute ==
    /\ Handling({"Execute"}) /\ ~failed
    /\ pending.portal # message.name
    /\ session' = TRUE
    /\ LET on == portals[message.name].on
           n == tunnel[Min(on)].portals[message.name]
       IN  Relay(on, Outcomes, Having(message.name), tunnel, Answer("result", n), <<n>>)
    /\ Exchanged
    /\ UNCHANGED <<statements, portals, pending, syncConsumed>>

HandleCloseS ==
    /\ Handling({"CloseS"}) /\ Direct
    /\ session' = TRUE
    /\ statements' = statements \ {message.name}
    /\ Answered(<<Answer("close", 0)>>)
    /\ UNCHANGED <<portals, pending, failed, syncConsumed>>

WithoutPortal(p) == [portals EXCEPT ![p] = Unbound]

\* PostgreSQL refuses no Close.
HandleCloseP ==
    /\ Handling({"CloseP"}) /\ Direct
    /\ session' = TRUE
    /\ LET closed == [b \in Burrows |-> [tunnel[b] EXCEPT !.portals[message.name] = 0]]
       IN  Relay(portals[message.name].on, Outcomes \ {"bindError", "executeError"},
                 Burrows, closed, Answer("close", 0), <<>>)
    /\ portals' = IF hung' \/ Last(answers') = Error THEN portals ELSE WithoutPortal(message.name)
    /\ Exchanged
    /\ UNCHANGED <<statements, pending, syncConsumed>>

HandleFlush ==
    /\ Handling({"Flush"})
    /\ \/ /\ session /\ pending # NoPending
          /\ \E o \in Ends(pending.on, Outcomes) : FlushPending(o)
          /\ UNCHANGED <<statements, portals>>
          /\ Exchanged
       \/ /\ ~(session /\ pending # NoPending)
          /\ Answered(<<>>)
          /\ UNCHANGED state
    /\ UNCHANGED session

\* After a Sync that leaves no failure, and no transaction, the session goes back to the pool
\* (Session.Close): `post` are the Tunnels then.  The answers of the reset are
\* what the Tunnel sends next, so stale ones are taken for them; a broken
\* Tunnel, or one that drops the reset, is closed.
Release(post, held) ==
    IF session /\ ~failed'
      THEN /\ session' = FALSE /\ connected' = {}
           /\ tunnel' = [b \in Burrows |-> FreshTunnel]
           /\ released' = {c \in {"broken", "skipping", "unread"} :
                            \E b \in held : post[b][c] /\ (c = "broken" \/ ~post[b].broken)}
      ELSE /\ tunnel' = post /\ connected' = held
           /\ UNCHANGED <<session, released>>

\* Sync with a request held back: its batch carries the Sync.
SyncBatch ==
    /\ session /\ pending # NoPending
    /\ \E o \in Ends(pending.on, Outcomes) :
         /\ answers' = answers \o BatchAnswers(o)
         /\ ran' = BatchRan(o)
         /\ pending' = NoPending
         /\ failed' = FALSE /\ ready' = TRUE
         /\ Release(BatchTunnels(o), connected \cup Sent(pending.on, o))
    /\ UNCHANGED syncConsumed

\* Sync after the Proxy's own Sync: answered without the Tunnels.
SyncConsumed ==
    /\ session /\ pending = NoPending /\ syncConsumed
    /\ syncConsumed' = FALSE /\ failed' = FALSE /\ ready' = TRUE
    /\ Release(tunnel, connected)
    /\ UNCHANGED <<pending, answers, ran>>

\* Mutant of SyncTunnels: Sync is answered by the Proxy alone.
SyncAnsweredAlone ==
    /\ session /\ pending = NoPending /\ ~syncConsumed
    /\ failed' = FALSE /\ ready' = TRUE
    /\ Release(tunnel, connected)
    /\ UNCHANGED <<pending, syncConsumed, answers, ran>>

\* The Tunnels with an error among the answers left unread.
StaleErrors ==
    {b \in connected : tunnel[b].unread /\ (tunnel[b].skipping \/ tunnel[b].stale \notin {"no", "ok"})}

\* handleSync: Sync to every Tunnel of the session.  A Tunnel already broken
\* refuses it at once, and those before it have been sent theirs.  Answers left
\* unread are taken for those to this Sync: an error among them is all the client
\* gets, and a ReadyForQuery among them leaves the one to this Sync unread.
SyncTunnels ==
    /\ session /\ pending = NoPending /\ ~syncConsumed
    /\ LET broken == {b \in connected : tunnel[b].broken}
       IN  \/ /\ broken # {}
              /\ UNCHANGED <<failed, ready>>
              /\ answers' = Append(answers, Error)
              /\ Release([b \in Burrows |->
                            [tunnel[b] EXCEPT !.unread = @ \/ (b \in connected /\ b < Min(broken))]], connected)
           \/ /\ broken = {}
              /\ \E lost \in IF "transport" \in Faults THEN SUBSET connected ELSE {{}} :
                   /\ failed' = (failed /\ lost \cup StaleErrors # {})
                   /\ ready' = (lost \cup StaleErrors = {})
                   /\ answers' = IF lost \cup StaleErrors = {} THEN answers ELSE Append(answers, Error)
                   /\ Release([b \in Burrows |->
                                 IF b \in lost THEN [tunnel[b] EXCEPT !.broken = TRUE]
                                 ELSE IF b \in connected
                                   THEN [Synced(tunnel[b]) EXCEPT !.unread = Behind(b, lost) \/ (@ /\ tunnel[b].stale # "no")]
                                 ELSE tunnel[b]], connected)
    /\ UNCHANGED <<pending, syncConsumed, ran>>

SyncUnopened ==
    /\ ~session
    /\ failed' = FALSE /\ ready' = TRUE
    /\ UNCHANGED <<pending, syncConsumed, session, connected, tunnel, answers, ran, released>>

HandleSync ==
    /\ Handling({"Sync"})
    /\ SyncUnopened \/ SyncBatch \/ SyncConsumed \/ SyncTunnels
    /\ message' = NoMessage
    /\ UNCHANGED <<statements, portals, hung, client, messages, cycles>>

Handle ==
    \/ Dropped \/ HandleParse \/ RefuseBind \/ HandleBind \/ HandleHeldBack \/ FlushFirst
    \/ MaterializeFails \/ HandleDescribeS \/ HandleDescribeP \/ HandleExecute \/ HandleCloseS \/ HandleCloseP
    \/ HandleFlush \/ HandleSync

Next ==
    \/ \E q \in Statements : SendParse(q) \/ SendDescribeS(q) \/ SendCloseS(q)
    \/ \E p \in Portals, q \in Statements : SendBind(p, q)
    \/ \E p \in Portals : SendDescribeP(p) \/ SendExecute(p) \/ SendCloseP(p)
    \/ SendFlush \/ SendSync \/ NextCycle
    \/ Handle

Spec == Init /\ [][Next]_vars

\* The Proxy handles what it has read, and the client ends its cycles with Sync.
FairSpec == Spec /\ WF_vars(Handle) /\ WF_vars(SendSync)

-----------------------------------------------------------------------------
(* Properties *)

Succeeded == Error \notin Range(answers)

\* The answers of a cycle without an error are those PostgreSQL gives to its
\* messages, in the order of the messages, although the Proxy answers Parse at
\* once, Bind, Describe and Execute from a later batch, and one Bind with the
\* answers of several Burrows (serveQueries, flushPendingExtended).
AnswersInOrder ==
    Succeeded => IsPrefix(answers, expected) /\ (ready => answers = expected)

\* What ran on a Burrow is what the client asked to run there, in its order and
\* once each; in a cycle answered without an error all of it ran.
RanAsAsked ==
    \A b \in Burrows : IsPrefix(ran[b], wanted[b]) /\ (ready /\ Succeeded => ran[b] = wanted[b])

\* A Tunnel is in step when its session gives it back at the end of a cycle in
\* which none broke: PostgreSQL drops no further messages and has sent no answer
\* that the Proxy did not read (the release at the end of serveQueries).
TunnelsInStep == "broken" \notin released => released = {}

\* Whatever happened in the cycle, the next session that gets a Tunnel from the
\* pool reads the answers to its own messages: none is released with answers left
\* unread (exchange and flushPendingExtended, then Session.Close).
NoAnswerLeftUnread == "unread" \notin released

\* PostgreSQL answers nothing between an error and ReadyForQuery.
NothingAfterError ==
    \A i \in DOMAIN answers : answers[i] = Error => i = Len(answers)

\* Unless a Tunnel breaks, a message the Proxy has read is followed by the end of
\* its cycle: no handler waits for an answer that PostgreSQL will not send, and
\* every Sync is answered with ReadyForQuery.
CyclesEnd ==
    message # NoMessage ~> ready \/ "broken" \in released \/ \E b \in Burrows : tunnel[b].broken

-----------------------------------------------------------------------------
(* The inductive invariant behind the properties of a cycle, for a client  *)
(* that makes one request at a time, a PostgreSQL that refuses nothing     *)
(* after the Proxy's own Sync, Tunnels that can be opened, and statements  *)
(* the Proxy does not forget while a Tunnel has them.                      *)

Ordinary == Client = {} /\ {"lateError", "unsent", "forgotten"} \cap Faults = {}

BoundPortals == [bind : Nat, on : (SUBSET Burrows) \ {{}}]
Endings == {"no", "ok", "bindError", "executeError", "lost", "unsent"}
TunnelStates == [portals : [Portals -> Nat], skipping : BOOLEAN, unread : BOOLEAN,
                 stale : Endings, broken : BOOLEAN]
OfPortal == {"Bind", "DescribeP", "Execute", "CloseP"}
OfStatement == {"Parse", "DescribeS", "CloseS"}
Requests ==
    [portal : Portals \cup {"none"}, bind : Nat, on : SUBSET Burrows, describe : BOOLEAN, execute : BOOLEAN]
Messages ==
    {m \in [type : OfPortal \cup OfStatement \cup {"Flush", "Sync", "none"},
            name : Portals \cup Statements \cup {"none"},
            statement : Statements \cup {"none"}, flushed : BOOLEAN] :
       /\ m.type \in OfPortal => m.name \in Portals
       /\ m.type \in OfStatement => m.name \in Statements
       /\ m.type = "Bind" => m.statement \in Statements}
Answers == [kind : {"parse", "bind", "describe", "result", "close", "error"}, bind : Nat]

TypeOK ==
    /\ statements \in SUBSET Statements
    /\ portals \in [Portals -> BoundPortals] /\ bound \in [Portals -> BoundPortals]
    /\ pending \in Requests /\ message \in Messages
    /\ failed \in BOOLEAN /\ syncConsumed \in BOOLEAN /\ session \in BOOLEAN
    /\ hung \in BOOLEAN /\ ready \in BOOLEAN
    /\ connected \in SUBSET Burrows
    /\ tunnel \in [Burrows -> TunnelStates]
    /\ binds \in Nat /\ messages \in Nat /\ cycles \in Nat
    /\ expected \in Seq(Answers) /\ answers \in Seq(Answers)
    /\ wanted \in [Burrows -> Seq(Nat)] /\ ran \in [Burrows -> Seq(Nat)]

\* A Tunnel that is out of step with the Proxy.
Astray(b) == tunnel[b].skipping \/ tunnel[b].unread \/ tunnel[b].broken

\* A Tunnel goes astray with a failure that is still to be cleared by a Sync; while
\* none is broken that Sync will reach the Tunnels, and the Proxy has read all it
\* was sent.
Steady ==
    /\ ~hung
    /\ \A b \in Burrows : Astray(b) => session /\ failed
    /\ \A b \in Burrows : tunnel[b].broken => b \in connected
    /\ (\A b \in Burrows : ~tunnel[b].broken)
       => \A b \in Burrows : ~tunnel[b].unread /\ (tunnel[b].skipping => ~syncConsumed)

\* The client waits for the end of its cycle, or has seen it.
Over == message = NoMessage /\ (ready \/ messages > MaxMessages)

\* After an error nothing is held back, and nothing new starts in the cycle.
Failing ==
    /\ failed => ~Succeeded
    /\ ~Succeeded => pending = NoPending /\ (failed \/ Over)
    /\ ready => message = NoMessage /\ ~failed /\ pending = NoPending

\* What is held back is the client's last Bind.
Holding ==
    pending # NoPending
    => /\ session /\ pending.portal \in Portals /\ pending.bind # 0 /\ pending.on # {}
       /\ \/ bound[pending.portal] = [bind |-> pending.bind, on |-> pending.on]
          \/ message.type = "CloseP" /\ message.name = pending.portal

\* The message being handled.
InFlight ==
    /\ message.flushed => /\ message.type \in {"DescribeS", "CloseS", "CloseP"}
                          /\ syncConsumed /\ pending = NoPending
                          /\ \A b \in Burrows : ~Astray(b)
    /\ message.type \in {"Parse", "Bind"} => pending = NoPending
    /\ message.type = "Bind"
       => bound[message.name] = [bind |-> binds, on |-> Route[message.statement]] /\ binds # 0
    /\ message.type = "CloseP" => bound[message.name] = Unbound
    /\ message.type = "Sync" => messages > MaxMessages
    /\ message.type \in {"DescribeP", "Execute"} /\ ~failed
       => LET p == message.name
          IN  /\ bound[p].bind # 0
              /\ \/ /\ pending.portal = p /\ ~pending.execute
                    /\ message.type = "DescribeP" => ~pending.describe
                 \/ /\ pending = NoPending
                    /\ \A b \in bound[p].on : tunnel[b].portals[p] = bound[p].bind

\* The Proxy knows the client's portals.
Known ==
    ~failed /\ ~ready
    => \A p \in Portals :
         bound[p] # Unbound /\ ~(message.type = "Bind" /\ message.name = p)
         => portals[p] = bound[p] /\ bound[p].bind # 0

\* The answers that are still due to what is held back, and to the message.
HeldAnswers ==
    IF pending = NoPending THEN <<>>
    ELSE <<Answer("bind", pending.bind)>>
         \o (IF pending.describe THEN <<Answer("describe", pending.bind)>> ELSE <<>>)
         \o (IF pending.execute THEN <<Answer("result", pending.bind)>> ELSE <<>>)
DueAnswers ==
    CASE message.type = "Parse" -> <<Answer("parse", 0)>>
      [] message.type = "Bind" -> <<Answer("bind", binds)>>
      [] message.type = "DescribeS" -> <<Answer("describe", 0)>>
      [] message.type = "DescribeP" -> <<Answer("describe", bound[message.name].bind)>>
      [] message.type = "Execute" -> <<Answer("result", bound[message.name].bind)>>
      [] message.type \in {"CloseS", "CloseP"} -> <<Answer("close", 0)>>
      [] OTHER -> <<>>

\* What is still to run on a Burrow.
HeldRuns(b) == IF pending.execute /\ b \in pending.on THEN <<pending.bind>> ELSE <<>>
DueRuns(b) ==
    IF message.type = "Execute" /\ b \in bound[message.name].on
    THEN <<bound[message.name].bind>> ELSE <<>>

\* While there is no error, nothing has been lost, doubled or reordered.
Accounted ==
    /\ Succeeded => expected = answers \o HeldAnswers \o DueAnswers
    /\ Succeeded => \A b \in Burrows : wanted[b] = ran[b] \o HeldRuns(b) \o DueRuns(b)
    /\ \A b \in Burrows : IsPrefix(ran[b], wanted[b])

IInv ==
    /\ TypeOK /\ Steady /\ Failing /\ Holding /\ InFlight /\ Known /\ Accounted
    /\ TunnelsInStep

=============================================================================
