---------------------------- MODULE CopySession ----------------------------
(***************************************************************************)
(* One COPY through the Proxy: handleCopyQuery, handleCopyData,            *)
(* handleCopyCompletion, abortCopy and handleCopyOut of server.go, over    *)
(* the streams of CopyFormat, with the Tunnels to two Burrows.             *)
(*                                                                         *)
(* The frontend cuts its data into CopyData frames wherever it likes, and  *)
(* a Burrow cuts its output likewise.  PostgreSQL is external: a Burrow    *)
(* answers a COPY with its start, takes data until CopyDone or CopyFail,   *)
(* and then commits (outside a transaction) or fails as a whole.           *)
(***************************************************************************)
EXTENDS CopyFormat

CONSTANTS
    Requests,    \* the COPY statements, with the data the client or the Burrows hold
    Faults,      \* of "refuse", "reject", "transport": what may go wrong
    MaxRow       \* MaxRowBytes, in tokens

ASSUME CopyAssumption ==
    /\ MaxRow \in Nat
    /\ Faults \subseteq {"refuse", "reject", "transport"}
    /\ \A r \in Requests : /\ r.kind \in {"sharded", "replicated", "out", "file"}
                           /\ r.option \in {"plain", "unsupported", "invalid"}
                           /\ r.format \in {"text", "csv", "binary"}
                           /\ {r.header, r.query, r.where, r.transaction} \subseteq BOOLEAN

Burrows == 1 .. 2

VARIABLES
    request,     \* the COPY under way: what the client asked for
    phase,       \* "query", "copyIn", "copyAborted", "copyOut", "ready", "failed", "released"
    stream,      \* the Proxy's Stream, or the OutputStream of Burrow `at`
    sent,        \* tokens of the request's data sent by the client, or by Burrow `at`
    at,          \* COPY TO: the Burrow being read
    tunnel,      \* Burrow -> [mode, got, committed, unread]
    output,      \* COPY TO: what the client was sent
    answer,      \* "none", "copying", "error" or "complete"
    tag,         \* the row count of the CommandComplete
    readies,     \* ReadyForQuery messages sent for this COPY
    transactionFailed

vars == <<request, phase, stream, sent, at, tunnel, output, answer, tag, readies, transactionFailed>>

\* copyrouter.Parse: a COPY of a query is planned before its options are read.
PlanFormat == IF request.query THEN "text" ELSE request.format
PlanHeader == ~request.query /\ request.header

\* Parse and handleServerSideCopy: a statement that is invalid, names a PROGRAM, or
\* copies a file of a sharded table is refused; options the row router does not
\* implement, and a column list without the shard key, only for sharded input.  Nobody
\* looks for a WHERE clause.
Refused == request.option = "invalid" \/ (request.option = "unsupported" /\ request.kind = "sharded")

Init ==
    /\ request \in Requests
    /\ phase = "query" /\ sent = 0 /\ at = 1
    /\ stream = NewStream(PlanFormat, PlanHeader)
    /\ tunnel = [b \in Burrows |-> [mode |-> "idle", got |-> <<>>, committed |-> FALSE, unread |-> FALSE]]
    /\ output = <<>> /\ answer = "none" /\ tag = 0 /\ readies = 0
    /\ transactionFailed = FALSE

-----------------------------------------------------------------------------
(* Tunnels *)

\* A Burrow's reaction to one message.
Reactions(refusal) == {"ok"} \cup ({refusal, "transport"} \cap Faults)

\* The Burrow whose Tunnel is found lost first, the Burrows being served in order; 3 for none.
FirstLost(reaction) == Min({b \in Burrows : reaction[b] = "transport"} \cup {3})

\* A message goes to every Burrow and the answers are read, in order and up to the
\* first Tunnel found lost, at the flush or at the read.  Reached(b): the message
\* arrived; Read(b): the answer was read.
Losses(reaction) == {"read"} \cup (IF FirstLost(reaction) < 3 THEN {"flush"} ELSE {})
Reached(b, reaction, loss) == loss = "read" \/ b < FirstLost(reaction)
Read(b, reaction, loss) == loss = "read" /\ b < FirstLost(reaction)

\* Session.Close(true) on one Tunnel, with the reset query it sends: PostgreSQL refuses
\* it in COPY FROM mode, and it takes an unread answer for its own unless that is an error.
Reset(t) ==
    IF t.mode \in {"broken", "copyIn"} \/ (t.unread /\ t.mode = "failed")
      THEN [t EXCEPT !.mode = "closed", !.unread = FALSE]
      ELSE [t EXCEPT !.mode = "pooled"]

\* The end of a Query message: outside a transaction the session's Tunnels are released.
EndQuery(p, t) ==
    IF request.transaction THEN phase' = p /\ tunnel' = t
    ELSE phase' = "released" /\ tunnel' = [b \in Burrows |-> Reset(t[b])]

Failed == transactionFailed' = request.transaction

\* An error and ReadyForQuery for the frontend.
SendError ==
    /\ answer' = "error"
    /\ readies' = readies + 1

-----------------------------------------------------------------------------
(* handleCopyQuery *)

Refuse ==
    /\ phase = "query" /\ Refused
    /\ EndQuery("failed", tunnel)
    /\ SendError
    /\ UNCHANGED <<request, stream, sent, at, output, tag, transactionFailed>>

\* handleServerSideCopy of an unsharded table, on the primary Burrow alone.
ServerSide ==
    /\ phase = "query" /\ ~Refused /\ request.kind = "file"
    /\ \E reaction \in Reactions("refuse") :
         LET good == reaction = "ok"
         IN  /\ EndQuery(IF good THEN "ready" ELSE "failed",
                         [tunnel EXCEPT ![1].mode = CASE good -> "idle" [] reaction = "refuse" -> "failed"
                                                      [] OTHER -> "broken",
                                        ![1].committed = good])
             /\ answer' = IF good THEN "complete" ELSE "error"
             /\ readies' = readies + 1
             /\ transactionFailed' = (request.transaction /\ ~good)
    /\ UNCHANGED <<request, stream, sent, at, output, tag>>

Start ==
    /\ phase = "query" /\ ~Refused /\ request.kind # "file"
    /\ \E reaction \in [Burrows -> Reactions("refuse")] : \E loss \in Losses(reaction) :
         LET mode == IF request.kind = "out" THEN "copyOut" ELSE "copyIn"
             started == [b \in Burrows |->
                           IF reaction[b] = "transport" THEN [tunnel[b] EXCEPT !.mode = "broken"]
                           ELSE IF ~Reached(b, reaction, loss) THEN tunnel[b]
                           ELSE [tunnel[b] EXCEPT
                                   !.mode = IF reaction[b] = "refuse" THEN "failed" ELSE mode,
                                   !.unread = ~Read(b, reaction, loss) \/ (reaction[b] # "refuse" /\ mode = "copyOut")]]
         IN  IF \A b \in Burrows : reaction[b] = "ok"
               THEN /\ phase' = mode
                    /\ tunnel' = started
                    /\ stream' = IF mode = "copyOut" THEN NewOutputStream(PlanFormat, PlanHeader, 1) ELSE stream
                    /\ answer' = "copying"
                    /\ UNCHANGED <<readies, transactionFailed>>
               ELSE /\ EndQuery("failed", started)
                    /\ SendError /\ Failed
                    /\ UNCHANGED stream
    /\ UNCHANGED <<request, sent, at, output, tag>>

-----------------------------------------------------------------------------
(* COPY FROM STDIN *)

\* Mutant of Abort: the responses are not drained.
AbortUndrained(t) ==
    /\ tunnel' = [b \in Burrows |-> [t[b] EXCEPT !.mode = IF @ = "copyIn" THEN "failed" ELSE @, !.unread = TRUE]]
    /\ SendError /\ Failed

\* Mutant of Abort: the transaction is left as it was.
AbortKeepsTransaction(t) ==
    /\ tunnel' = [b \in Burrows |->
                    IF \E l \in 1 .. b : t[l].mode = "broken" THEN t[b] ELSE [t[b] EXCEPT !.mode = "failed"]]
    /\ SendError /\ UNCHANGED transactionFailed

\* abortCopy: CopyFail goes out, and the answers are read, in Burrow order and up to
\* the first Tunnel that is broken.
Abort(t) ==
    /\ tunnel' = [b \in Burrows |->
                    IF \E l \in 1 .. b : t[l].mode = "broken" THEN t[b] ELSE [t[b] EXCEPT !.mode = "failed"]]
    /\ SendError /\ Failed

\* sendCopyChunks, or SendCopyTo for a COPY that is not sharded.  A lost Tunnel keeps
\* the Burrows after it from their part.
Delivered(data, lost) ==
    [b \in Burrows |->
       IF b = lost THEN [tunnel[b] EXCEPT !.mode = "broken"]
       ELSE IF lost # 0 /\ b > lost THEN tunnel[b]
       ELSE [tunnel[b] EXCEPT !.got = @ \o data[b]]]

\* The Tunnels that may be found broken while this data is sent; 0 for none.
MayLose(data) == {0} \cup {b \in Burrows : "transport" \in Faults /\ data[b] # <<>>}

Frame(n) == SubSeq(request.data, sent + 1, sent + n)

\* handleCopyData
CopyData(n) ==
    /\ phase = "copyIn" /\ sent + n <= Len(request.data)
    /\ sent' = sent + n
    /\ LET written == Write(stream, PlanFormat, Frame(n), MaxRow)
           sharded == request.kind = "sharded"
           data == [b \in Burrows |-> IF sharded THEN ChunksFor(b, written.chunks) ELSE Frame(n)]
       IN  /\ stream' = IF sharded THEN written ELSE stream
           /\ IF sharded /\ written.error
                THEN phase' = "copyAborted" /\ Abort(tunnel)
                ELSE \E lost \in MayLose(data) :
                       IF lost # 0
                         THEN phase' = "copyAborted" /\ Abort(Delivered(data, lost))
                         ELSE /\ tunnel' = Delivered(data, 0)
                              /\ UNCHANGED <<phase, answer, readies, transactionFailed>>
    /\ UNCHANGED <<request, at, output, tag>>

\* What the frontend had already sent when the Proxy aborted is dropped.
DropCopyData(n) ==
    /\ phase = "copyAborted" /\ sent + n <= Len(request.data)
    /\ sent' = sent + n
    /\ UNCHANGED <<request, phase, stream, at, tunnel, output, answer, tag, readies, transactionFailed>>

DropCompletion ==
    /\ phase = "copyAborted"
    /\ phase' = "ready"
    /\ UNCHANGED <<request, stream, sent, at, tunnel, output, answer, tag, readies, transactionFailed>>

-----------------------------------------------------------------------------
(* PostgreSQL's reading of COPY data *)

\* Where PostgreSQL ends a record: at a newline outside quotes, or without a backslash.
PgEnds(s, format) ==
    {i \in DOMAIN s : /\ s[i] = "n"
                      /\ IF format = "csv"
                           THEN Cardinality({j \in 1 .. i : s[j] = "q"}) % 2 = 0
                           ELSE Backslashes(s, i) % 2 = 0}

PgDelimited(s, format) ==
    LET cuts == PgEnds(s, format) \cup {0, Len(s)}
        starts == SetToSortSeq(cuts \ {Len(s)}, <)
        After(c) == Min({e \in cuts : e > c})
    IN  [i \in DOMAIN starts |-> Trimmed(SubSeq(s, starts[i] + 1, After(starts[i])))]

\* The rows of a binary stream, every field of one token.
PgBinary(s) ==
    LET heads == SetToSortSeq({i \in DOMAIN s : s[i] = "c"}, <)
    IN  [i \in DOMAIN heads |-> SubSeq(s, heads[i], heads[i] + 2)]

\* What follows the end-of-data line is ignored.
PgRows(s, format, header) ==
    IF format = "binary" THEN PgBinary(s)
    ELSE LET records == PgDelimited(s, format)
             rows == IF header /\ records # <<>> THEN Tail(records) ELSE records
             ends == {i \in DOMAIN rows : rows[i] = <<"eof">>}
         IN  IF ends = {} THEN rows ELSE SubSeq(rows, 1, Min(ends) - 1)

\* The rows a Burrow stores: with a WHERE clause (the rows that mention k1) not all.
PgStores(s) ==
    SelectSeq(PgRows(s, request.format, request.header), LAMBDA r : request.where => "k1" \in Range(r))

\* PostgreSQL refuses a stream that ends inside quotes.
PgAccepts(s, format) == format = "csv" => Cardinality({j \in DOMAIN s : s[j] = "q"}) % 2 = 0

-----------------------------------------------------------------------------
(* handleCopyCompletion *)

\* mergedCopyFromTag over the Burrows' own counts.
Tag(t) ==
    LET Count(b) == Len(PgStores(t[b].got))
    IN  IF request.kind = "replicated" THEN [rows |-> Count(1), ok |-> Count(1) = Count(2)]
        ELSE [rows |-> Count(1) + Count(2), ok |-> Count(1) + Count(2) = stream'.rows]

\* CopyDone or CopyFail on its way to the Burrows, t being the Tunnels it finds.  A
\* Burrow whose Tunnel is lost then counts as one that committed.
Completed(message, t, reaction, loss) ==
    [b \in Burrows |->
       LET accepted == message = "CopyDone" /\ reaction[b] = "ok" /\ PgAccepts(t[b].got, request.format)
       IN  IF reaction[b] = "transport" THEN [t[b] EXCEPT !.mode = "broken", !.committed = message = "CopyDone"]
           ELSE IF ~Reached(b, reaction, loss) THEN t[b]
           ELSE [t[b] EXCEPT !.mode = IF accepted THEN "idle" ELSE "failed", !.committed = accepted,
                             !.unread = ~Read(b, reaction, loss)]]

\* The completions that end the stream.
Finalise(message) == message = "CopyDone" /\ request.kind = "sharded"

Complete(message) ==
    /\ phase = "copyIn"
    /\ message = "CopyDone" => sent = Len(request.data)
    /\ phase' = "ready"
    /\ LET finished == IF Finalise(message) THEN Finish(stream, PlanFormat) ELSE [stream EXCEPT !.chunks = <<>>]
           data == [b \in Burrows |-> ChunksFor(b, finished.chunks)]
       IN  /\ stream' = finished
           /\ IF finished.error THEN Abort(tunnel) /\ UNCHANGED tag
              ELSE \E lost \in MayLose(data) :
                     IF lost # 0 THEN Abort(Delivered(data, lost)) /\ UNCHANGED tag
                     ELSE \E reaction \in [Burrows -> Reactions("reject")] : \E loss \in Losses(reaction) :
                            LET after == Completed(message, Delivered(data, 0), reaction, loss)
                                good == \A b \in Burrows : after[b].mode = "idle"
                            IN  /\ tunnel' = after
                                /\ tag' = IF good /\ Tag(after).ok THEN Tag(after).rows ELSE tag
                                /\ answer' = IF good /\ Tag(after).ok THEN "complete" ELSE "error"
                                /\ readies' = readies + 1
                                /\ transactionFailed' = (request.transaction /\ ~good)
    /\ UNCHANGED <<request, sent, at, output>>

\* The Sync, or the end of the Query, that follows a COPY FROM.
Release ==
    /\ phase = "ready" /\ ~request.transaction
    /\ EndQuery("released", tunnel)
    /\ UNCHANGED <<request, stream, sent, at, output, answer, tag, readies, transactionFailed>>

-----------------------------------------------------------------------------
(* handleCopyOut *)

\* One CopyData of Burrow `at`.
Relay(n) ==
    /\ phase = "copyOut" /\ sent + n <= Len(request.exports[at])
    /\ stream' = WriteOutput(stream, PlanFormat, at, SubSeq(request.exports[at], sent + 1, sent + n), MaxRow)
    /\ sent' = sent + n
    /\ IF stream'.error
         THEN /\ EndQuery("failed", tunnel)
              /\ SendError /\ Failed
              /\ UNCHANGED output
         ELSE /\ output' = output \o stream'.out
              /\ UNCHANGED <<phase, tunnel, answer, readies, transactionFailed>>
    /\ UNCHANGED <<request, at, tag>>

\* Burrow `at` fails, or its Tunnel does.
OutFails ==
    /\ phase = "copyOut"
    /\ \E reaction \in Reactions("reject") \ {"ok"} :
         EndQuery("failed", [tunnel EXCEPT ![at].mode = IF reaction = "reject" THEN "failed" ELSE "broken",
                                           ![at].unread = FALSE])
    /\ SendError /\ Failed
    /\ UNCHANGED <<request, stream, sent, at, output, tag>>

\* Burrow `at` has sent its CommandComplete and ReadyForQuery.
OutDone ==
    LET read == [tunnel EXCEPT ![at].mode = "idle", ![at].unread = FALSE]
        Count(b) == Len(PgRows(request.exports[b], request.format, request.header))
    IN  /\ phase = "copyOut" /\ sent = Len(request.exports[at])
        /\ IF ~OutputComplete(stream, PlanFormat)
             THEN EndQuery("failed", read) /\ SendError /\ UNCHANGED <<stream, sent, at, tag>>
             ELSE IF at = 1
             THEN /\ at' = 2 /\ sent' = 0
                  /\ stream' = NewOutputStream(PlanFormat, PlanHeader, 2)
                  /\ tunnel' = read
                  /\ UNCHANGED <<phase, answer, tag, readies>>
             ELSE /\ EndQuery("ready", read)
                  /\ answer' = "complete"
                  /\ tag' = Count(1) + Count(2)
                  /\ readies' = readies + 1
                  /\ UNCHANGED <<stream, sent, at>>
        /\ UNCHANGED <<request, output, transactionFailed>>

-----------------------------------------------------------------------------

Next ==
    \/ Refuse
    \/ ServerSide
    \/ Start
    \/ \E n \in 1 .. Len(request.data) - sent : CopyData(n) \/ DropCopyData(n)
    \/ \E message \in {"CopyDone", "CopyFail"} : Complete(message)
    \/ DropCompletion
    \/ Release
    \/ \E n \in 1 .. Len(request.exports[at]) - sent : Relay(n)
    \/ OutFails
    \/ OutDone

Spec == Init /\ [][Next]_vars

-----------------------------------------------------------------------------
(* Properties *)

RowsOf(s) == PgRows(s, request.format, request.header)
OwnerOf(r) == IF request.format = "binary" THEN Owner(r[3]) ELSE RowTarget(r, request.format)

\* A COPY FROM that is answered with CommandComplete has put every row PostgreSQL would
\* store from the client's stream, once and in order, on the Burrow that owns it (on
\* every Burrow for a replicated table), and its tag counts each row once: however the
\* stream was cut into CopyData messages (Stream.Write, Finish, mergedCopyFromTag).
RowsReachTheirOwner ==
    answer = "complete" /\ request.kind \in {"sharded", "replicated"} =>
      /\ tag = Len(PgStores(request.data))
      /\ \A b \in Burrows :
           PgStores(tunnel[b].got) = SelectSeq(PgStores(request.data),
                                               LAMBDA r : request.kind = "sharded" => OwnerOf(r) = b)

\* What makes a sharded stream unusable: a row without an owner, a quote left open, a
\* missing header or, in binary, anything but one envelope around rows with a key.
Unusable ==
    IF request.format = "binary"
      THEN \/ Len(request.data) < 3
           \/ Last(request.data) # "t"
           \/ request.data # <<"h1", "h2">> \o FlattenSeq(RowsOf(request.data)) \o <<"t">>
           \/ \E i \in DOMAIN RowsOf(request.data) : RowsOf(request.data)[i][3] \notin Keys
      ELSE \/ ~PgAccepts(request.data, request.format)
           \/ request.header /\ request.data = <<>>
           \/ \E i \in DOMAIN RowsOf(request.data) : RowTarget(RowsOf(request.data)[i], request.format) = 0

\* A sharded stream that is unusable anywhere commits nothing on any Burrow, not even
\* the rows that were routed before (handleCopyData, handleCopyCompletion, abortCopy:
\* a Burrow never sees CopyDone).
UnusableCommitsNothing ==
    request.kind = "sharded" /\ Unusable => \A b \in Burrows : ~tunnel[b].committed

\* While a sharded COPY runs, the Proxy has routed exactly the rows that are complete in
\* what it was sent, and retains no more than one incomplete row: the routing keeps up
\* with the input wherever the frames end (consumeDelimited, consumeBinary).
RoutingKeepsUp ==
    phase = "copyIn" /\ request.kind = "sharded" =>
      LET received == SubSeq(request.data, 1, sent)
          whole == IF request.format = "binary"
                     THEN Cardinality({i \in DOMAIN received : i > 2 /\ received[i - 2] = "c"})
                     ELSE Cardinality({i \in PgEnds(received, request.format) : i = 1 \/ received[i - 1] # "eof"})
                          - (IF request.header /\ ~stream.header THEN 1 ELSE 0)
      IN  /\ stream.rows = whole
          /\ request.format # "binary" => PgEnds(stream.buffer, request.format) = {}
          /\ Len(stream.buffer) <= MaxRow

\* A COPY FROM that was started and is over leaves every Tunnel that still works out
\* of COPY mode with its answer read: an aborted COPY is drained before ReadyForQuery
\* (abortCopy), a completed one is read from every Burrow.
DrainedWhenReady ==
    phase \in {"copyAborted", "ready"} /\ (\A b \in Burrows : tunnel[b].mode # "broken") =>
      \A b \in Burrows : tunnel[b].mode # "copyIn" /\ ~tunnel[b].unread

\* PostgreSQL may store fewer rows of a stream than the Proxy routes: there is a WHERE
\* clause, or something follows the end-of-data line.
StoresFewer ==
    request.where \/ \E i \in DOMAIN request.data : request.data[i] = "eof" /\ i < Len(request.data) - 1

\* The client is told of an error after a Burrow has committed only if another Burrow
\* refused the COPY, or its Tunnel was lost, or a sharded stream is one of which
\* PostgreSQL stores less than the Proxy routes.  For all other streams the Proxy's own
\* checks, of the stream and of the row counts (mergedCopyFromTag), never fail once
\* CopyDone is out.
ErrorAfterCommitIsTheBurrows ==
    phase = "ready" /\ answer = "error" /\ (\E b \in Burrows : tunnel[b].committed) =>
      \/ \E b \in Burrows : tunnel[b].mode \in {"failed", "broken"}
      \/ request.kind = "sharded" /\ StoresFewer

\* Inside a transaction a COPY whose error leaves a Burrow failed or its Tunnel lost has
\* failed the transaction, and the COPY is answered by exactly one ReadyForQuery
\* (handleCopyQuery, handleCopyCompletion, abortCopy and handleCopyOut).  An error after
\* which every Burrow still works, of mergedCopyFromTag, leaves the transaction as it is.
ErrorFailsTransaction ==
    /\ readies = (IF phase \in {"query", "copyIn", "copyOut"} THEN 0 ELSE 1)
    /\ answer = "error" /\ ~Refused /\ (\E b \in Burrows : tunnel[b].mode \in {"failed", "broken"}) =>
         transactionFailed = request.transaction

\* A stream without its second envelope.
Merged ==
    LET first == request.exports[1]
        second == request.exports[2]
    IN  IF request.format = "binary"
          THEN Front(first) \o SubSeq(second, 3, Len(second))
          ELSE IF request.header
          THEN first \o SubSeq(second, Min(PgEnds(second, request.format)) + 1, Len(second))
          ELSE first \o second

\* What the client of a COPY TO has received is at every moment the beginning of one
\* stream, the Burrows' rows in order under one CSV header or in one binary envelope,
\* and at CommandComplete all of it (OutputStream, handleCopyOut).
OneOutputStream ==
    request.kind = "out" =>
      /\ IsPrefix(output, Merged)
      /\ answer = "complete" => output = Merged /\ tag = Len(RowsOf(Merged))

\* A Tunnel goes back to its pool only at a clean boundary, with no answer to the COPY
\* left unread (Session.Close after handleCopyQuery).
NoAnswerLeftUnread ==
    \A b \in Burrows : tunnel[b].mode = "pooled" => ~tunnel[b].unread

\* No row longer than the routing limit is sent to a Burrow (Stream.Write).
RowLimitHolds ==
    request.kind = "sharded" =>
      \A b \in Burrows : \A i \in DOMAIN RowsOf(tunnel[b].got) : Len(RowsOf(tunnel[b].got)[i]) <= MaxRow

=============================================================================
