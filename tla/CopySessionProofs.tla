------------------------- MODULE CopySessionProofs -------------------------
(***************************************************************************)
(* Proofs about CopySession, for any COPY statements and data, every mix   *)
(* of faults and every cut of the data into frames.  They are about the    *)
(* control of a COPY: what the streams compute does not matter to them.    *)
(***************************************************************************)
EXTENDS CopySession, TLAPS

UnderWay == {"query", "copyIn", "copyOut"}
Over     == {"copyAborted", "ready", "failed", "released"}

\* Each Tunnel has the fields of a Tunnel.
HasFields(t) == {"mode", "got", "committed", "unread"} \subseteq DOMAIN t
Shaped(t) == t = [b \in Burrows |-> t[b]] /\ \A b \in Burrows : HasFields(t[b])

\* What the Tunnels are doing while a COPY is under way: none is lost and no answer is
\* due in COPY FROM; in COPY TO the Burrows before `at` are done.
AtWork ==
    /\ phase = "query"   => at = 1 /\ \A b \in Burrows : tunnel[b].mode = "idle" /\ tunnel[b].unread = FALSE
    /\ phase = "copyIn"  => \A b \in Burrows : tunnel[b].mode = "copyIn" /\ tunnel[b].unread = FALSE
    /\ phase = "copyOut" => \A b \in Burrows : IF b < at THEN tunnel[b].mode = "idle" /\ tunnel[b].unread = FALSE
                                               ELSE tunnel[b].mode = "copyOut"

\* A COPY is answered by one ReadyForQuery, sent when it is over and not before; until
\* then the client has been told of no error (handleCopyQuery, handleCopyCompletion,
\* abortCopy and handleCopyOut).
AnsweredOnce ==
    /\ readies = (IF phase \in UnderWay THEN 0 ELSE 1)
    /\ phase \in UnderWay => answer # "error"

\* Inside a transaction, an error that leaves a Burrow's Tunnel lost or its COPY failed
\* has failed the transaction (state.transactionFailed after handleCopyQuery,
\* handleCopyCompletion, abortCopy and handleCopyOut).
BurrowErrorFailsTransaction ==
    answer = "error" /\ ~Refused /\ (\E b \in Burrows : tunnel[b].mode \in {"failed", "broken"}) =>
      transactionFailed = request.transaction

\* The inductive invariant.
IInv ==
    /\ request \in Requests
    /\ phase \in UnderWay \cup Over
    /\ at \in Burrows
    /\ Shaped(tunnel)
    /\ AtWork
    /\ ~request.transaction => transactionFailed = FALSE
    /\ DrainedWhenReady
    /\ AnsweredOnce
    /\ BurrowErrorFailsTransaction

\* What each update of a Tunnel does to it (the updates of CopySession).
LEMMA ModeUpdate ==
    ASSUME NEW t, HasFields(t), NEW m, NEW v, v = [t EXCEPT !.mode = m]
    PROVE  HasFields(v) /\ v.mode = m /\ v.unread = t.unread
BY Zenon DEF HasFields

\* Data that is sent changes neither the mode of a Tunnel nor what is due from it.
LEMMA DataUpdate ==
    ASSUME NEW t, HasFields(t), NEW g, NEW v, v = [t EXCEPT !.got = g]
    PROVE  HasFields(v) /\ v.mode = t.mode /\ v.unread = t.unread
BY Zenon DEF HasFields

\* Of the Tunnels f, only x has changed, to mode m and what is due to u.
OnlyOne(t, f, x, m, u) ==
    /\ t = [b \in Burrows |-> t[b]]
    /\ HasFields(t[x]) /\ t[x].mode = m /\ t[x].unread = u
    /\ \A b \in Burrows \ {x} : t[b] = f[b]

\* A change of one Tunnel's mode with the fate of its data.
LEMMA FateUpdate ==
    ASSUME NEW f, f = [b \in Burrows |-> f[b]], NEW x \in Burrows, HasFields(f[x]), NEW m, NEW c,
           NEW t, t = [f EXCEPT ![x].mode = m, ![x].committed = c]
    PROVE  OnlyOne(t, f, x, m, f[x].unread)
<1>1. t = [b \in Burrows |-> t[b]]
    BY Zenon
<1>2. \A b \in Burrows \ {x} : t[b] = f[b]
    BY Zenon
<1>3. HasFields(t[x])
    BY Zenon DEF HasFields
<1>4. t[x].mode = m
    BY Zenon DEF HasFields
<1>5. t[x].unread = f[x].unread
    BY Zenon DEF HasFields
<1> QED BY <1>1, <1>2, <1>3, <1>4, <1>5 DEF OnlyOne

\* A change of one Tunnel's mode with what is due from it.
LEMMA ReadUpdate ==
    ASSUME NEW f, f = [b \in Burrows |-> f[b]], NEW x \in Burrows, HasFields(f[x]), NEW m, NEW c,
           NEW t, t = [f EXCEPT ![x].mode = m, ![x].unread = c]
    PROVE  OnlyOne(t, f, x, m, c)
<1>1. t = [b \in Burrows |-> t[b]]
    BY Zenon
<1>2. \A b \in Burrows \ {x} : t[b] = f[b]
    BY Zenon
<1>3. HasFields(t[x])
    BY Zenon DEF HasFields
<1>4. t[x].mode = m
    BY Zenon DEF HasFields
<1>5. t[x].unread = c
    BY Zenon DEF HasFields
<1> QED BY <1>1, <1>2, <1>3, <1>4, <1>5 DEF OnlyOne

\* Session.Close leaves a Tunnel with its fields.
LEMMA ResetFields ==
    ASSUME NEW t, HasFields(t)
    PROVE  HasFields(Reset(t))
BY Zenon DEF Reset, HasFields

\* What the Tunnels look like when a COPY is over: drained, unless one is lost.
Drained(t) ==
    (\A b \in Burrows : t[b].mode # "broken") =>
      \A b \in Burrows : t[b].mode # "copyIn" /\ t[b].unread = FALSE

\* The ways a COPY ends: with an error that fails the transaction if a Burrow is
\* involved, or without.
Told(t) ==
    /\ readies' = readies + 1
    /\ answer' = "error" /\ ~Refused /\ (\E b \in Burrows : t[b].mode \in {"failed", "broken"}) =>
         transactionFailed' = request.transaction
    /\ ~request.transaction => transactionFailed' = FALSE

\* The end of a COPY that stays in its phase until Sync, or that a Query's end
\* releases, keeps the invariant.
LEMMA OverKeeps ==
    ASSUME IInv, phase \in UnderWay, phase' \in Over, request' = request, at' = at,
           Shaped(tunnel'), Told(tunnel'),
           phase' \in {"copyAborted", "ready"} => Drained(tunnel')
    PROVE  IInv'
<1>1. readies = 0 /\ readies' = 1
    BY DEF IInv, AnsweredOnce, Told
<1>2. phase' \notin UnderWay
    BY Zenon DEF Over, UnderWay
<1>3. AnsweredOnce'
    BY <1>1, <1>2, Zenon DEF AnsweredOnce
<1>4. AtWork'
    BY <1>2, Zenon DEF AtWork, UnderWay
<1>5. DrainedWhenReady'
    BY Zenon DEF DrainedWhenReady, Drained
<1>6. Refused' = Refused
    BY Zenon DEF Refused
<1>7. BurrowErrorFailsTransaction'
    BY <1>6, Zenon DEF BurrowErrorFailsTransaction, Told
<1>8. (~request.transaction => transactionFailed = FALSE)'
    BY Zenon DEF Told
<1> QED BY <1>3, <1>4, <1>5, <1>7, <1>8, Zenon DEF IInv

\* A COPY of a known request is inside a transaction or not.
LEMMA TransactionFlag ==
    ASSUME IInv
    PROVE  request.transaction \in BOOLEAN
BY CopyAssumption, Zenon DEF IInv

\* EndQuery, whatever it does with the Tunnels, keeps the invariant.
LEMMA EndQueryKeeps ==
    ASSUME IInv, phase \in UnderWay, request' = request, at' = at,
           NEW p \in {"failed", "ready"}, NEW t, EndQuery(p, t), Shaped(t), Told(t),
           p = "ready" => Drained(t)
    PROVE  IInv'
<1>1. CASE request.transaction
  <2>1. phase' = p /\ tunnel' = t
      BY <1>1, Zenon DEF EndQuery
  <2> QED BY <2>1, OverKeeps, Zenon DEF Over
<1>2. CASE ~request.transaction
  <2>1. phase' = "released" /\ tunnel' = [b \in Burrows |-> Reset(t[b])]
      BY <1>2, Zenon DEF EndQuery
  <2>2. Shaped(tunnel')
    <3>1. \A b \in Burrows : HasFields(tunnel'[b])
        BY <2>1, ResetFields, Zenon DEF Shaped
    <3>2. tunnel' = [b \in Burrows |-> tunnel'[b]]
        BY <2>1, Zenon
    <3> QED BY <3>1, <3>2, Zenon DEF Shaped
  <2>3. request.transaction = FALSE
      BY <1>2, TransactionFlag, Zenon
  <2>4. Told(tunnel')
      BY <1>2, <2>3, Zenon DEF Told
  <2> QED BY <2>1, <2>2, <2>4, OverKeeps, Zenon DEF Over
<1> QED BY <1>1, <1>2, Zenon

\* The initial states satisfy the invariant.
LEMMA InitKeeps == ASSUME Init PROVE IInv
<1>1. \A b \in Burrows : HasFields(tunnel[b]) /\ tunnel[b].mode = "idle" /\ tunnel[b].unread = FALSE
    BY Zenon DEF Init, HasFields
<1>2. tunnel = [b \in Burrows |-> tunnel[b]]
    BY Zenon DEF Init
<1>3. Shaped(tunnel)
    BY <1>1, <1>2, Zenon DEF Shaped
<1>4. phase = "query" /\ at = 1 /\ request \in Requests /\ readies = 0 /\ answer = "none" /\ transactionFailed = FALSE
    BY Zenon DEF Init
<1>5. AtWork /\ DrainedWhenReady /\ AnsweredOnce /\ BurrowErrorFailsTransaction
    BY <1>1, <1>4, Zenon DEF AtWork, DrainedWhenReady, AnsweredOnce, BurrowErrorFailsTransaction, UnderWay
<1> QED BY <1>3, <1>4, <1>5 DEF IInv, UnderWay, Over, Burrows

\* When no Tunnel is found lost every answer is read (Session.ReceiveUntilFromMany).
LEMMA NoneLost ==
    ASSUME NEW reaction, \A b \in Burrows : reaction[b] # "transport", NEW loss \in Losses(reaction)
    PROVE  \A b \in Burrows : Reached(b, reaction, loss) /\ Read(b, reaction, loss)
<1>1. {b \in Burrows : reaction[b] = "transport"} \cup {3} = {3}
    BY Zenon
<1>2. FirstLost(reaction) = 3
    BY <1>1 DEF FirstLost, Min
<1>3. loss = "read"
    BY <1>2 DEF Losses
<1> QED BY <1>2, <1>3 DEF Reached, Read, Burrows

\* Refuse keeps the invariant.
LEMMA RefuseKeeps == ASSUME IInv, Refuse PROVE IInv'
<1>1. phase \in UnderWay /\ request' = request /\ at' = at /\ EndQuery("failed", tunnel) /\ Shaped(tunnel)
    BY Zenon DEF Refuse, UnderWay, IInv
<1>2. Told(tunnel)
    BY Zenon DEF Refuse, Told, SendError, IInv
<1> QED BY <1>1, <1>2, EndQueryKeeps, Zenon

\* ServerSide keeps the invariant.
LEMMA ServerSideKeeps == ASSUME IInv, ServerSide PROVE IInv'
<1>1. phase = "query" /\ request' = request /\ at' = at
    BY Zenon DEF ServerSide
<1>2. PICK reaction \in Reactions("refuse") :
         LET good == reaction = "ok"
         IN  /\ EndQuery(IF good THEN "ready" ELSE "failed",
                         [tunnel EXCEPT ![1].mode = CASE good -> "idle" [] reaction = "refuse" -> "failed"
                                                      [] OTHER -> "broken",
                                        ![1].committed = good])
             /\ answer' = IF good THEN "complete" ELSE "error"
             /\ readies' = readies + 1
             /\ transactionFailed' = (request.transaction /\ ~good)
    BY Zenon DEF ServerSide
<1> DEFINE good == reaction = "ok"
           mode == CASE good -> "idle" [] reaction = "refuse" -> "failed" [] OTHER -> "broken"
           t == [tunnel EXCEPT ![1].mode = mode, ![1].committed = good]
           p == IF good THEN "ready" ELSE "failed"
<1>3. /\ EndQuery(p, t) /\ answer' = (IF good THEN "complete" ELSE "error")
      /\ readies' = readies + 1 /\ transactionFailed' = (request.transaction /\ ~good)
    BY <1>2, Zenon
<1>4. good => mode = "idle"
    BY Zenon
<1>5. p \in {"failed", "ready"} /\ (p = "ready" => good)
    BY Zenon
<1> HIDE DEF mode
<1>6. /\ 1 \in Burrows /\ HasFields(tunnel[1]) /\ HasFields(tunnel[2])
      /\ tunnel = [b \in Burrows |-> tunnel[b]]
    BY DEF IInv, Shaped, Burrows
<1>7. t = [tunnel EXCEPT ![1].mode = mode, ![1].committed = good]
    BY Zenon
<1> HIDE DEF t, p, good
<1>8. OnlyOne(t, tunnel, 1, mode, tunnel[1].unread)
    BY <1>6, <1>7, FateUpdate, Zenon
<1>9. \A b \in Burrows : tunnel[b].mode = "idle" /\ tunnel[b].unread = FALSE
    BY <1>1, Zenon DEF IInv, AtWork
<1>10. Shaped(t)
    BY <1>6, <1>8 DEF OnlyOne, Shaped, Burrows
<1>11. p = "ready" => Drained(t)
    BY <1>4, <1>5, <1>8, <1>9, Zenon DEF OnlyOne, Drained, Burrows
<1>12. Told(t)
  <2>1. request.transaction \in BOOLEAN
      BY TransactionFlag, Zenon
  <2>2. answer' = "error" => ~good
      BY <1>3, Zenon
  <2>3. answer' = "error" => transactionFailed' = request.transaction
      BY <1>3, <2>1, <2>2
  <2>4. ~request.transaction => transactionFailed' = FALSE
      BY <1>3, Zenon
  <2> QED BY <1>3, <2>3, <2>4, Zenon DEF Told
<1>13. phase \in UnderWay
    BY <1>1, Zenon DEF UnderWay
<1> QED BY <1>1, <1>3, <1>5, <1>10, <1>11, <1>12, <1>13, EndQueryKeeps, Zenon

\* Start keeps the invariant.
LEMMA StartKeeps == ASSUME IInv, Start PROVE IInv'
<1> DEFINE mode == IF request.kind = "out" THEN "copyOut" ELSE "copyIn"
           started(reaction, loss) ==
             [b \in Burrows |->
                IF reaction[b] = "transport" THEN [tunnel[b] EXCEPT !.mode = "broken"]
                ELSE IF ~Reached(b, reaction, loss) THEN tunnel[b]
                ELSE [tunnel[b] EXCEPT
                        !.mode = IF reaction[b] = "refuse" THEN "failed" ELSE mode,
                        !.unread = ~Read(b, reaction, loss) \/ (reaction[b] # "refuse" /\ mode = "copyOut")]]
<1>1. phase = "query" /\ request' = request /\ at' = at
    BY Zenon DEF Start
<1>2. PICK reaction \in [Burrows -> Reactions("refuse")] : \E loss \in Losses(reaction) :
         IF \A b \in Burrows : reaction[b] = "ok"
           THEN /\ phase' = mode
                /\ tunnel' = started(reaction, loss)
                /\ stream' = IF mode = "copyOut" THEN NewOutputStream(PlanFormat, PlanHeader, 1) ELSE stream
                /\ answer' = "copying"
                /\ UNCHANGED <<readies, transactionFailed>>
           ELSE /\ EndQuery("failed", started(reaction, loss))
                /\ SendError /\ Failed
                /\ UNCHANGED stream
    BY Zenon DEF Start
<1>3. PICK loss \in Losses(reaction) :
         IF \A b \in Burrows : reaction[b] = "ok"
           THEN /\ phase' = mode
                /\ tunnel' = started(reaction, loss)
                /\ stream' = IF mode = "copyOut" THEN NewOutputStream(PlanFormat, PlanHeader, 1) ELSE stream
                /\ answer' = "copying"
                /\ UNCHANGED <<readies, transactionFailed>>
           ELSE /\ EndQuery("failed", started(reaction, loss))
                /\ SendError /\ Failed
                /\ UNCHANGED stream
    BY <1>2, Zenon
<1> DEFINE t == started(reaction, loss)
<1>4. t = [b \in Burrows |-> t[b]]
    BY Zenon
<1>5. \A b \in Burrows : HasFields(tunnel[b])
    BY Zenon DEF IInv, Shaped
<1>6. \A b \in Burrows : HasFields(t[b])
    BY <1>5, Zenon DEF HasFields
<1>7. CASE \A b \in Burrows : reaction[b] = "ok"
  <2>1. \A b \in Burrows : Reached(b, reaction, loss) /\ Read(b, reaction, loss)
      BY <1>7, NoneLost, Zenon
  <2>2. \A b \in Burrows : t[b] = [tunnel[b] EXCEPT !.mode = mode, !.unread = (mode = "copyOut")]
      BY <1>7, <2>1, Zenon
  <2>3. \A b \in Burrows : t[b].mode = mode /\ t[b].unread = (mode = "copyOut")
    <3> DEFINE due == mode = "copyOut"
    <3>1. \A b \in Burrows : t[b] = [tunnel[b] EXCEPT !.mode = mode, !.unread = due]
        BY <2>2, Zenon
    <3> HIDE DEF t, mode, due
    <3>2. \A b \in Burrows : t[b].mode = mode /\ t[b].unread = due
        BY ONLY <1>5, <3>1, Zenon DEF HasFields
    <3> QED BY <3>2, Zenon DEF due
  <2>4. /\ phase' = mode /\ tunnel' = t /\ answer' = "copying"
        /\ readies' = readies /\ transactionFailed' = transactionFailed
      BY <1>3, <1>7, Zenon
  <2>5. mode \in {"copyIn", "copyOut"}
      BY Zenon
  <2> HIDE DEF t, mode
  <2>6. Shaped(tunnel')
      BY <1>4, <1>6, <2>4, Zenon DEF Shaped
  <2>7. AtWork'
    <3>1. CASE mode = "copyIn"
      <4>1. \A b \in Burrows : tunnel'[b].mode = "copyIn" /\ tunnel'[b].unread = FALSE
          BY <2>3, <2>4, <3>1, Zenon
      <4>2. phase' = "copyIn"
          BY <2>4, <3>1, Zenon
      <4> QED BY <4>1, <4>2, Zenon DEF AtWork
    <3>2. CASE mode = "copyOut"
      <4>1. \A b \in Burrows : tunnel'[b].mode = "copyOut"
          BY <2>3, <2>4, <3>2, Zenon
      <4>2. phase' = "copyOut"
          BY <2>4, <3>2, Zenon
      <4>3. at' = 1
          BY <1>1, Zenon DEF IInv, AtWork
      <4> QED BY <4>1, <4>2, <4>3 DEF AtWork, Burrows
    <3> QED BY <2>5, <3>1, <3>2, Zenon
  <2>8. phase' \in UnderWay
      BY <2>4, <2>5, Zenon DEF UnderWay
  <2>9. DrainedWhenReady' /\ BurrowErrorFailsTransaction'
      BY <2>4, <2>5, Zenon DEF DrainedWhenReady, BurrowErrorFailsTransaction
  <2>10. AnsweredOnce'
      BY <1>1, <2>4, <2>8, Zenon DEF IInv, AnsweredOnce, UnderWay
  <2> QED BY <1>1, <2>4, <2>6, <2>7, <2>8, <2>9, <2>10 DEF IInv
<1>8. CASE ~(\A b \in Burrows : reaction[b] = "ok")
  <2>1. EndQuery("failed", t) /\ SendError /\ Failed
      BY <1>3, <1>8, Zenon
  <2> HIDE DEF t
  <2>2. Shaped(t)
      BY <1>4, <1>6, Zenon DEF Shaped
  <2>3. Told(t)
      BY <2>1, TransactionFlag, Zenon DEF Told, SendError, Failed
  <2>4. phase \in UnderWay
      BY <1>1, Zenon DEF UnderWay
  <2> QED BY <1>1, <2>1, <2>2, <2>3, <2>4, EndQueryKeeps
<1> QED BY <1>7, <1>8, Zenon

\* abortCopy, on Tunnels from which nothing is due, keeps the invariant.
LEMMA AbortKeeps ==
    ASSUME IInv, phase \in UnderWay, phase' \in {"copyAborted", "ready"}, request' = request, at' = at,
           NEW t, Shaped(t), \A b \in Burrows : t[b].unread = FALSE, Abort(t)
    PROVE  IInv'
<1> DEFINE lost(b) == \E l \in 1 .. b : t[l].mode = "broken"
<1>1. /\ tunnel' = [b \in Burrows |-> IF lost(b) THEN t[b] ELSE [t[b] EXCEPT !.mode = "failed"]]
      /\ SendError /\ Failed
    BY Zenon DEF Abort
<1>2. tunnel' = [b \in Burrows |-> tunnel'[b]]
    BY <1>1, Zenon
<1>3. \A b \in Burrows : /\ HasFields(tunnel'[b]) /\ tunnel'[b].unread = FALSE
                         /\ tunnel'[b].mode = IF lost(b) THEN t[b].mode ELSE "failed"
  <2> SUFFICES ASSUME NEW b \in Burrows
               PROVE  /\ HasFields(tunnel'[b]) /\ tunnel'[b].unread = FALSE
                      /\ tunnel'[b].mode = IF lost(b) THEN t[b].mode ELSE "failed"
      BY Zenon
  <2>1. HasFields(t[b]) /\ t[b].unread = FALSE
      BY Zenon DEF Shaped
  <2>2. CASE lost(b)
      BY <1>1, <2>1, <2>2
  <2>3. CASE ~lost(b)
    <3>1. tunnel'[b] = [t[b] EXCEPT !.mode = "failed"]
        BY <1>1, <2>3, Zenon
    <3> QED BY <2>1, <2>3, <3>1, ModeUpdate
  <2> QED BY <2>2, <2>3, Zenon
<1>4. Shaped(tunnel')
    BY <1>2, <1>3, Zenon DEF Shaped
<1>5. Drained(tunnel')
  <2> SUFFICES ASSUME \A b \in Burrows : tunnel'[b].mode # "broken"
               PROVE  \A b \in Burrows : tunnel'[b].mode = "failed"
      BY <1>3, Zenon DEF Drained
  <2>1. \A b \in Burrows : t[b].mode # "broken"
    <3> SUFFICES ASSUME NEW b \in Burrows, t[b].mode = "broken" PROVE FALSE
        BY Zenon
    <3>1. lost(b)
        BY DEF Burrows
    <3> QED BY <1>3, <3>1, Zenon
  <2>2. \A b \in Burrows : ~lost(b)
      BY <2>1 DEF Burrows
  <2> QED BY <1>3, <2>2, Zenon
<1>6. Told(tunnel')
    BY <1>1, TransactionFlag, Zenon DEF Told, SendError, Failed
<1> QED BY <1>4, <1>5, <1>6, OverKeeps DEF Over

\* sendCopyChunks leaves nothing due, and all Tunnels in COPY mode unless one is lost.
LEMMA DeliveredKeeps ==
    ASSUME IInv, phase = "copyIn", NEW data, NEW lost, NEW t, t = Delivered(data, lost)
    PROVE  /\ Shaped(t)
           /\ \A b \in Burrows : t[b].unread = FALSE
           /\ lost = 0 => \A b \in Burrows : t[b].mode = "copyIn"
<1>1. t = [b \in Burrows |-> t[b]]
    BY Zenon DEF Delivered
<1>2. ASSUME NEW b \in Burrows
      PROVE  HasFields(t[b]) /\ t[b].unread = FALSE /\ (lost = 0 => t[b].mode = "copyIn")
  <2>1. HasFields(tunnel[b]) /\ tunnel[b].mode = "copyIn" /\ tunnel[b].unread = FALSE
      BY Zenon DEF IInv, Shaped, AtWork
  <2>2. CASE b = lost
    <3>1. t[b] = [tunnel[b] EXCEPT !.mode = "broken"]
        BY <2>2, Zenon DEF Delivered
    <3>2. lost # 0
        BY <2>2 DEF Burrows
    <3> QED BY <2>1, <3>1, <3>2, ModeUpdate
  <2>3. CASE b # lost /\ lost # 0 /\ b > lost
      BY <2>1, <2>3, Zenon DEF Delivered
  <2>4. CASE b # lost /\ ~(lost # 0 /\ b > lost)
    <3> DEFINE g == tunnel[b].got \o data[b]
    <3>1. t[b] = [tunnel[b] EXCEPT !.got = g]
        BY <2>4, Zenon DEF Delivered
    <3> HIDE DEF g
    <3> QED BY <2>1, <3>1, DataUpdate
  <2> QED BY <2>2, <2>3, <2>4, Zenon
<1> QED BY <1>1, <1>2, Zenon DEF Shaped

\* Data that reaches every Burrow keeps the invariant.
LEMMA SentKeeps ==
    ASSUME IInv, phase = "copyIn", phase' = phase, NEW data, tunnel' = Delivered(data, 0),
           request' = request, at' = at, answer' = answer, readies' = readies,
           transactionFailed' = transactionFailed
    PROVE  IInv'
<1>1. Shaped(tunnel') /\ \A b \in Burrows : tunnel'[b].unread = FALSE /\ tunnel'[b].mode = "copyIn"
    BY DeliveredKeeps, Zenon
<1>2. AtWork'
    BY <1>1, Zenon DEF AtWork
<1>3. DrainedWhenReady'
    BY Zenon DEF DrainedWhenReady
<1>4. AnsweredOnce'
    BY Zenon DEF IInv, AnsweredOnce
<1>5. BurrowErrorFailsTransaction'
    BY <1>4, Zenon DEF AnsweredOnce, UnderWay, BurrowErrorFailsTransaction
<1> QED BY <1>1, <1>2, <1>3, <1>4, <1>5, Zenon DEF IInv

\* CopyData keeps the invariant.
LEMMA CopyDataKeeps == ASSUME IInv, NEW n, CopyData(n) PROVE IInv'
<1> DEFINE written == Write(stream, PlanFormat, Frame(n), MaxRow)
           sharded == request.kind = "sharded"
           data == [b \in Burrows |-> IF sharded THEN ChunksFor(b, written.chunks) ELSE Frame(n)]
<1>1. phase = "copyIn" /\ request' = request /\ at' = at
    BY Zenon DEF CopyData
<1>2. IF sharded /\ written.error
        THEN phase' = "copyAborted" /\ Abort(tunnel)
        ELSE \E lost \in MayLose(data) :
               IF lost # 0
                 THEN phase' = "copyAborted" /\ Abort(Delivered(data, lost))
                 ELSE /\ tunnel' = Delivered(data, 0)
                      /\ UNCHANGED <<phase, answer, readies, transactionFailed>>
    BY Zenon DEF CopyData
<1>3. phase \in UnderWay
    BY <1>1, Zenon DEF UnderWay
<1>4. Shaped(tunnel) /\ \A b \in Burrows : tunnel[b].unread = FALSE
    BY <1>1, Zenon DEF IInv, AtWork
<1> HIDE DEF written, sharded, data
<1>5. CASE phase' = "copyAborted" /\ Abort(tunnel)
    BY <1>1, <1>3, <1>4, <1>5, AbortKeeps, ZenonT(30)
<1>6. ASSUME NEW lost, phase' = "copyAborted", Abort(Delivered(data, lost))
      PROVE  IInv'
    BY <1>1, <1>3, <1>6, DeliveredKeeps, AbortKeeps, ZenonT(30)
<1>7. CASE tunnel' = Delivered(data, 0) /\ UNCHANGED <<phase, answer, readies, transactionFailed>>
    BY <1>1, <1>7, SentKeeps, Zenon
<1> QED BY <1>2, <1>5, <1>6, <1>7, Zenon

\* Dropped data, and any step that leaves these variables alone, keeps the invariant.
LEMMA IdleKeeps ==
    ASSUME IInv, UNCHANGED <<request, phase, at, tunnel, answer, readies, transactionFailed>>
    PROVE  IInv'
BY Zenon DEF IInv, AtWork, DrainedWhenReady, AnsweredOnce, BurrowErrorFailsTransaction, Refused

\* DropCompletion keeps the invariant.
LEMMA DropCompletionKeeps == ASSUME IInv, DropCompletion PROVE IInv'
<1>1. /\ phase = "copyAborted" /\ phase' = "ready" /\ request' = request /\ at' = at /\ tunnel' = tunnel
      /\ answer' = answer /\ readies' = readies /\ transactionFailed' = transactionFailed
    BY Zenon DEF DropCompletion
<1>2. AtWork' /\ AnsweredOnce'
    BY <1>1, Zenon DEF IInv, AtWork, AnsweredOnce, UnderWay
<1>3. DrainedWhenReady'
    BY <1>1, Zenon DEF IInv, DrainedWhenReady
<1>4. BurrowErrorFailsTransaction'
    BY <1>1, Zenon DEF IInv, BurrowErrorFailsTransaction, Refused
<1> QED BY <1>1, <1>2, <1>3, <1>4 DEF IInv, Over

\* Release keeps the invariant.
LEMMA ReleaseKeeps == ASSUME IInv, Release PROVE IInv'
<1>1. /\ phase = "ready" /\ ~request.transaction /\ request' = request /\ at' = at
      /\ answer' = answer /\ readies' = readies /\ transactionFailed' = transactionFailed
    BY Zenon DEF Release
<1>2. phase' = "released" /\ tunnel' = [b \in Burrows |-> Reset(tunnel[b])]
    BY Zenon DEF Release, EndQuery
<1>3. \A b \in Burrows : HasFields(tunnel'[b])
    BY <1>2, ResetFields DEF IInv, Shaped
<1>4. tunnel' = [b \in Burrows |-> tunnel'[b]]
    BY <1>2, Zenon
<1>5. Shaped(tunnel')
    BY <1>3, <1>4, Zenon DEF Shaped
<1>6. AtWork' /\ DrainedWhenReady' /\ AnsweredOnce'
    BY <1>1, <1>2, Zenon DEF IInv, AtWork, DrainedWhenReady, AnsweredOnce, UnderWay
<1>7. transactionFailed = FALSE /\ request.transaction = FALSE
    BY <1>1, TransactionFlag, Zenon DEF IInv
<1>8. BurrowErrorFailsTransaction'
    BY <1>1, <1>7, Zenon DEF BurrowErrorFailsTransaction
<1> QED BY <1>1, <1>2, <1>5, <1>6, <1>7, <1>8 DEF IInv, Over

\* CopyDone or CopyFail, once sent and answered, leaves the Tunnels drained.
LEMMA CompletedDrains ==
    ASSUME NEW t, Shaped(t), NEW message, NEW reaction, NEW loss \in Losses(reaction),
           NEW after, after = Completed(message, t, reaction, loss)
    PROVE  Shaped(after) /\ Drained(after)
<1> DEFINE accepted(b) == message = "CopyDone" /\ reaction[b] = "ok" /\ PgAccepts(t[b].got, request.format)
           mode(b) == IF accepted(b) THEN "idle" ELSE "failed"
           done == message = "CopyDone"
<1>1. after = [b \in Burrows |->
                 IF reaction[b] = "transport" THEN [t[b] EXCEPT !.mode = "broken", !.committed = done]
                 ELSE IF ~Reached(b, reaction, loss) THEN t[b]
                 ELSE [t[b] EXCEPT !.mode = mode(b), !.committed = accepted(b),
                                   !.unread = ~Read(b, reaction, loss)]]
    BY Zenon DEF Completed
<1>2. \A b \in Burrows : mode(b) \in {"idle", "failed"}
    BY Zenon
<1> HIDE DEF accepted, mode, done
<1>3. after = [b \in Burrows |-> after[b]]
    BY <1>1, Zenon
<1>4. \A b \in Burrows : HasFields(t[b])
    BY Zenon DEF Shaped
<1>5. \A b \in Burrows : HasFields(after[b])
    BY <1>1, <1>4, Zenon DEF HasFields
<1>6. Drained(after)
  <2> SUFFICES ASSUME \A b \in Burrows : after[b].mode # "broken"
               PROVE  \A b \in Burrows : after[b].mode # "copyIn" /\ after[b].unread = FALSE
      BY Zenon DEF Drained
  <2>1. ASSUME NEW b \in Burrows, reaction[b] = "transport" PROVE FALSE
    <3>1. after[b] = [t[b] EXCEPT !.mode = "broken", !.committed = done]
        BY <1>1, <2>1, Zenon
    <3>2. after[b].mode = "broken"
        BY <1>4, <3>1, Zenon DEF HasFields
    <3> QED BY <3>2, Zenon
  <2>2. \A b \in Burrows : Reached(b, reaction, loss) /\ Read(b, reaction, loss)
      BY <2>1, NoneLost, Zenon
  <2>3. \A b \in Burrows : after[b] = [t[b] EXCEPT !.mode = mode(b), !.committed = accepted(b), !.unread = FALSE]
      BY <1>1, <2>1, <2>2, Zenon
  <2>4. \A b \in Burrows : after[b].mode = mode(b) /\ after[b].unread = FALSE
      BY <1>4, <2>3, Zenon DEF HasFields
  <2> QED BY <1>2, <2>4, Zenon
<1> QED BY <1>3, <1>5, <1>6 DEF Shaped

\* Complete keeps the invariant.
LEMMA CompleteKeeps == ASSUME IInv, NEW message, Complete(message) PROVE IInv'
<1> DEFINE finished == IF Finalise(message) THEN Finish(stream, PlanFormat) ELSE [stream EXCEPT !.chunks = <<>>]
           data == [b \in Burrows |-> ChunksFor(b, finished.chunks)]
           Ends(after) ==
             LET good == \A b \in Burrows : after[b].mode = "idle"
             IN  /\ tunnel' = after
                 /\ tag' = IF good /\ Tag(after).ok THEN Tag(after).rows ELSE tag
                 /\ answer' = IF good /\ Tag(after).ok THEN "complete" ELSE "error"
                 /\ readies' = readies + 1
                 /\ transactionFailed' = (request.transaction /\ ~good)
<1>1. phase = "copyIn" /\ phase' = "ready" /\ request' = request /\ at' = at
    BY Zenon DEF Complete
<1>2. IF finished.error THEN Abort(tunnel) /\ UNCHANGED tag
      ELSE \E lost \in MayLose(data) :
             IF lost # 0 THEN Abort(Delivered(data, lost)) /\ UNCHANGED tag
             ELSE \E reaction \in [Burrows -> Reactions("reject")] : \E loss \in Losses(reaction) :
                    Ends(Completed(message, Delivered(data, 0), reaction, loss))
    BY Zenon DEF Complete
<1>3. phase \in UnderWay
    BY <1>1, Zenon DEF UnderWay
<1>4. Shaped(tunnel) /\ \A b \in Burrows : tunnel[b].unread = FALSE
    BY <1>1, Zenon DEF IInv, AtWork
<1> HIDE DEF finished, data
<1>5. CASE Abort(tunnel)
    BY <1>1, <1>3, <1>4, <1>5, AbortKeeps, ZenonT(30)
<1>6. ASSUME NEW lost, Abort(Delivered(data, lost))
      PROVE  IInv'
    BY <1>1, <1>3, <1>6, DeliveredKeeps, AbortKeeps, ZenonT(30)
<1>7. ASSUME NEW reaction, NEW loss \in Losses(reaction),
             Ends(Completed(message, Delivered(data, 0), reaction, loss))
      PROVE  IInv'
  <2> DEFINE t == Delivered(data, 0)
             after == Completed(message, t, reaction, loss)
             good == \A b \in Burrows : after[b].mode = "idle"
  <2>1. Shaped(t)
      BY <1>1, DeliveredKeeps, Zenon
  <2>2. /\ tunnel' = after /\ readies' = readies + 1
        /\ transactionFailed' = (request.transaction /\ ~good)
      BY <1>7, Zenon
  <2> HIDE DEF t, Ends
  <2>3. Shaped(after) /\ Drained(after)
      BY <2>1, CompletedDrains, Zenon
  <2>4. good => ~\E b \in Burrows : after[b].mode \in {"failed", "broken"}
    <3> HIDE DEF after
    <3> QED BY Zenon
  <2> HIDE DEF after, good
  <2>5. Told(after)
      BY <2>2, <2>4, TransactionFlag DEF Told
  <2> QED BY <1>1, <1>3, <2>2, <2>3, <2>5, OverKeeps DEF Over
<1> QED
  <2> HIDE DEF Ends
  <2> QED BY <1>2, <1>5, <1>6, <1>7, Zenon

\* Relay keeps the invariant.
LEMMA RelayKeeps == ASSUME IInv, NEW n, Relay(n) PROVE IInv'
<1>1. phase = "copyOut" /\ phase \in UnderWay /\ request' = request /\ at' = at /\ Shaped(tunnel)
    BY Zenon DEF Relay, UnderWay, IInv
<1>2. CASE stream'.error
  <2>1. EndQuery("failed", tunnel) /\ SendError /\ Failed
      BY <1>2, Zenon DEF Relay
  <2>2. Told(tunnel)
      BY <2>1, TransactionFlag, Zenon DEF Told, SendError, Failed
  <2> QED BY <1>1, <2>1, <2>2, EndQueryKeeps
<1>3. CASE ~stream'.error
  <2>1. UNCHANGED <<phase, tunnel, answer, readies, transactionFailed>>
      BY <1>3, Zenon DEF Relay
  <2> QED BY <1>1, <2>1, IdleKeeps, Zenon
<1> QED BY <1>2, <1>3, Zenon

\* OutFails keeps the invariant.
LEMMA OutFailsKeeps == ASSUME IInv, OutFails PROVE IInv'
<1>1. phase \in UnderWay /\ request' = request /\ at' = at /\ SendError /\ Failed
    BY Zenon DEF OutFails, UnderWay
<1>2. PICK reaction \in Reactions("reject") \ {"ok"} :
         EndQuery("failed", [tunnel EXCEPT ![at].mode = IF reaction = "reject" THEN "failed" ELSE "broken",
                                           ![at].unread = FALSE])
    BY Zenon DEF OutFails
<1> DEFINE mode == IF reaction = "reject" THEN "failed" ELSE "broken"
           t == [tunnel EXCEPT ![at].mode = mode, ![at].unread = FALSE]
<1>3. EndQuery("failed", t)
    BY <1>2, Zenon
<1> HIDE DEF mode
<1>4. at \in Burrows /\ tunnel = [b \in Burrows |-> tunnel[b]] /\ \A b \in Burrows : HasFields(tunnel[b])
    BY Zenon DEF IInv, Shaped
<1>5. t = [tunnel EXCEPT ![at].mode = mode, ![at].unread = FALSE]
    BY Zenon
<1> HIDE DEF t
<1>6. OnlyOne(t, tunnel, at, mode, FALSE)
    BY <1>4, <1>5, ReadUpdate, Zenon
<1>7. Shaped(t)
    BY <1>4, <1>6, Zenon DEF OnlyOne, Shaped
<1>8. Told(t)
    BY <1>1, TransactionFlag, Zenon DEF Told, SendError, Failed
<1> QED BY <1>1, <1>3, <1>7, <1>8, EndQueryKeeps

\* OutDone keeps the invariant.
LEMMA OutDoneKeeps == ASSUME IInv, OutDone PROVE IInv'
<1> DEFINE read == [tunnel EXCEPT ![at].mode = "idle", ![at].unread = FALSE]
           Count(b) == Len(PgRows(request.exports[b], request.format, request.header))
<1>1. /\ phase = "copyOut" /\ phase \in UnderWay /\ request' = request
      /\ transactionFailed' = transactionFailed
    BY Zenon DEF OutDone, UnderWay
<1>2. \/ EndQuery("failed", read) /\ SendError /\ at' = at
      \/ /\ at = 1 /\ at' = 2 /\ tunnel' = read
         /\ UNCHANGED <<phase, answer, readies>>
      \/ /\ at # 1 /\ EndQuery("ready", read) /\ at' = at
         /\ answer' = "complete" /\ readies' = readies + 1
    BY Zenon DEF OutDone
<1>3. at \in Burrows /\ tunnel = [b \in Burrows |-> tunnel[b]] /\ \A b \in Burrows : HasFields(tunnel[b])
    BY Zenon DEF IInv, Shaped
<1>4. read = [tunnel EXCEPT ![at].mode = "idle", ![at].unread = FALSE]
    BY Zenon
<1>5. \A b \in Burrows : IF b < at THEN tunnel[b].mode = "idle" /\ tunnel[b].unread = FALSE
                         ELSE tunnel[b].mode = "copyOut"
    BY <1>1, Zenon DEF IInv, AtWork
<1> HIDE DEF read
<1>6. OnlyOne(read, tunnel, at, "idle", FALSE)
    BY <1>3, <1>4, ReadUpdate, Zenon
<1>7. Shaped(read)
    BY <1>3, <1>6, Zenon DEF OnlyOne, Shaped
<1>8. \A b \in Burrows : IF b <= at THEN read[b].mode = "idle" /\ read[b].unread = FALSE
                         ELSE read[b].mode = "copyOut"
    BY <1>3, <1>5, <1>6 DEF OnlyOne, Burrows
<1>9. ~\E b \in Burrows : read[b].mode \in {"failed", "broken"}
    BY <1>8, Zenon
<1>10. readies' = readies + 1 => Told(read)
    BY <1>1, <1>9, Zenon DEF Told, IInv
<1>11. CASE EndQuery("failed", read) /\ SendError /\ at' = at
  <2>1. readies' = readies + 1
      BY <1>11, Zenon DEF SendError
  <2> QED BY <1>1, <1>7, <1>10, <1>11, <2>1, EndQueryKeeps, Zenon
<1>12. CASE /\ at = 1 /\ at' = 2 /\ tunnel' = read
            /\ UNCHANGED <<phase, answer, readies>>
  <2>1. phase' = "copyOut" /\ answer' = answer /\ readies' = readies /\ at' = 2 /\ tunnel' = read
      BY <1>1, <1>12, Zenon
  <2>2. AtWork'
      BY <1>8, <1>12, <2>1 DEF AtWork, Burrows
  <2>3. DrainedWhenReady' /\ BurrowErrorFailsTransaction'
      BY <1>9, <2>1, Zenon DEF DrainedWhenReady, BurrowErrorFailsTransaction
  <2>4. AnsweredOnce'
      BY <1>1, <2>1, Zenon DEF IInv, AnsweredOnce
  <2>5. at' \in Burrows /\ phase' \in UnderWay
      BY <2>1 DEF Burrows, UnderWay
  <2> QED BY <1>1, <1>7, <2>1, <2>2, <2>3, <2>4, <2>5, Zenon DEF IInv
<1>13. CASE /\ at # 1 /\ EndQuery("ready", read) /\ at' = at
            /\ answer' = "complete" /\ readies' = readies + 1
  <2>1. Drained(read)
      BY <1>3, <1>8, <1>13 DEF Drained, Burrows
  <2> QED BY <1>1, <1>7, <1>10, <1>13, <2>1, EndQueryKeeps, Zenon
<1> QED BY <1>2, <1>11, <1>12, <1>13

\* Every step keeps the invariant.
LEMMA NextKeeps == ASSUME IInv, [Next]_vars PROVE IInv'
<1>1. CASE Refuse \/ ServerSide \/ Start
    BY <1>1, RefuseKeeps, ServerSideKeeps, StartKeeps
<1>2. ASSUME NEW n, CopyData(n) \/ DropCopyData(n) PROVE IInv'
  <2>1. DropCopyData(n) => UNCHANGED <<request, phase, at, tunnel, answer, readies, transactionFailed>>
      BY Zenon DEF DropCopyData
  <2> QED BY <1>2, <2>1, CopyDataKeeps, IdleKeeps
<1>3. ASSUME NEW message, Complete(message) PROVE IInv'
    BY <1>3, CompleteKeeps, Zenon
<1>4. CASE DropCompletion \/ Release
    BY <1>4, DropCompletionKeeps, ReleaseKeeps
<1>5. ASSUME NEW n, Relay(n) PROVE IInv'
    BY <1>5, RelayKeeps
<1>6. CASE OutFails \/ OutDone
    BY <1>6, OutFailsKeeps, OutDoneKeeps, Zenon
<1>7. CASE UNCHANGED vars
    BY <1>7, IdleKeeps, Zenon DEF vars
<1> QED BY <1>1, <1>2, <1>3, <1>4, <1>5, <1>6, <1>7, Zenon DEF Next

\* IInv is an invariant, for any COPY statements, any data and any faults.
THEOREM Invariance == Spec => []IInv
<1>1. Init => IInv
    BY InitKeeps, Zenon
<1>2. IInv /\ [Next]_vars => IInv'
    BY NextKeeps, Zenon
<1> QED BY <1>1, <1>2, PTL DEF Spec

\* A COPY FROM that is over leaves no Tunnel in COPY mode and no answer unread, unless
\* a Tunnel was lost (abortCopy, handleCopyCompletion).
THEOREM Draining == Spec => []DrainedWhenReady
<1>1. IInv => DrainedWhenReady
    BY Zenon DEF IInv
<1> QED BY <1>1, Invariance, PTL

\* A COPY is answered by exactly one ReadyForQuery, however it ends
\* (handleCopyQuery, handleCopyCompletion, abortCopy, handleCopyOut).
THEOREM Answering == Spec => []AnsweredOnce
<1>1. IInv => AnsweredOnce
    BY DEF IInv
<1> QED BY <1>1, Invariance, PTL

\* Inside a transaction, an error that leaves a Burrow failed or its Tunnel lost fails
\* the transaction, and every COPY is answered by one ReadyForQuery, whatever the
\* streams compute (state.transactionFailed, handleCopyCompletion, abortCopy).
THEOREM Failing == Spec => []ErrorFailsTransaction
<1>1. IInv => ErrorFailsTransaction
  <2>1. ASSUME IInv PROVE readies = (IF phase \in {"query", "copyIn", "copyOut"} THEN 0 ELSE 1)
    BY <2>1, Zenon DEF IInv, AnsweredOnce, UnderWay
  <2>2. ASSUME IInv PROVE BurrowErrorFailsTransaction
    BY <2>2, Zenon DEF IInv
  <2> QED BY <2>1, <2>2, Zenon DEF ErrorFailsTransaction, BurrowErrorFailsTransaction
<1> QED BY <1>1, Invariance, PTL
=============================================================================
