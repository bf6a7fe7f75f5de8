-------------------------- MODULE TunnelPoolProofs --------------------------
(***************************************************************************)
(* IInv of TunnelPool is inductive, for any sets of sessions, connections  *)
(* and statements and any mix of faults, when frontends stay clear of the  *)
(* three uses that Client names.                                           *)
(***************************************************************************)
EXTENDS TunnelPool, TLAPS

Careful == Client = {}

Caches == {Unknown} \cup SUBSET Statements

-----------------------------------------------------------------------------
(* PostgreSQL and Session.Close *)

\* A fresh connection is clean, and what a session replays on a clean one changes
\* nothing but the setting.
LEMMA DressedFacts ==
    ASSUME NEW s \in Sessions, NEW p \in PostgresSession, NEW x \in {None, "set", "reset"}
    PROVE  /\ Fresh(0) \in PostgresSession /\ Clean(Fresh(0)) /\ Fresh(0).saved = 0
           /\ Fresh(Startup[s]) \in PostgresSession
           /\ Dressed(s, x, p) \in PostgresSession
           /\ Dressed(s, x, p).canonical = p.canonical
           /\ Dressed(s, x, p).saved = p.saved /\ Dressed(s, x, p).block = p.block
           /\ Clean(p) => Observable(Dressed(s, x, p)) = Observable(Dressed(s, x, Fresh(0)))
<1>1. Startup[s] \in {0, 1, 2}
  BY PoolAssumption, Zenon
<1>2. Fresh(0) \in PostgresSession /\ Clean(Fresh(0)) /\ Fresh(0).saved = 0 /\ Fresh(Startup[s]) \in PostgresSession
  BY <1>1, Zenon DEF Fresh, Clean, PostgresSession
<1>3. CASE x = None
  BY <1>1, <1>2, <1>3, Zenon DEF Dressed, Fresh, Clean, PostgresSession, Observable
<1>4. CASE x = "set"
  BY <1>1, <1>2, <1>4, PoolAssumption, Zenon DEF Dressed, Executed, Fresh, Clean, PostgresSession, Observable
<1>5. CASE x = "reset"
  BY <1>1, <1>2, <1>5, PoolAssumption, Zenon DEF Dressed, Executed, Fresh, Clean, PostgresSession, Observable
<1> QED  BY <1>3, <1>4, <1>5, Zenon

LeftClean(c, known) ==
    \E q \in PostgresSession, k \in Caches :
      /\ Clean(q) /\ (k = Unknown \/ k \subseteq q.canonical)
      /\ pg' = [pg EXCEPT ![c] = q] /\ prepared' = [known EXCEPT ![c] = k]

\* Session.Close leaves a clean connection behind, reset or new, when what the ordinary
\* reset does not remove was marked; a cache entry that was sound stays so.
LEMMA CloseCleans ==
    ASSUME TypeOK, NEW c \in Conns, NEW p \in PostgresSession, NEW known \in [Conns -> Caches],
           NEW reusable \in BOOLEAN, NEW discard \in BOOLEAN,
           Close(c, p, known, reusable, discard),
           reusable => ~p.loaded /\ (p.native => discard), p.block = "I" => p.saved = 0,
           known[c] = Unknown \/ known[c] \subseteq p.canonical
    PROVE  LeftClean(c, known)
<1> USE DEF LeftClean
<1>1. PICK clean \in BOOLEAN :
        /\ clean => reusable /\ p.block = "I"
        /\ pg' = [pg EXCEPT ![c] = IF clean THEN Reset(p, discard) ELSE Fresh(0)]
        /\ prepared' = [known EXCEPT ![c] = IF ~clean \/ discard THEN Unknown ELSE known[c]]
  BY Zenon DEF Close, Replaced
<1>2. CASE ~clean
  <2>1. Fresh(0) \in PostgresSession /\ Clean(Fresh(0)) /\ Unknown \in Caches
    BY Zenon DEF Fresh, Clean, PostgresSession, Caches
  <2> QED  BY <1>1, <1>2, <2>1, Zenon
<1>3. CASE clean /\ discard
  <2>1. Reset(p, discard) \in PostgresSession /\ Clean(Reset(p, discard)) /\ Unknown \in Caches
    BY <1>1, <1>3, Zenon DEF Reset, Executed, Clean, PostgresSession, Caches
  <2> QED  BY <1>1, <1>3, <2>1, Zenon
<1>4. CASE clean /\ ~discard
  <2>1. /\ Reset(p, discard) \in PostgresSession /\ Clean(Reset(p, discard))
        /\ Reset(p, discard).canonical = p.canonical /\ known[c] \in Caches
    BY <1>1, <1>4, Zenon DEF Reset, Clean, PostgresSession
  <2> QED  BY <1>1, <1>4, <2>1, Zenon
<1> QED  BY <1>2, <1>3, <1>4, Zenon

-----------------------------------------------------------------------------
(* A session gives up its connection, or goes on with it *)

\* What holds of every other session's messages is untouched by a step of s.
LEMMA LeaveIInv ==
    ASSUME IInv, NEW s \in Sessions, conn[s] # None,
           NEW q \in PostgresSession, NEW k \in Caches, NEW known \in [Conns -> Caches],
           NEW st \in SessionState, NEW i \in PostgresSession,
           Clean(q), k = Unknown \/ k \subseteq q.canonical,
           \A c \in Conns : c # conn[s] => known[c] = Unknown \/ known[c] = prepared[c],
           Coherent(s, st, i),
           Observable(i) = Observable(Dressed(s, st.settings, Fresh(0))),
           pg' = [pg EXCEPT ![conn[s]] = q], prepared' = [known EXCEPT ![conn[s]] = k],
           conn' = [conn EXCEPT ![s] = None], state' = [state EXCEPT ![s] = st],
           ideal' = [ideal EXCEPT ![s] = i], request' = [request EXCEPT ![s] = None]
    PROVE  IInv'
<1> DEFINE c0 == conn[s]
<1>1. c0 \in Conns /\ \A t \in Sessions : t # s => conn[t] # c0
  BY Zenon DEF IInv, TypeOK
<1>2. TypeOK'
  BY <1>1, Zenon DEF IInv, TypeOK, Caches
<1>3. \A c \in Idle' : c = c0 \/ c \in Idle
  BY <1>1, Zenon DEF Idle, IInv, TypeOK
<1>4. PoolIsClean'
  BY <1>1, <1>3, Zenon DEF PoolIsClean, IInv, TypeOK, Idle
<1>5. \A t \in Sessions : t # s => /\ conn'[t] = conn[t] /\ state'[t] = state[t]
                                   /\ ideal'[t] = ideal[t] /\ request'[t] = request[t]
                                   /\ conn[t] # None => pg'[conn[t]] = pg[conn[t]]
  BY <1>1, Zenon DEF IInv, TypeOK
<1>6. conn'[s] = None /\ state'[s] = st /\ ideal'[s] = i /\ request'[s] = None
  BY Zenon DEF IInv, TypeOK
<1>7. Transparency'
  BY <1>5, <1>6 DEF Transparency, IInv
<1>8. CacheSound'
  BY <1>1, Zenon DEF CacheSound, IInv, TypeOK
<1>9. \A t, u \in Sessions : conn'[t] # None /\ conn'[t] = conn'[u] => t = u
  BY <1>5, <1>6 DEF IInv
<1>10. ASSUME NEW t \in Sessions
       PROVE  /\ Coherent(t, state'[t], ideal'[t])
              /\ conn'[t] # None => pg'[conn'[t]].saved = ideal'[t].saved
              /\ request'[t] # None =>
                   IF conn'[t] = None THEN request'[t].command = "query" ELSE Allowed(t, request[t])'
  BY <1>5, <1>6 DEF IInv, Allowed, Stateless
<1> QED  BY <1>2, <1>4, <1>7, <1>8, <1>9, <1>10, Zenon DEF IInv

LEMMA KeepIInv ==
    ASSUME IInv, NEW s \in Sessions, conn[s] # None,
           NEW p \in PostgresSession, NEW known \in [Conns -> Caches],
           NEW st \in SessionState, NEW i \in PostgresSession,
           known[conn[s]] = Unknown \/ known[conn[s]] \subseteq p.canonical,
           \A c \in Conns : c # conn[s] => known[c] = Unknown \/ known[c] = prepared[c],
           Coherent(s, st, i), Observable(p) = Observable(i), p.saved = i.saved,
           pg' = [pg EXCEPT ![conn[s]] = p], prepared' = known, conn' = conn,
           state' = [state EXCEPT ![s] = st], ideal' = [ideal EXCEPT ![s] = i],
           request' = [request EXCEPT ![s] = None]
    PROVE  IInv'
<1> DEFINE c0 == conn[s]
<1>1. c0 \in Conns /\ \A t \in Sessions : t # s => conn[t] # c0
  BY Zenon DEF IInv, TypeOK
<1>2. TypeOK'
  BY <1>1, Zenon DEF IInv, TypeOK, Caches
<1>4. PoolIsClean'
  BY <1>1, Zenon DEF PoolIsClean, IInv, TypeOK, Idle
<1>5. \A t \in Sessions : t # s => /\ conn'[t] = conn[t] /\ state'[t] = state[t]
                                   /\ ideal'[t] = ideal[t] /\ request'[t] = request[t]
                                   /\ conn[t] # None => pg'[conn[t]] = pg[conn[t]]
  BY <1>1, Zenon DEF IInv, TypeOK
<1>6. conn'[s] = c0 /\ pg'[c0] = p /\ state'[s] = st /\ ideal'[s] = i /\ request'[s] = None
  BY <1>1, Zenon DEF IInv, TypeOK
<1>7. Transparency'
  BY <1>5, <1>6 DEF Transparency, IInv
<1>8. CacheSound'
  BY <1>1, Zenon DEF CacheSound, IInv, TypeOK
<1>9. \A t, u \in Sessions : conn'[t] # None /\ conn'[t] = conn'[u] => t = u
  BY Zenon DEF IInv
<1>10. ASSUME NEW t \in Sessions
       PROVE  /\ Coherent(t, state'[t], ideal'[t])
              /\ conn'[t] # None => pg'[conn'[t]].saved = ideal'[t].saved
              /\ request'[t] # None =>
                   IF conn'[t] = None THEN request'[t].command = "query" ELSE Allowed(t, request[t])'
  BY <1>5, <1>6 DEF IInv, Allowed, Stateless
<1> QED  BY <1>2, <1>4, <1>7, <1>8, <1>9, <1>10, Zenon DEF IInv

\* The end of a cycle with PostgreSQL session p, when the flags st fit what the frontend's
\* own session i has become.
LEMMA EndOfCycleIInv ==
    ASSUME IInv, NEW s \in Sessions, conn[s] # None,
           NEW p \in PostgresSession, NEW known \in [Conns -> Caches],
           NEW st \in SessionState, NEW i \in PostgresSession,
           known[conn[s]] = Unknown \/ known[conn[s]] \subseteq p.canonical,
           \A c \in Conns : c # conn[s] => known[c] = Unknown \/ known[c] = prepared[c],
           Coherent(s, st, i), p.native = i.native, p.loaded = i.loaded,
           p.block = "I" => p.saved = 0,
           Releasable(st) \/ (Observable(p) = Observable(i) /\ p.saved = i.saved),
           EndOfCycle(s, p, known, st),
           state' = [state EXCEPT ![s] = st], ideal' = [ideal EXCEPT ![s] = i],
           request' = [request EXCEPT ![s] = None]
    PROVE  IInv'
<1>0. conn[s] \in Conns /\ TypeOK
  BY Zenon DEF IInv, TypeOK
<1>1. CASE Releasable(st)
  <2>1. Close(conn[s], p, known, TRUE, FALSE) /\ conn' = [conn EXCEPT ![s] = None]
    BY <1>1, Zenon DEF EndOfCycle
  <2>2. ~i.native /\ ~i.loaded /\ ~i.objects /\ i.block = "I" /\ i.guc = Dressed(s, st.settings, Fresh(0)).guc
    BY <1>1, Zenon DEF Releasable, Coherent, PostgresSession, SessionState
  <2>3. Observable(i) = Observable(Dressed(s, st.settings, Fresh(0)))
    <3>1. st.settings \in {None, "set", "reset"}
      BY Zenon DEF SessionState
    <3>2. CASE st.settings = None
      BY <2>2, <3>2, Zenon DEF Dressed, Fresh, Observable, PostgresSession
    <3>3. CASE st.settings \in {"set", "reset"}
      BY <2>2, <3>3, PoolAssumption, ZenonT(30) DEF Dressed, Executed, Fresh, Observable, PostgresSession
    <3> QED  BY <3>1, <3>2, <3>3, Zenon
  <2>5. PICK reusable, discard \in BOOLEAN : reusable = TRUE /\ discard = FALSE
    BY Zenon
  <2>6. Close(conn[s], p, known, reusable, discard) /\ (reusable => ~p.loaded /\ (p.native => discard))
    BY <2>1, <2>2, <2>5, Zenon
  <2>7. LeftClean(conn[s], known)
    BY <1>0, <2>6, CloseCleans, Zenon
  <2>4. PICK q \in PostgresSession, k \in Caches :
          /\ Clean(q) /\ (k = Unknown \/ k \subseteq q.canonical)
          /\ pg' = [pg EXCEPT ![conn[s]] = q] /\ prepared' = [known EXCEPT ![conn[s]] = k]
    BY <2>7, Zenon DEF LeftClean
  <2> QED  BY <2>1, <2>3, <2>4, LeaveIInv, Zenon
<1>2. CASE ~Releasable(st)
  <2>1. pg' = [pg EXCEPT ![conn[s]] = p] /\ prepared' = known /\ conn' = conn
    BY <1>2, Zenon DEF EndOfCycle, Replaced
  <2> QED  BY <1>2, <2>1, KeepIInv, Zenon
<1> QED  BY <1>1, <1>2, Zenon

-----------------------------------------------------------------------------
(* Commands *)

Begun(st, command) == BeginSessionState(st, Policy(command, st.transaction))
Good(st, command) ==
    CommitSessionState(UpdateTransaction(Begun(st, command), command), command,
                       Policy(command, st.transaction))

\* What a clean connection's setting is once a session is dressed in it.
LEMMA DressedGuc ==
    ASSUME NEW s \in Sessions, NEW x \in {None, "set", "reset"}
    PROVE  Dressed(s, x, Fresh(0)).guc = IF x = "set" THEN 2 ELSE IF x = "reset" THEN 0 ELSE Startup[s]
  BY PoolAssumption, Zenon DEF Dressed, Executed, Fresh

GoodFields(st, command, good) ==
    LET resetting == ~st.transaction /\ command \in {"resetAll", "discardAll"}
    IN  /\ good \in SessionState
        /\ good.transaction <=> command = "begin" \/ (st.transaction /\ command \notin {"commit", "rollback"})
        /\ good.destroy <=> st.destroy \/ command = "do"
        /\ good.affinity <=> IF resetting THEN st.destroy
                             ELSE \/ st.affinity \/ command \in {"create", "prepare", "do"}
                                  \/ st.transaction /\ command \in {"set", "reset", "resetAll", "discardAll"}
        /\ good.discardPrepared <=> ~resetting /\ (st.discardPrepared \/ command = "prepare")
        /\ good.settings = IF resetting THEN None
                           ELSE IF ~st.transaction /\ command \in {"set", "reset"} THEN command
                           ELSE st.settings

\* The session's flags after a command that succeeded, field by field.
LEMMA GoodIs ==
    ASSUME NEW st \in SessionState, NEW command \in Commands
    PROVE  GoodFields(st, command, Good(st, command))
<1> DEFINE policy == Policy(command, st.transaction)
           begun == BeginSessionState(st, policy)
           moved == UpdateTransaction(begun, command)
           good == CommitSessionState(moved, command, policy)
<1>1. /\ policy.pin <=> \/ command \in {"create", "prepare", "do"}
                        \/ st.transaction /\ command \in {"set", "reset", "resetAll", "discardAll"}
      /\ policy.destroy <=> command = "do"
      /\ policy.discardPrepared <=> command = "prepare"
      /\ policy.resetAll <=> ~st.transaction /\ command \in {"resetAll", "discardAll"}
      /\ policy.replay <=> ~st.transaction /\ command \in {"set", "reset"}
      /\ {policy.pin, policy.destroy, policy.discardPrepared, policy.resetAll, policy.replay} \subseteq BOOLEAN
  BY Zenon DEF Policy, SessionState
<1> HIDE DEF policy
<1>2. /\ begun \in SessionState /\ begun.transaction = st.transaction /\ begun.settings = st.settings
      /\ begun.affinity <=> st.affinity \/ policy.pin
      /\ begun.destroy <=> st.destroy \/ policy.destroy
      /\ begun.discardPrepared <=> st.discardPrepared \/ policy.discardPrepared
  BY <1>1, Zenon DEF BeginSessionState, SessionState
<1> HIDE DEF begun
<1>3. /\ moved \in SessionState /\ moved.settings = begun.settings /\ moved.affinity = begun.affinity
      /\ moved.destroy = begun.destroy /\ moved.discardPrepared = begun.discardPrepared
      /\ moved.transaction = IF command = "begin" THEN TRUE
                             ELSE IF command \in {"commit", "rollback"} THEN FALSE ELSE begun.transaction
  BY <1>2, Zenon DEF UpdateTransaction, SessionState
<1> HIDE DEF moved
<1>4. /\ good \in SessionState /\ good.transaction = moved.transaction /\ good.destroy = moved.destroy
      /\ good.affinity = IF policy.resetAll THEN moved.destroy ELSE moved.affinity
      /\ good.discardPrepared <=> ~policy.resetAll /\ moved.discardPrepared
      /\ good.settings = IF policy.resetAll THEN None ELSE IF policy.replay THEN command ELSE moved.settings
  BY <1>1, <1>3, Zenon DEF CommitSessionState, SessionState
<1>5. good = Good(st, command)
  BY Zenon DEF good, moved, begun, policy, Good, Begun
<1> HIDE DEF good
<1> QED  BY <1>1, <1>2, <1>3, <1>4, <1>5, Zenon DEF GoodFields

ExecutedFields(p, command, base, pp) ==
    LET aborts == \/ command = "rollback" /\ p.block # "I"
                  \/ command = "commit" /\ p.block = "E"
    IN  /\ pp \in PostgresSession
        /\ pp.guc = IF command = "set" THEN 2
                    ELSE IF command \in {"reset", "resetAll", "discardAll"} THEN base
                    ELSE IF aborts THEN p.saved ELSE p.guc
        /\ pp.objects <=> command = "create" \/ (p.objects /\ command # "discardAll")
        /\ pp.native <=> command = "prepare" \/ (p.native /\ command \notin {"discardAll", "deallocate"})
        /\ pp.loaded <=> command = "do" \/ p.loaded
        /\ pp.canonical = IF command \in {"discardAll", "deallocate"} THEN {} ELSE p.canonical
        /\ pp.block = IF command = "begin" THEN (IF p.block = "I" THEN "T" ELSE p.block)
                      ELSE IF command \in {"commit", "rollback"} THEN "I" ELSE p.block
        /\ pp.saved = IF command = "begin" /\ p.block = "I" THEN p.guc
                      ELSE IF aborts \/ command = "commit" THEN 0 ELSE p.saved

\* A PostgreSQL session after a command, field by field.
LEMMA ExecutedIs ==
    ASSUME NEW p \in PostgresSession, NEW command \in Commands, NEW base \in {0, 1, 2}
    PROVE  ExecutedFields(p, command, base, Executed(p, command, base))
<1>1. CASE command = "query"
  BY <1>1, Zenon DEF Executed, ExecutedFields, PostgresSession, Aborted, Ended
<1>2. CASE command = "begin"
  BY <1>2, Zenon DEF Executed, ExecutedFields, PostgresSession, Aborted, Ended
<1>3. CASE command = "commit"
  BY <1>3, Zenon DEF Executed, ExecutedFields, PostgresSession, Aborted, Ended
<1>4. CASE command = "rollback"
  BY <1>4, Zenon DEF Executed, ExecutedFields, PostgresSession, Aborted, Ended
<1>5. CASE command = "set"
  BY <1>5, Zenon DEF Executed, ExecutedFields, PostgresSession, Aborted, Ended
<1>6. CASE command = "reset"
  BY <1>6, Zenon DEF Executed, ExecutedFields, PostgresSession, Aborted, Ended
<1>7. CASE command = "resetAll"
  BY <1>7, Zenon DEF Executed, ExecutedFields, PostgresSession, Aborted, Ended
<1>8. CASE command = "discardAll"
  BY <1>8, Zenon DEF Executed, ExecutedFields, PostgresSession, Aborted, Ended
<1>9. CASE command = "create"
  BY <1>9, Zenon DEF Executed, ExecutedFields, PostgresSession, Aborted, Ended
<1>10. CASE command = "prepare"
  BY <1>10, Zenon DEF Executed, ExecutedFields, PostgresSession, Aborted, Ended
<1>11. CASE command = "do"
  BY <1>11, Zenon DEF Executed, ExecutedFields, PostgresSession, Aborted, Ended
<1>12. CASE command = "deallocate"
  BY <1>12, Zenon DEF Executed, ExecutedFields, PostgresSession, Aborted, Ended
<1> QED  BY <1>1, <1>2, <1>3, <1>4, <1>5, <1>6, <1>7, <1>8, <1>9, <1>10, <1>11, <1>12, Zenon DEF Commands

GoodFit(s, st, p, i, command) ==
    LET pp == Executed(p, command, 0)
        ii == Executed(i, command, Startup[s])
        good == Good(st, command)
    IN  /\ pp \in PostgresSession /\ ii \in PostgresSession /\ good \in SessionState
        /\ Coherent(s, good, ii) /\ pp.native = ii.native /\ pp.loaded = ii.loaded
        /\ Releasable(good) \/ (Observable(pp) = Observable(ii) /\ pp.saved = ii.saved)
        /\ command \notin {"deallocate", "discardAll"} => pp.canonical = p.canonical
        /\ pp.block = "I" => pp.saved = 0

\* A command that PostgreSQL accepts leaves flags that fit what it did, and the same
\* session on both sides unless the connection is about to be released.
LEMMA GoodFits ==
    ASSUME NEW s \in Sessions, NEW st \in SessionState, NEW p \in PostgresSession,
           NEW i \in PostgresSession, NEW command \in Commands,
           Coherent(s, st, i), Observable(p) = Observable(i), p.saved = i.saved,
           Accepts(p, command),
           command = "resetAll" => ~i.objects /\ ~i.native,
           Startup[s] # 0 => /\ command # "reset"
                             /\ command \in {"resetAll", "discardAll"} => ~st.transaction /\ ~st.destroy
    PROVE  GoodFit(s, st, p, i, command)
<1> DEFINE good == Good(st, command)
           Guc(x) == IF x = "set" THEN 2 ELSE IF x = "reset" THEN 0 ELSE Startup[s]
<1>1. Startup[s] \in {0, 1, 2}
  BY PoolAssumption, Zenon
<1>2. /\ p.guc = i.guc /\ p.objects = i.objects /\ p.native = i.native /\ p.loaded = i.loaded
      /\ p.block = i.block
  BY Zenon DEF Observable
<1>3. GoodFields(st, command, good)
  BY GoodIs, Zenon
<1> DEFINE pp == Executed(p, command, 0)
           ii == Executed(i, command, Startup[s])
<1>4. ExecutedFields(p, command, 0, pp) /\ ExecutedFields(i, command, Startup[s], ii)
  BY <1>1, ExecutedIs, Zenon
<1>5. pp \in PostgresSession /\ ii \in PostgresSession /\ good \in SessionState
  BY <1>3, <1>4, Zenon DEF ExecutedFields, GoodFields
<1>6. /\ Dressed(s, st.settings, Fresh(0)).guc = Guc(st.settings)
      /\ Dressed(s, good.settings, Fresh(0)).guc = Guc(good.settings)
  BY <1>5, DressedGuc, Zenon DEF SessionState
<1> HIDE DEF good, pp, ii
<1>7. /\ pp.native = ii.native /\ pp.loaded = ii.loaded
      /\ command \notin {"deallocate", "discardAll"} => pp.canonical = p.canonical
  BY <1>2, <1>4, <1>5, Zenon DEF ExecutedFields, PostgresSession
<1>8. Releasable(good) \/ (Observable(pp) = Observable(ii) /\ pp.saved = ii.saved)
  <2>0. pp.objects = ii.objects /\ pp.block = ii.block
    BY <1>2, <1>4, <1>5, Zenon DEF ExecutedFields, PostgresSession
  <2>1. /\ pp.objects = ii.objects /\ pp.block = ii.block /\ pp.saved = ii.saved
        /\ \/ pp.guc = ii.guc
           \/ command \in {"resetAll", "discardAll"} /\ Startup[s] # 0
    BY <1>2, <1>4, <2>0, Zenon DEF ExecutedFields
  <2>2. CASE pp.guc = ii.guc
    BY <1>7, <2>1, <2>2, Zenon DEF Observable
  <2>3. CASE command \in {"resetAll", "discardAll"} /\ Startup[s] # 0
    BY <1>3, <2>3, Zenon DEF Releasable, GoodFields, SessionState
  <2> QED  BY <2>1, <2>2, <2>3, Zenon
<1>9. Coherent(s, good, ii)
  <2>1. good.transaction <=> ii.block # "I"
    BY <1>3, <1>4, Zenon DEF Coherent, ExecutedFields, GoodFields, PostgresSession, SessionState
  <2>2. ii.block = "I" => ii.saved = 0
    BY <1>4, Zenon DEF Coherent, ExecutedFields, PostgresSession
  <2>3. command = "discardAll" => ~st.transaction
    BY <1>2, Zenon DEF Accepts, Coherent
  <2>4. ii.objects \/ ii.native \/ good.destroy => good.affinity
    BY <1>3, <1>4, <2>3, Zenon DEF Coherent, ExecutedFields, GoodFields, PostgresSession, SessionState
  <2>5. ii.native => good.discardPrepared
    BY <1>3, <1>4, <2>3, Zenon DEF Coherent, ExecutedFields, GoodFields, PostgresSession, SessionState
  <2>6. ii.loaded => good.destroy
    BY <1>3, <1>4, Zenon DEF Coherent, ExecutedFields, GoodFields, PostgresSession, SessionState
  <2>7. good.affinity \/ (ii.guc = Guc(good.settings) /\ (ii.block # "I" => ii.saved = ii.guc))
    BY <1>1, <1>3, <1>4, <1>6, <2>3, PoolAssumption
       DEF Coherent, ExecutedFields, GoodFields, PostgresSession, SessionState
  <2> QED  BY <1>6, <2>1, <2>2, <2>4, <2>5, <2>6, <2>7, Zenon DEF Coherent
<1>10. pp.block = "I" => pp.saved = 0
  BY <1>2, <1>4, Zenon DEF Coherent, ExecutedFields
<1> QED  BY <1>5, <1>7, <1>8, <1>9, <1>10, Zenon DEF good, pp, ii, GoodFit

BegunFit(s, st, p, i, command) ==
    /\ Erred(p) \in PostgresSession /\ Erred(i) \in PostgresSession
    /\ Begun(st, command) \in SessionState
    /\ Coherent(s, Begun(st, command), i) /\ Coherent(s, Begun(st, command), Erred(i))
    /\ Coherent(s, st, Erred(i))
    /\ Observable(Erred(p)) = Observable(Erred(i)) /\ Erred(p).saved = Erred(i).saved
    /\ Erred(p).canonical = p.canonical /\ (Erred(p).block = "I" => Erred(p).saved = 0)

\* A command that fails leaves flags that are only stricter.
LEMMA BegunFits ==
    ASSUME NEW s \in Sessions, NEW st \in SessionState, NEW p \in PostgresSession,
           NEW i \in PostgresSession, NEW command,
           Coherent(s, st, i), Observable(p) = Observable(i), p.saved = i.saved
    PROVE  BegunFit(s, st, p, i, command)
<1>1. /\ p.guc = i.guc /\ p.objects = i.objects /\ p.native = i.native /\ p.loaded = i.loaded
      /\ p.block = i.block
  BY Zenon DEF Observable
<1>2. /\ Erred(p) \in PostgresSession /\ Erred(i) \in PostgresSession
      /\ Observable(Erred(p)) = Observable(Erred(i)) /\ Erred(p).saved = Erred(i).saved
      /\ Erred(p).canonical = p.canonical
  BY <1>1 DEF Erred, Observable, PostgresSession
<1>3. Begun(st, command) \in SessionState
  BY Zenon DEF Begun, BeginSessionState, Policy, SessionState
<1>5. Erred(p).block = "I" => Erred(p).saved = 0
  BY <1>1, Zenon DEF Erred, Coherent, PostgresSession
<1>4. Coherent(s, Begun(st, command), i) /\ Coherent(s, Begun(st, command), Erred(i)) /\ Coherent(s, st, Erred(i))
  BY Zenon DEF Begun, BeginSessionState, Policy, SessionState, Erred, Coherent, PostgresSession
<1> QED  BY <1>2, <1>3, <1>4, <1>5, Zenon DEF BegunFit

-----------------------------------------------------------------------------
(* The actions *)

\* A session that holds no connection changes nothing but itself and idle connections.
LEMMA UnheldIInv ==
    ASSUME IInv, NEW s \in Sessions, conn[s] = None,
           NEW st \in SessionState, NEW i \in PostgresSession, NEW r \in {None} \cup Requests,
           Coherent(s, st, i), Observable(i) = Observable(Dressed(s, st.settings, Fresh(0))),
           r = None \/ r.command = "query",
           state' = [state EXCEPT ![s] = st], ideal' = [ideal EXCEPT ![s] = i],
           request' = [request EXCEPT ![s] = r], conn' = conn,
           \/ UNCHANGED <<pg, prepared>>
           \/ \E c \in Idle : pg' = [pg EXCEPT ![c] = Fresh(0)] /\ prepared' = [prepared EXCEPT ![c] = Unknown]
    PROVE  IInv'
<1>0. Fresh(0) \in PostgresSession /\ Clean(Fresh(0))
  BY Zenon DEF Fresh, Clean, PostgresSession
<1>1. /\ pg' \in [Conns -> PostgresSession] /\ prepared' \in [Conns -> Caches]
      /\ \A c \in Idle : Clean(pg'[c])
      /\ \A c \in Conns \ Idle : pg'[c] = pg[c]
      /\ \A c \in Conns : prepared'[c] = Unknown \/ prepared'[c] \subseteq pg'[c].canonical
  <2>1. CASE UNCHANGED <<pg, prepared>>
    BY <2>1, Zenon DEF IInv, TypeOK, PoolIsClean, CacheSound, Caches
  <2>2. CASE \E c \in Idle : pg' = [pg EXCEPT ![c] = Fresh(0)] /\ prepared' = [prepared EXCEPT ![c] = Unknown]
    BY <1>0, <2>2, Zenon DEF IInv, TypeOK, PoolIsClean, CacheSound, Caches, Idle
  <2> QED  BY <2>1, <2>2, Zenon
<1>2. TypeOK'
  BY <1>1, Zenon DEF IInv, TypeOK, Caches
<1>3. PoolIsClean' /\ CacheSound'
  BY <1>1, Zenon DEF PoolIsClean, CacheSound, Idle
<1>4. \A t \in Sessions : t # s => /\ state'[t] = state[t] /\ ideal'[t] = ideal[t] /\ request'[t] = request[t]
                                   /\ conn[t] # None => pg'[conn[t]] = pg[conn[t]]
  BY <1>1 DEF IInv, TypeOK, Idle
<1>5. state'[s] = st /\ ideal'[s] = i /\ request'[s] = r
  BY Zenon DEF IInv, TypeOK
<1>6. Transparency'
  BY <1>4, <1>5 DEF Transparency, IInv
<1>7. ASSUME NEW t \in Sessions
      PROVE  /\ Coherent(t, state'[t], ideal'[t])
             /\ conn'[t] # None => pg'[conn'[t]].saved = ideal'[t].saved
             /\ request'[t] # None =>
                  IF conn'[t] = None THEN request'[t].command = "query" ELSE Allowed(t, request[t])'
  BY <1>4, <1>5 DEF IInv, Allowed, Stateless
<1>8. \A t, u \in Sessions : conn'[t] # None /\ conn'[t] = conn'[u] => t = u
  BY Zenon DEF IInv
<1> QED  BY <1>2, <1>3, <1>6, <1>7, <1>8, Zenon DEF IInv

LEMMA AcquireIInv ==
    ASSUME IInv, NEW s \in Sessions, NEW r \in Requests, Acquire(s, r)
    PROVE  IInv'
<1>1. PICK c \in Idle : /\ conn' = [conn EXCEPT ![s] = c]
                        /\ prepared' = [prepared EXCEPT ![c] = Synchronized(c)]
                        /\ pg' = [pg EXCEPT ![c] = Dressed(s, state[s].settings, pg[c])]
  BY Zenon DEF Acquire
<1>2. /\ Allowed(s, r) /\ conn[s] = None /\ request' = [request EXCEPT ![s] = r]
      /\ state' = state /\ ideal' = ideal
  BY Zenon DEF Acquire, Sends
<1>3. c \in Conns /\ c # None /\ pg[c] \in PostgresSession /\ Clean(pg[c]) /\ \A t \in Sessions : conn[t] # c
  BY PoolAssumption, Zenon DEF IInv, TypeOK, PoolIsClean, Idle
<1> DEFINE d == Dressed(s, state[s].settings, pg[c])
<1>4. state[s].settings \in {None, "set", "reset"}
  BY Zenon DEF IInv, TypeOK, SessionState
<1>5. /\ d \in PostgresSession /\ d.canonical = pg[c].canonical /\ d.saved = 0 /\ d.block = "I"
      /\ Observable(d) = Observable(Dressed(s, state[s].settings, Fresh(0)))
  BY <1>3, <1>4, DressedFacts, Zenon DEF Clean
<1> HIDE DEF d
<1>6. Observable(d) = Observable(ideal[s])
  BY <1>2, <1>5, Zenon DEF IInv, Transparency
<1>7. ideal[s].saved = 0
  <2>1. ideal[s].block = "I"
    BY <1>5, <1>6, Zenon DEF Observable
  <2> QED  BY <2>1, Zenon DEF IInv, Coherent
<1>8. Synchronized(c) \in Caches /\ (Synchronized(c) = Unknown \/ Synchronized(c) \subseteq d.canonical)
  BY <1>3, <1>5, Zenon DEF Synchronized, IInv, TypeOK, CacheSound, Caches, PostgresSession
<1>9. TypeOK'
  BY <1>1, <1>2, <1>3, <1>5, <1>8, Zenon DEF IInv, TypeOK, Caches, d
<1>10. PoolIsClean'
  <2>1. ASSUME NEW x \in Idle'  PROVE x \in Idle /\ pg'[x] = pg[x]
    <3>1. conn'[s] = c /\ \A t \in Sessions : t # s => conn'[t] = conn[t]
      BY <1>1, <1>3, Zenon DEF IInv, TypeOK
    <3>2. x \in Conns /\ x # c /\ \A t \in Sessions : t # s => conn[t] # x
      BY <3>1, Zenon DEF Idle
    <3>3. x \in Idle
      BY <1>2, <3>2, PoolAssumption, Zenon DEF Idle
    <3> QED  BY <1>1, <3>2, <3>3, Zenon DEF IInv, TypeOK
  <2> QED  BY <2>1, Zenon DEF PoolIsClean, IInv
<1>11. CacheSound'
  BY <1>1, <1>3, <1>5, <1>8, Zenon DEF CacheSound, IInv, TypeOK, d
<1>12. conn'[s] = c /\ pg'[c] = d /\ request'[s] = r
  BY <1>1, <1>2, <1>3, Zenon DEF IInv, TypeOK, d
<1>13. \A t \in Sessions : t # s => /\ conn'[t] = conn[t] /\ request'[t] = request[t]
                                    /\ conn[t] # None => pg'[conn[t]] = pg[conn[t]]
  BY <1>1, <1>2, <1>3, Zenon DEF IInv, TypeOK
<1>14. Transparency'
  BY <1>2, <1>3, <1>6, <1>12, <1>13 DEF Transparency, IInv
<1>15. \A t, u \in Sessions : conn'[t] # None /\ conn'[t] = conn'[u] => t = u
  BY <1>3, <1>12, <1>13 DEF IInv
<1>16. Allowed(s, r)'
  BY <1>2, <1>3, <1>12, Zenon DEF Allowed, Stateless
<1>17. ASSUME NEW t \in Sessions
       PROVE  /\ Coherent(t, state'[t], ideal'[t])
              /\ conn'[t] # None => pg'[conn'[t]].saved = ideal'[t].saved
              /\ request'[t] # None =>
                   IF conn'[t] = None THEN request'[t].command = "query" ELSE Allowed(t, request[t])'
  <2>1. Coherent(t, state'[t], ideal'[t])
    BY <1>2, Zenon DEF IInv
  <2>2. CASE t = s
    <3>1. d.saved = ideal'[s].saved
      BY <1>2, <1>5, <1>7, Zenon
    <3>2. Allowed(s, request[s])'
      BY <1>12, <1>16, Zenon DEF Allowed, Stateless
    <3> QED  BY <1>3, <1>12, <2>1, <2>2, <3>1, <3>2, Zenon
  <2>3. CASE t # s
    <3>1. /\ conn'[t] = conn[t] /\ request'[t] = request[t]
          /\ conn[t] # None => pg'[conn[t]] = pg[conn[t]]
      BY <1>13, <2>3, Zenon
    <3>2. conn[t] # None => pg[conn[t]].saved = ideal[t].saved
      BY Zenon DEF IInv
    <3>3. request[t] # None => IF conn[t] = None THEN request[t].command = "query" ELSE Allowed(t, request[t])
      BY Zenon DEF IInv
    <3>4. Allowed(t, request[t])' <=> Allowed(t, request[t])
      BY <1>2, <3>1, Zenon DEF Allowed, Stateless
    <3> QED  BY <1>2, <2>1, <3>1, <3>2, <3>3, <3>4, Zenon
  <2> QED  BY <2>2, <2>3, Zenon
<1> QED  BY <1>9, <1>10, <1>11, <1>14, <1>15, <1>17, Zenon DEF IInv

LEMMA AcquireFailsIInv ==
    ASSUME IInv, NEW s \in Sessions, NEW r \in Requests, AcquireFails(s, r)
    PROVE  IInv'
<1> DEFINE st == Begun(state[s], r.command)
<1>1. /\ state[s] \in SessionState /\ ideal[s] \in PostgresSession /\ Coherent(s, state[s], ideal[s])
      /\ conn[s] = None /\ request[s] = None /\ request[s] \in {None} \cup Requests
  BY Zenon DEF IInv, TypeOK, AcquireFails, Sends
<1>2. st \in SessionState /\ Coherent(s, st, ideal[s])
  <2>1. BegunFit(s, state[s], ideal[s], ideal[s], r.command)
    BY <1>1, BegunFits, Zenon
  <2> QED  BY <2>1, Zenon DEF BegunFit
<1>3. st.settings = state[s].settings
  BY <1>1, Zenon DEF Begun, BeginSessionState, SessionState
<1>4. Observable(ideal[s]) = Observable(Dressed(s, st.settings, Fresh(0)))
  BY <1>1, <1>3, Zenon DEF IInv, Transparency
<1>5. state' = [state EXCEPT ![s] = st]
  BY Zenon DEF AcquireFails, Begun
<1> HIDE DEF st
<1>6. /\ ideal' = [ideal EXCEPT ![s] = ideal[s]] /\ request' = [request EXCEPT ![s] = None] /\ conn' = conn
      /\ \E c \in Idle : pg' = [pg EXCEPT ![c] = Fresh(0)] /\ prepared' = [prepared EXCEPT ![c] = Unknown]
  BY <1>1, Zenon DEF AcquireFails, Replaced, IInv, TypeOK
<1> QED  BY <1>1, <1>2, <1>4, <1>5, <1>6, UnheldIInv, Zenon

\* A careful frontend's stateless commands are plain queries, which change nothing.
LEMMA StatelessIInv ==
    ASSUME IInv, Careful, NEW s \in Sessions, NEW r \in Requests, StatelessQuery(s, r)
    PROVE  IInv'
<1>1. /\ state[s] \in SessionState /\ ideal[s] \in PostgresSession /\ Coherent(s, state[s], ideal[s])
      /\ conn[s] = None /\ Observable(ideal[s]) = Observable(Dressed(s, state[s].settings, Fresh(0)))
  BY Zenon DEF IInv, TypeOK, StatelessQuery, Stateless, Transparency
<1>2. r.command = "query"
  BY Zenon DEF Careful, StatelessQuery, Stateless, Sends, Allowed
<1>3. \A p, base : Executed(p, r.command, base) = p
  BY <1>2, Zenon DEF Executed
<1>4. /\ pg' = pg /\ prepared' = prepared /\ conn' = conn /\ request' = [request EXCEPT ![s] = r]
      /\ ideal' = [ideal EXCEPT ![s] = ideal[s]] /\ state' = [state EXCEPT ![s] = state[s]]
  <2>1. \E c \in Idle : pg' = [pg EXCEPT ![c] = Executed(pg[c], r.command, 0)]
    BY Zenon DEF StatelessQuery
  <2>2. pg' = pg
    BY <1>3, <2>1 DEF IInv, TypeOK, Idle
  <2>3. ideal' = [ideal EXCEPT ![s] = Executed(ideal[s], r.command, Startup[s])]
    BY Zenon DEF StatelessQuery
  <2> QED  BY <1>3, <2>2, <2>3, Zenon DEF StatelessQuery, IInv, TypeOK
<1> QED  BY <1>1, <1>2, <1>4, UnheldIInv, Zenon

LEMMA StatelessDoneIInv ==
    ASSUME IInv, NEW s \in Sessions, StatelessDone(s)
    PROVE  IInv'
<1>1. /\ state[s] \in SessionState /\ ideal[s] \in PostgresSession /\ Coherent(s, state[s], ideal[s])
      /\ conn[s] = None /\ Observable(ideal[s]) = Observable(Dressed(s, state[s].settings, Fresh(0)))
  BY Zenon DEF IInv, TypeOK, StatelessDone, Transparency
<1>2. request[s].command = "query"
  BY Zenon DEF IInv, StatelessDone
<1>4. /\ pg' = pg /\ prepared' = prepared /\ conn' = conn /\ request' = [request EXCEPT ![s] = None]
      /\ ideal' = [ideal EXCEPT ![s] = ideal[s]] /\ state' = [state EXCEPT ![s] = state[s]]
  BY <1>2, Zenon DEF StatelessDone, Invalidated, IInv, TypeOK
<1> QED  BY <1>1, <1>4, UnheldIInv, Zenon

\* A message in hand is one its frontend may send, whenever it was sent.
LEMMA InHandFacts ==
    ASSUME IInv, NEW s \in Sessions, NEW r \in Requests, InHand(s, r)
    PROVE  /\ conn[s] # None /\ conn[s] \in Conns /\ Allowed(s, r)
           /\ state[s] \in SessionState /\ ideal[s] \in PostgresSession /\ pg[conn[s]] \in PostgresSession
           /\ prepared \in [Conns -> Caches]
           /\ Coherent(s, state[s], ideal[s])
           /\ Observable(pg[conn[s]]) = Observable(ideal[s]) /\ pg[conn[s]].saved = ideal[s].saved
           /\ \A c \in Conns : prepared[c] = Unknown \/ prepared[c] \subseteq pg[c].canonical
<1>1. conn[s] # None /\ conn[s] \in Conns
  BY Zenon DEF InHand, IInv, TypeOK
<1>2. Allowed(s, r)
  <2>1. CASE request[s] = r /\ request[s] # None
    BY <1>1, <2>1, Zenon DEF IInv
  <2>2. CASE Sends(s, r)
    BY <2>2, Zenon DEF Sends
  <2> QED  BY <2>1, <2>2, PoolAssumption, Zenon DEF InHand
<1> QED  BY <1>1, <1>2, Zenon DEF IInv, TypeOK, Transparency, CacheSound, Caches

\* InvalidatePreparedStatements forgets, and never invents.
LEMMA InvalidatedIs ==
    ASSUME IInv, NEW command
    PROVE  /\ Invalidated(command) \in [Conns -> Caches]
           /\ \A c \in Conns : Invalidated(command)[c] = Unknown \/ Invalidated(command)[c] = prepared[c]
           /\ command \in {"deallocate", "discardAll"} => \A c \in Conns : Invalidated(command)[c] = Unknown
           /\ command \notin {"deallocate", "discardAll"} => Invalidated(command) = prepared
  BY Zenon DEF Invalidated, IInv, TypeOK, Caches

LEMMA RunQueryIInv ==
    ASSUME IInv, Careful, NEW s \in Sessions, NEW r \in Requests, RunQuery(s, r)
    PROVE  IInv'
<1> DEFINE c == conn[s]
           command == r.command
           begun == Begun(state[s], command)
           good == Good(state[s], command)
<1>1. /\ conn[s] # None /\ c \in Conns /\ Allowed(s, r)
      /\ state[s] \in SessionState /\ ideal[s] \in PostgresSession /\ pg[c] \in PostgresSession
      /\ prepared \in [Conns -> Caches]
      /\ Coherent(s, state[s], ideal[s])
      /\ Observable(pg[c]) = Observable(ideal[s]) /\ pg[c].saved = ideal[s].saved
      /\ \A d \in Conns : prepared[d] = Unknown \/ prepared[d] \subseteq pg[d].canonical
  BY InHandFacts, Zenon DEF RunQuery
<1>2. PICK ok \in BOOLEAN :
        /\ ok => Accepts(pg[c], command)
        /\ ideal' = [ideal EXCEPT ![s] = IF ok THEN Executed(ideal[s], command, Startup[s]) ELSE Erred(ideal[s])]
        /\ state' = [state EXCEPT ![s] = IF ok THEN good ELSE begun]
        /\ IF ok THEN EndOfCycle(s, Executed(pg[c], command, 0), Invalidated(command), good)
                 ELSE EndOfCycle(s, Erred(pg[c]), prepared, begun)
  BY Zenon DEF RunQuery, Good, Begun
<1>3. command \in Commands /\ request' = [request EXCEPT ![s] = None]
  BY Zenon DEF RunQuery
<1>4. CASE ok
  <2> DEFINE pp == Executed(pg[c], command, 0)
             ii == Executed(ideal[s], command, Startup[s])
  <2>1. /\ command = "resetAll" => ~ideal[s].objects /\ ~ideal[s].native
        /\ Startup[s] # 0 => /\ command # "reset"
                             /\ command \in {"resetAll", "discardAll"} => ~state[s].transaction /\ ~state[s].destroy
    BY <1>1, Zenon DEF Allowed, Careful
  <2>2. /\ pp \in PostgresSession /\ ii \in PostgresSession /\ good \in SessionState
        /\ Coherent(s, good, ii) /\ pp.native = ii.native /\ pp.loaded = ii.loaded
        /\ Releasable(good) \/ (Observable(pp) = Observable(ii) /\ pp.saved = ii.saved)
        /\ command \notin {"deallocate", "discardAll"} => pp.canonical = pg[c].canonical
        /\ pp.block = "I" => pp.saved = 0
    <3>1. GoodFit(s, state[s], pg[c], ideal[s], command)
      BY <1>1, <1>2, <1>3, <1>4, <2>1, GoodFits, Zenon
    <3> QED  BY <3>1, Zenon DEF GoodFit
  <2>3. /\ EndOfCycle(s, pp, Invalidated(command), good)
        /\ state' = [state EXCEPT ![s] = good] /\ ideal' = [ideal EXCEPT ![s] = ii]
    BY <1>2, <1>4, Zenon
  <2> HIDE DEF pp, ii, good
  <2>4. /\ Invalidated(command) \in [Conns -> Caches]
        /\ Invalidated(command)[c] = Unknown \/ Invalidated(command)[c] \subseteq pp.canonical
        /\ \A d \in Conns : d # c => Invalidated(command)[d] = Unknown \/ Invalidated(command)[d] = prepared[d]
    BY <1>1, <2>2, InvalidatedIs, Zenon
  <2> QED  BY <1>1, <1>3, <2>2, <2>3, <2>4, EndOfCycleIInv, Zenon
<1>5. CASE ~ok
  <2>1. /\ Erred(pg[c]) \in PostgresSession /\ Erred(ideal[s]) \in PostgresSession /\ begun \in SessionState
        /\ Coherent(s, begun, Erred(ideal[s]))
        /\ Observable(Erred(pg[c])) = Observable(Erred(ideal[s])) /\ Erred(pg[c]).saved = Erred(ideal[s]).saved
        /\ Erred(pg[c]).canonical = pg[c].canonical /\ (Erred(pg[c]).block = "I" => Erred(pg[c]).saved = 0)
    <3>1. BegunFit(s, state[s], pg[c], ideal[s], command)
      BY <1>1, BegunFits, Zenon
    <3> QED  BY <3>1, Zenon DEF BegunFit
  <2>2. /\ EndOfCycle(s, Erred(pg[c]), prepared, begun)
        /\ state' = [state EXCEPT ![s] = begun] /\ ideal' = [ideal EXCEPT ![s] = Erred(ideal[s])]
    BY <1>2, <1>5, Zenon
  <2>3. Erred(pg[c]).native = Erred(ideal[s]).native /\ Erred(pg[c]).loaded = Erred(ideal[s]).loaded
    BY <2>1, Zenon DEF Observable
  <2> HIDE DEF begun
  <2> QED  BY <1>1, <1>3, <2>1, <2>2, <2>3, EndOfCycleIInv, Zenon
<1> QED  BY <1>4, <1>5, Zenon

LEMMA RunExecuteIInv ==
    ASSUME IInv, NEW s \in Sessions, NEW r \in Requests, RunExecute(s, r)
    PROVE  IInv'
<1> DEFINE c == conn[s]
           q == r.statement
           parsed == [pg[c] EXCEPT !.canonical = @ \cup {q}]
           marked == [prepared EXCEPT ![c] = IF @ = Unknown THEN {q} ELSE @ \cup {q}]
<1>1. /\ conn[s] # None /\ c \in Conns
      /\ state[s] \in SessionState /\ ideal[s] \in PostgresSession /\ pg[c] \in PostgresSession
      /\ prepared \in [Conns -> Caches]
      /\ Coherent(s, state[s], ideal[s])
      /\ Observable(pg[c]) = Observable(ideal[s]) /\ pg[c].saved = ideal[s].saved
      /\ \A d \in Conns : prepared[d] = Unknown \/ prepared[d] \subseteq pg[d].canonical
  BY InHandFacts, Zenon DEF RunExecute
<1>2. q \in Statements
  BY Zenon DEF RunExecute, Requests, Commands
<1>3. /\ parsed \in PostgresSession /\ Observable(parsed) = Observable(ideal[s])
      /\ parsed.saved = ideal[s].saved /\ parsed.canonical = pg[c].canonical \cup {q}
  BY <1>1, <1>2, Zenon DEF PostgresSession, Observable
<1>4. /\ marked \in [Conns -> Caches]
      /\ marked[c] = Unknown \/ marked[c] \subseteq parsed.canonical
      /\ \A d \in Conns : d # c => marked[d] = prepared[d]
  BY <1>1, <1>2, <1>3, Zenon DEF Caches
<1>5. /\ BegunFit(s, state[s], parsed, ideal[s], r.command)
      /\ BegunFit(s, state[s], pg[c], ideal[s], r.command)
  BY <1>1, <1>3, BegunFits, Zenon
<1>6. /\ state' = [state EXCEPT ![s] = state[s]] /\ request' = [request EXCEPT ![s] = None]
      /\ \/ /\ EndOfCycle(s, parsed, marked, state[s])
            /\ ideal' = [ideal EXCEPT ![s] = ideal[s]]
         \/ /\ EndOfCycle(s, Erred(parsed), marked, state[s])
            /\ ideal' = [ideal EXCEPT ![s] = Erred(ideal[s])]
         \/ /\ EndOfCycle(s, Erred(pg[c]), prepared, state[s])
            /\ ideal' = [ideal EXCEPT ![s] = Erred(ideal[s])]
  BY Zenon DEF RunExecute, IInv, TypeOK
<1> HIDE DEF parsed, marked
<1>7. CASE EndOfCycle(s, parsed, marked, state[s]) /\ ideal' = [ideal EXCEPT ![s] = ideal[s]]
  <2>1. /\ parsed.native = ideal[s].native /\ parsed.loaded = ideal[s].loaded
        /\ parsed.block = "I" => parsed.saved = 0
    BY <1>1, <1>3, Zenon DEF Observable, Coherent
  <2>2. PICK i \in PostgresSession : i = ideal[s]
    BY <1>1, Zenon
  <2>3. /\ Coherent(s, state[s], i) /\ parsed.native = i.native /\ parsed.loaded = i.loaded
        /\ Observable(parsed) = Observable(i) /\ parsed.saved = i.saved
        /\ ideal' = [ideal EXCEPT ![s] = i]
        /\ EndOfCycle(s, parsed, marked, state[s]) /\ parsed \in PostgresSession
        /\ parsed.block = "I" => parsed.saved = 0
        /\ conn[s] # None /\ state[s] \in SessionState
    BY <1>1, <1>3, <1>7, <2>1, <2>2, Zenon
  <2> QED  BY <1>4, <1>6, <2>3, EndOfCycleIInv, ZenonT(30)
<1>8. CASE EndOfCycle(s, Erred(parsed), marked, state[s]) /\ ideal' = [ideal EXCEPT ![s] = Erred(ideal[s])]
  <2>1. /\ Erred(parsed) \in PostgresSession /\ Erred(ideal[s]) \in PostgresSession
        /\ Coherent(s, state[s], Erred(ideal[s]))
        /\ Observable(Erred(parsed)) = Observable(Erred(ideal[s])) /\ Erred(parsed).saved = Erred(ideal[s]).saved
        /\ Erred(parsed).canonical = parsed.canonical /\ (Erred(parsed).block = "I" => Erred(parsed).saved = 0)
    BY <1>5, Zenon DEF BegunFit
  <2>2. Erred(parsed).native = Erred(ideal[s]).native /\ Erred(parsed).loaded = Erred(ideal[s]).loaded
    BY <2>1, Zenon DEF Observable
  <2> QED  BY <1>1, <1>4, <1>6, <1>8, <2>1, <2>2, EndOfCycleIInv, ZenonT(30)
<1>9. CASE EndOfCycle(s, Erred(pg[c]), prepared, state[s]) /\ ideal' = [ideal EXCEPT ![s] = Erred(ideal[s])]
  <2>1. /\ Erred(pg[c]) \in PostgresSession /\ Erred(ideal[s]) \in PostgresSession
        /\ Coherent(s, state[s], Erred(ideal[s]))
        /\ Observable(Erred(pg[c])) = Observable(Erred(ideal[s])) /\ Erred(pg[c]).saved = Erred(ideal[s]).saved
        /\ Erred(pg[c]).canonical = pg[c].canonical /\ (Erred(pg[c]).block = "I" => Erred(pg[c]).saved = 0)
    BY <1>5, Zenon DEF BegunFit
  <2>2. Erred(pg[c]).native = Erred(ideal[s]).native /\ Erred(pg[c]).loaded = Erred(ideal[s]).loaded
    BY <2>1, Zenon DEF Observable
  <2> QED  BY <1>1, <1>6, <1>9, <2>1, <2>2, EndOfCycleIInv, Zenon
<1> QED  BY <1>6, <1>7, <1>8, <1>9, Zenon

\* A session that begins has nothing to replay but its startup packet.
LEMMA NewFits ==
    ASSUME NEW s \in Sessions
    PROVE  /\ NewState \in SessionState /\ Fresh(Startup[s]) \in PostgresSession
           /\ Coherent(s, NewState, Fresh(Startup[s]))
           /\ Observable(Fresh(Startup[s])) = Observable(Dressed(s, NewState.settings, Fresh(0)))
  BY PoolAssumption, Zenon DEF NewState, SessionState, Fresh, PostgresSession, Coherent, Observable, Dressed

\* Terminate and disconnection: the deferred Close of serveQueries.
LEMMA DepartIInv ==
    ASSUME IInv, NEW s \in Sessions, Departed(s),
           NEW reusable \in BOOLEAN, NEW discard \in BOOLEAN,
           reusable => ~state[s].destroy /\ discard = state[s].discardPrepared,
           IF conn[s] = None THEN UNCHANGED <<pg, prepared>>
             ELSE Close(conn[s], pg[conn[s]], prepared, reusable, discard)
    PROVE  IInv'
<1>1. /\ conn' = [conn EXCEPT ![s] = None] /\ state' = [state EXCEPT ![s] = NewState]
      /\ ideal' = [ideal EXCEPT ![s] = Fresh(Startup[s])] /\ request' = [request EXCEPT ![s] = None]
  BY Zenon DEF Departed
<1>2. CASE conn[s] = None
  <2>1. conn' = conn /\ UNCHANGED <<pg, prepared>>
    BY <1>1, <1>2, Zenon DEF IInv, TypeOK
  <2> QED  BY <1>1, <1>2, <2>1, NewFits, UnheldIInv, Zenon
<1>3. CASE conn[s] # None
  <2> DEFINE p == pg[conn[s]]
  <2>1. /\ conn[s] \in Conns /\ p \in PostgresSession /\ prepared \in [Conns -> Caches] /\ TypeOK
        /\ Observable(p) = Observable(ideal[s]) /\ p.saved = ideal[s].saved
        /\ Coherent(s, state[s], ideal[s])
        /\ prepared[conn[s]] = Unknown \/ prepared[conn[s]] \subseteq p.canonical
    BY <1>3, Zenon DEF IInv, TypeOK, Transparency, CacheSound, Caches
  <2> HIDE DEF p
  <2>2. (reusable => ~p.loaded /\ (p.native => discard)) /\ (p.block = "I" => p.saved = 0)
    BY <2>1, Zenon DEF Observable, Coherent
  <2>3. LeftClean(conn[s], prepared)
    BY <1>3, <2>1, <2>2, CloseCleans, Zenon DEF p
  <2>4. PICK q \in PostgresSession, k \in Caches :
          /\ Clean(q) /\ (k = Unknown \/ k \subseteq q.canonical)
          /\ pg' = [pg EXCEPT ![conn[s]] = q] /\ prepared' = [prepared EXCEPT ![conn[s]] = k]
    BY <2>3, Zenon DEF LeftClean
  <2> QED  BY <1>1, <1>3, <2>1, <2>4, NewFits, LeaveIInv, Zenon
<1> QED  BY <1>2, <1>3, Zenon

-----------------------------------------------------------------------------
(* The theorems *)

LEMMA InitIInv == Init => IInv
<1> SUFFICES ASSUME Init PROVE IInv
  BY Zenon
<1>1. Fresh(0) \in PostgresSession /\ Clean(Fresh(0))
  BY Zenon DEF Fresh, Clean, PostgresSession
<1>2. ASSUME NEW s \in Sessions
      PROVE  /\ conn[s] = None /\ request[s] = None /\ state[s] = NewState /\ ideal[s] = Fresh(Startup[s])
             /\ NewState \in SessionState /\ Fresh(Startup[s]) \in PostgresSession
             /\ Coherent(s, NewState, Fresh(Startup[s]))
             /\ Observable(Fresh(Startup[s])) = Observable(Dressed(s, NewState.settings, Fresh(0)))
  BY NewFits, Zenon DEF Init
<1>3. TypeOK
  BY <1>1, <1>2, Zenon DEF Init, TypeOK
<1>4. PoolIsClean /\ CacheSound
  BY <1>1, Zenon DEF Init, PoolIsClean, CacheSound, Idle
<1>5. Transparency
  BY <1>2, Zenon DEF Transparency
<1> QED  BY <1>2, <1>3, <1>4, <1>5, Zenon DEF IInv

LEMMA NextIInv ==
    ASSUME Careful, IInv, [Next]_vars
    PROVE  IInv'
<1>1. CASE UNCHANGED vars
  BY <1>1, Zenon DEF vars, IInv, TypeOK, PoolIsClean, Idle, Transparency, CacheSound, Allowed, Stateless
<1>2. CASE Next
  <2>1. PICK s \in Sessions :
          \/ \E r \in Requests : Acquire(s, r)
          \/ \E r \in Requests : AcquireFails(s, r)
          \/ \E r \in Requests : StatelessQuery(s, r)
          \/ StatelessDone(s)
          \/ \E r \in Requests : RunQuery(s, r)
          \/ \E r \in Requests : RunExecute(s, r)
          \/ Terminate(s)
          \/ Disconnect(s)
    BY <1>2, Zenon DEF Next
  <2>2. CASE \E r \in Requests : Acquire(s, r)
    BY <2>2, AcquireIInv, Zenon
  <2>3. CASE \E r \in Requests : AcquireFails(s, r)
    BY <2>3, AcquireFailsIInv, Zenon
  <2>4. CASE \E r \in Requests : StatelessQuery(s, r)
    BY <2>4, StatelessIInv, Zenon
  <2>5. CASE StatelessDone(s)
    BY <2>5, StatelessDoneIInv, Zenon
  <2>6. CASE \E r \in Requests : RunQuery(s, r)
    BY <2>6, RunQueryIInv
  <2>7. CASE \E r \in Requests : RunExecute(s, r)
    BY <2>7, RunExecuteIInv
  <2>8. CASE Terminate(s)
    <3>1. state[s].destroy \in BOOLEAN /\ state[s].discardPrepared \in BOOLEAN
      BY Zenon DEF IInv, TypeOK, SessionState
    <3>2. PICK reusable, discard \in BOOLEAN : reusable = ~state[s].destroy /\ discard = state[s].discardPrepared
      BY <3>1, Zenon
    <3>3. /\ Departed(s)
          /\ IF conn[s] = None THEN UNCHANGED <<pg, prepared>>
             ELSE Close(conn[s], pg[conn[s]], prepared, reusable, discard)
      BY <2>8, <3>2, Zenon DEF Terminate
    <3> QED  BY <3>2, <3>3, DepartIInv, Zenon
  <2>9. CASE Disconnect(s)
    <3>2. PICK reusable, discard \in BOOLEAN : reusable = FALSE /\ discard = FALSE
      BY Zenon
    <3>3. /\ Departed(s)
          /\ IF conn[s] = None THEN UNCHANGED <<pg, prepared>>
             ELSE Close(conn[s], pg[conn[s]], prepared, reusable, discard)
      BY <2>9, <3>2, Zenon DEF Disconnect
    <3> QED  BY <3>2, <3>3, DepartIInv, Zenon
  <2> QED  BY <2>1, <2>2, <2>3, <2>4, <2>5, <2>6, <2>7, <2>8, <2>9, Zenon
<1> QED  BY <1>1, <1>2, Zenon

\* The invariant of acquire, the session-state policy, Close and the statement cache holds
\* for any sessions, connections, statements and faults of careful frontends.
THEOREM PoolInvariant ==
    ASSUME Careful PROVE Spec => []IInv
  BY InitIInv, NextIInv, PTL DEF Spec

\* Session.Close never returns a connection to the pool with anything of its frontend on it.
THEOREM PoolStaysClean ==
    ASSUME Careful PROVE Spec => []PoolIsClean
<1>1. IInv => PoolIsClean
  BY Zenon DEF IInv
<1> QED  BY <1>1, PoolInvariant, PTL

\* Multiplexing over the pool is invisible to a frontend: acquire and the release rule of
\* serveQueries always give it the PostgreSQL session it would have had to itself.
THEOREM MultiplexingIsTransparent ==
    ASSUME Careful PROVE Spec => []Transparency
<1>1. IInv => Transparency
  BY Zenon DEF IInv
<1> QED  BY <1>1, PoolInvariant, PTL

\* MarkPrepared, syncPreparedStatements and InvalidatePreparedStatements keep the cache sound.
THEOREM CacheStaysSound ==
    ASSUME Careful PROVE Spec => []CacheSound
<1>1. IInv => CacheSound
  BY Zenon DEF IInv
<1> QED  BY <1>1, PoolInvariant, PTL

=============================================================================
