-------------------- MODULE TransactionCoordinatorProofs --------------------
(***************************************************************************)
(* Proofs about TransactionCoordinator, for any set of Burrows.            *)
(***************************************************************************)
EXTENDS TransactionCoordinator, TLAPS

BlockStates == {"idle", "open", "failed", "copying", "lost"}
FateStates  == {"none", "prepared", "committed", "aborted"}
-----------------------------------------------------------------------------
(* The effect of a command on the fleet.                                   *)

\* What a reply does to a Burrow is again a state of the Burrow.
LEMMA AfterTypes ==
    ASSUME TypeOK, NEW b \in Burrows, NEW r \in Replies, NEW c, NEW chain \in BOOLEAN
    PROVE  /\ TxAfter(c, chain, b, r) \in BlockStates
           /\ FateAfter(c, b, r) \in FateStates
           /\ DirtyAfter(c, b, r) \in BOOLEAN
<1>1. tx[b] \in BlockStates /\ fate[b] \in FateStates
    BY Zenon DEF TypeOK, BlockStates, FateStates
<1>2. dirty[b] \in BOOLEAN /\ saved[b] \in BOOLEAN
    BY Zenon DEF TypeOK
<1>3. TxAfter(c, chain, b, r) \in BlockStates
    BY <1>1, Zenon DEF TxAfter, BlockStates
<1>4. FateAfter(c, b, r) \in FateStates
    BY <1>1, Zenon DEF FateAfter, FateStates
<1>5. DirtyAfter(c, b, r) \in BOOLEAN
    BY <1>2, Zenon DEF DirtyAfter
<1> QED BY <1>3, <1>4, <1>5, Zenon

\* The same for a command sent to every Burrow.
LEMMA FleetTypes ==
    ASSUME TypeOK, NEW c, NEW chain \in BOOLEAN, NEW r \in [Burrows -> Replies]
    PROVE  /\ Blocks(c, chain, r) \in [Burrows -> BlockStates]
           /\ Fates(c, r) \in [Burrows -> FateStates]
           /\ Work(c, r) \in [Burrows -> BOOLEAN]
    BY AfterTypes, Zenon DEF Blocks, Fates, Work

\* And for a statement sent to the Burrows S.
LEMMA TargetTypes ==
    ASSUME TypeOK, NEW S \in SUBSET Burrows, NEW r \in [S -> Replies],
           NEW write \in BOOLEAN
    PROVE  /\ StatementBlocks(S, r) \in [Burrows -> BlockStates]
           /\ StatementFates(S, r, write) \in [Burrows -> FateStates]
           /\ StatementWork(S, r, write) \in [Burrows -> BOOLEAN]
<1>1. \A b \in Burrows : tx[b] \in BlockStates /\ fate[b] \in FateStates /\ dirty[b] \in BOOLEAN
    BY Zenon DEF TypeOK, BlockStates, FateStates
<1>2. \A b \in S : /\ TxAfter("statement", FALSE, b, r[b]) \in BlockStates
                   /\ FateAfter("statement", b, r[b]) \in FateStates
                   /\ DirtyAfter("statement", b, r[b]) \in BOOLEAN
    BY AfterTypes, Zenon
<1>3. StatementBlocks(S, r) \in [Burrows -> BlockStates]
    BY <1>1, <1>2, Zenon DEF StatementBlocks
<1>4. StatementFates(S, r, write) \in [Burrows -> FateStates]
    BY <1>1, <1>2, Zenon DEF StatementFates, FateStates
<1>5. StatementWork(S, r, write) \in [Burrows -> BOOLEAN]
    BY <1>1, <1>2, Zenon DEF StatementWork
<1> QED BY <1>3, <1>4, <1>5, Zenon
-----------------------------------------------------------------------------
\* The initial states satisfy the inductive invariant.
LEMMA InitIInv == Init => IInv
<1> SUFFICES ASSUME Init PROVE IInv
    BY Zenon
<1> USE DEF Init, AllIdle, Unharmed, NoFate
<1>1. TypeOK
    BY Zenon DEF TypeOK
<1>2. WorkInBlocks /\ Decided /\ NoLoss /\ Quiet /\ Working /\ Restorable
    BY Zenon DEF WorkInBlocks, Decided, NoLoss, Quiet, Working, Restorable
<1>3. Forgotten /\ Copying /\ Committing /\ Closed
    BY Zenon DEF Forgotten, Copying, Committing, Closed
<1> QED BY <1>1, <1>2, <1>3, Zenon DEF IInv

\* EndSession preserves the inductive invariant.
LEMMA EndSessionIInv == ASSUME IInv, EndSession PROVE IInv'
<1> USE DEF EndSession, AllIdle, Unharmed, NoFate
<1>1. TypeOK'
    BY Zenon DEF TypeOK, IInv
<1>2. WorkInBlocks' /\ NoLoss' /\ Quiet' /\ Working' /\ Restorable'
    BY Zenon DEF WorkInBlocks, NoLoss, Quiet, Working, Restorable
<1>3. Decided'
    BY Zenon DEF Decided, IInv, TypeOK
<1>4. Forgotten' /\ Copying' /\ Committing' /\ Closed'
    BY Zenon DEF Forgotten, Copying, Committing, Closed
<1> QED BY <1>1, <1>2, <1>3, <1>4, Zenon DEF IInv

\* Connect preserves the inductive invariant.
LEMMA ConnectIInv == ASSUME IInv, Connect PROVE IInv'
<1> USE DEF Connect, AllIdle, Unharmed, NoFate, session, commit
<1>1. TypeOK'
    BY DEF TypeOK, IInv
<1>2. WorkInBlocks' /\ Decided' /\ NoLoss'
    BY Zenon DEF WorkInBlocks, NoLoss, Decided, Closed, IInv, TypeOK, Flaky
<1>3. Quiet' /\ Working' /\ Restorable'
    BY Zenon DEF Quiet, Working, Restorable, IInv, Closed
<1>4. Forgotten' /\ Copying' /\ Committing' /\ Closed'
    BY Zenon DEF Forgotten, Copying, Committing, Closed, IInv
<1> QED BY <1>1, <1>2, <1>3, <1>4, Zenon DEF IInv

\* Disconnect preserves the inductive invariant.
LEMMA DisconnectIInv == ASSUME IInv, Disconnect PROVE IInv'
<1> USE DEF Disconnect, session, commit
<1>1. TypeOK'
    BY DEF TypeOK, IInv
<1>2. WorkInBlocks' /\ Decided' /\ NoLoss'
    BY Zenon DEF WorkInBlocks, NoLoss, Decided, IInv, Flaky
<1>3. Quiet' /\ Working' /\ Restorable'
    BY Zenon DEF Quiet, Working, Restorable, IInv
<1>4. Forgotten' /\ Copying' /\ Committing' /\ Closed'
    BY DEF Forgotten, Copying, Committing, Closed, IInv
<1> QED BY <1>1, <1>2, <1>3, <1>4, Zenon DEF IInv

\* Pin preserves the inductive invariant.
LEMMA PinIInv == ASSUME IInv, Pin PROVE IInv'
<1> USE DEF Pin, session, commit
<1>1. TypeOK'
    BY DEF TypeOK, IInv
<1>2. WorkInBlocks' /\ Decided' /\ NoLoss'
    BY Zenon DEF WorkInBlocks, NoLoss, Decided, IInv, Flaky
<1>3. Quiet' /\ Working' /\ Restorable'
    BY Zenon DEF Quiet, Working, Restorable, IInv
<1>4. Forgotten' /\ Copying' /\ Committing' /\ Closed'
    BY DEF Forgotten, Copying, Committing, Closed, IInv
<1> QED BY <1>1, <1>2, <1>3, <1>4, Zenon DEF IInv
-----------------------------------------------------------------------------
(* Commands that fail.                                                     *)

\* What a failed command may leave on the fleet: the parts of the invariant that
\* speak of the Burrows, for the states t, the work d and the fates f.
Tolerable(t, d, f) ==
    /\ t \in [Burrows -> BlockStates]
    /\ d \in [Burrows -> BOOLEAN]
    /\ f \in [Burrows -> FateStates]
    /\ \A b \in Burrows : d[b] => t[b] \in {"open", "failed", "copying"}
    /\ \A b, c \in Burrows : f[b] = "committed" => ~d[c] /\ f[c] # "aborted"
    /\ ~Flaky => \A b \in Burrows : t[b] # "lost"

\* The same, once the session has settled: pinned outside a transaction it must
\* find its Tunnels idle.
LEMMA SettleTolerable ==
    ASSUME NEW t, NEW d, NEW f, NEW inTx \in BOOLEAN, Tolerable(t, d, f),
           Settle(inTx, t, d, f), pinned \in BOOLEAN, gone' = gone,
           ~inTx /\ pinned /\ ~gone => \A b \in Burrows : t[b] = "idle" /\ ~d[b]
    PROVE  /\ Tolerable(tx', dirty', fate')
           /\ ~inTx /\ ~gone => \A b \in Burrows : tx'[b] = "idle" /\ ~dirty'[b]
           /\ inTx => tx' = t /\ dirty' = d /\ fate' = f
<1>1. CASE inTx \/ pinned
    BY <1>1, Zenon DEF Settle
<1>2. CASE ~(inTx \/ pinned)
  <2>1. tx' = [b \in Burrows |-> "idle"] /\ dirty' = [b \in Burrows |-> FALSE]
    BY <1>2, Zenon DEF Settle, AllIdle, Unharmed
  <2>2. fate' = [b \in Burrows |-> IF d[b] THEN "aborted" ELSE f[b]]
    BY <1>2, Zenon DEF Settle
  <2>3. fate' \in [Burrows -> FateStates]
    BY <2>2, Zenon DEF Tolerable, FateStates
  <2>4. \A b, c \in Burrows : fate'[b] = "committed" => fate'[c] # "aborted"
    BY <2>2, Zenon DEF Tolerable
  <2> QED BY <1>2, <2>1, <2>3, <2>4, Zenon DEF Tolerable, BlockStates
<1> QED BY <1>1, <1>2, Zenon

\* A failed statement or command keeps the invariant.
LEMMA FailIInv ==
    ASSUME IInv, Ready, NEW v \in {"simple", "extended"}, NEW S \in SUBSET Burrows, NEW r,
           NEW t, NEW d, NEW f, Tolerable(t, d, f),
           Fail(v, S, r, t, d, f), phase' = phase,
           UNCHANGED <<pinned, copyTargets, commit, gone>>,
           \/ UNCHANGED <<saved, savepoint>>
           \/ saved' = Unharmed /\ savepoint' = FALSE,
           ~transaction /\ pinned => \A b \in Burrows : t[b] = "idle" /\ ~d[b],
           savepoint' => \A b \in Burrows :
               /\ t[b] # "idle" /\ f[b] \in {"none", "aborted"}
               /\ t[b] # "lost" => f[b] = "none",
           /\ transaction
           /\ \A b \in Burrows : t[b] # "lost"
           /\ \/ v = "simple" /\ (Broken(S, r) \/ ReadyTxStatus(S, t) = "I")
              \/ \E b \in Burrows : t[b] = "idle"
           => ~savepoint' /\ \A b \in Burrows : t[b] = "open" => ~d[b]
    PROVE  IInv'
<1>0. TypeOK /\ phase = "ready" /\ ~gone /\ copyTargets = {}
    BY Zenon DEF IInv, Ready
<1>1. /\ Tolerable(tx', dirty', fate')
      /\ ~transaction => \A b \in Burrows : tx'[b] = "idle" /\ ~dirty'[b]
      /\ transaction => tx' = t /\ dirty' = d /\ fate' = f
    BY <1>0, SettleTolerable DEF Fail, TypeOK
<1>2. UNCHANGED session /\ errored' = transaction
    BY Zenon DEF Fail
<1>3. /\ answer' \in [what : {"error"}, status : {"I", "T", "E"}]
      /\ answer'.status = "I" /\ transaction =>
             v = "simple" /\ (Broken(S, r) \/ ReadyTxStatus(S, t) = "I")
    BY Zenon DEF Fail, TxStatus, ReadyTxStatus
<1>4. TypeOK'
  <2>1. saved' \in [Burrows -> BOOLEAN] /\ savepoint' \in BOOLEAN
    BY <1>0, Zenon DEF TypeOK, Unharmed
  <2>2. answer' \in [what : {"none", "done", "commit", "chain", "rollback", "error",
                             "rolledback", "indoubt"}, status : {"I", "T", "E", "-"}]
    BY <1>3, Zenon
  <2> QED BY <1>0, <1>1, <1>2, <2>1, <2>2, Zenon
          DEF TypeOK, Tolerable, BlockStates, FateStates, session, commit
<1>5. WorkInBlocks' /\ Decided' /\ NoLoss'
    BY <1>1 DEF WorkInBlocks, Decided, NoLoss, Tolerable, Flaky
<1>6. Quiet' /\ Working'
    BY <1>0, <1>1, <1>2, Zenon DEF Quiet, Working, session
<1>7. Restorable'
    BY <1>0, <1>1, <1>2 DEF IInv, Restorable, session
<1>8. Forgotten'
    BY <1>0, <1>1, <1>2, <1>3, Zenon DEF Forgotten, session
<1>9. Copying' /\ Committing' /\ Closed'
    BY <1>0, Zenon DEF Copying, Committing, Closed
<1> QED BY <1>0, <1>4, <1>5, <1>6, <1>7, <1>8, <1>9, Zenon DEF IInv

\* A failed transaction command keeps the invariant, also where the session waits
\* for a Sync that is not answered.
LEMMA FailCommandIInv ==
    ASSUME IInv, Ready, NEW v \in {"simple", "extended"}, NEW r,
           NEW t, NEW d, NEW f, Tolerable(t, d, f),
           FailCommand(v, r, t, d, f),
           UNCHANGED <<pinned, copyTargets, commit, gone>>,
           \/ UNCHANGED <<saved, savepoint>>
           \/ saved' = Unharmed /\ savepoint' = FALSE,
           ~transaction /\ pinned => \A b \in Burrows : t[b] = "idle" /\ ~d[b],
           savepoint' => \A b \in Burrows :
               /\ t[b] # "idle" /\ f[b] \in {"none", "aborted"}
               /\ t[b] # "lost" => f[b] = "none",
           /\ transaction
           /\ \A b \in Burrows : t[b] # "lost"
           /\ \/ v = "simple" /\ (Broken(Burrows, r) \/ ReadyTxStatus(Burrows, t) = "I")
              \/ \E b \in Burrows : t[b] = "idle"
           => ~savepoint' /\ \A b \in Burrows : t[b] = "open" => ~d[b]
    PROVE  IInv'
<1>1. CASE ~Stuck(v, t)
  <2>1. Fail(v, Burrows, r, t, d, f) /\ phase' = phase
    BY <1>1, Zenon DEF FailCommand
  <2> QED BY <2>1, FailIInv, Zenon
<1>2. CASE Stuck(v, t)
  <2>0. TypeOK /\ phase = "ready" /\ ~gone /\ copyTargets = {}
    BY Zenon DEF IInv, Ready
  <2>1. /\ phase' = "stuck" /\ tx' = t /\ dirty' = d /\ fate' = f
        /\ answer' = [what |-> "error", status |-> "-"]
        /\ errored' = transaction /\ UNCHANGED session
    BY <1>2, Zenon DEF FailCommand
  <2>2. TypeOK'
    <3>1. saved' \in [Burrows -> BOOLEAN] /\ savepoint' \in BOOLEAN
      BY <2>0, ZenonT(30) DEF TypeOK, Unharmed
    <3> QED BY <2>0, <2>1, <3>1, Zenon
            DEF TypeOK, Tolerable, BlockStates, FateStates, session, commit
  <2>3. WorkInBlocks' /\ Decided' /\ NoLoss'
    BY <2>1, Zenon DEF WorkInBlocks, Decided, NoLoss, Tolerable, Flaky
  <2>4. Quiet' /\ Working' /\ Restorable' /\ Forgotten'
    BY <2>1 DEF IInv, Quiet, Working, Restorable, Forgotten, session
  <2>5. Copying' /\ Committing' /\ Closed'
    BY <2>0, <2>1, Zenon DEF Copying, Committing, Closed
  <2> QED BY <2>0, <2>2, <2>3, <2>4, <2>5, Zenon DEF IInv
<1> QED BY <1>1, <1>2, Zenon
-----------------------------------------------------------------------------
(* The replies of a fleet-wide command.                                    *)

\* What the replies r of the Burrows S to command c have in common: a lost Tunnel
\* stays lost, and a command is not sent only after a Tunnel was found lost or could
\* not be acquired.
Replied(S, c, chain, r) ==
    /\ r \in [S -> Replies]
    /\ \A b \in S : tx[b] = "lost" => r[b] \in {"lost", "unsent"}
    /\ \A b \in S : Cut(r[b]) /\ tx[b] # "lost" => Flaky
    /\ \A b \in S : r[b] = "unsent" =>
         \E a \in S : r[a] = "lost" \/ (r[a] = "unsent" /\ Flaky /\ tx[a] = "idle")
    /\ \A b \in S : r[b] # "unsent" => r[b] \in CanReply(c, chain, b)

\* What the replies to a transaction command can be.
LEMMA ReplyCases ==
    ASSUME NEW S, NEW c, NEW chain, NEW r \in Exchange(S, c, chain)
    PROVE  Replied(S, c, chain, r)
<1>1. r \in [S -> Replies]
    BY Zenon DEF Exchange
<1>2. \A b \in S : \/ r[b] \in CanReply(c, chain, b)
                   \/ /\ r[b] = "unsent"
                      /\ \E a \in S : r[a] = "lost" \/ (r[a] = "unsent" /\ Flaky /\ tx[a] = "idle")
    BY Zenon DEF Exchange
<1>3. \A b \in S : "unsent" \notin CanReply(c, chain, b)
    BY Zenon DEF CanReply
<1>4. \A b \in S : Cut(r[b]) /\ tx[b] # "lost" => Flaky
    BY <1>2, Zenon DEF CanReply, Cut
<1>5. \A b \in S : tx[b] = "lost" => r[b] \in {"lost", "unsent"}
    BY <1>2, Zenon DEF CanReply
<1> QED BY <1>1, <1>2, <1>3, <1>4, <1>5, Zenon DEF Replied

\* A command that commits nothing leaves the fleet tolerable.
LEMMA CommandTolerable ==
    ASSUME IInv, NEW c \in {"begin", "savepoint", "rollback"}, NEW chain \in BOOLEAN,
           NEW r \in Exchange(Burrows, c, chain)
    PROVE  Tolerable(Blocks(c, chain, r), Work(c, r), Fates(c, r))
<1>0. Replied(Burrows, c, chain, r)
    BY ReplyCases, Zenon
<1>1. r \in [Burrows -> Replies]
    BY <1>0, Zenon DEF Replied
<1>2. /\ Blocks(c, chain, r) \in [Burrows -> BlockStates]
      /\ Fates(c, r) \in [Burrows -> FateStates]
      /\ Work(c, r) \in [Burrows -> BOOLEAN]
    BY <1>1, FleetTypes, Zenon DEF IInv
<1>3. \A b \in Burrows : DirtyAfter(c, b, r[b]) =>
        dirty[b] /\ TxAfter(c, chain, b, r[b]) \in {"open", "failed", "copying"}
    BY Zenon DEF IInv, DirtyAfter, TxAfter, Ends, Cut, WorkInBlocks
<1>4. \A b \in Burrows : FateAfter(c, b, r[b]) = "committed" => fate[b] = "committed"
    BY Zenon DEF FateAfter
<1>5. \A b \in Burrows : FateAfter(c, b, r[b]) = "aborted" => fate[b] = "aborted" \/ dirty[b]
    BY Zenon DEF FateAfter
<1>6. \A b, e \in Burrows : FateAfter(c, b, r[b]) = "committed" =>
        ~DirtyAfter(c, e, r[e]) /\ FateAfter(c, e, r[e]) # "aborted"
    BY <1>3, <1>4, <1>5, Zenon DEF IInv, Decided
<1>7. \A b \in Burrows : ~Flaky => TxAfter(c, chain, b, r[b]) # "lost"
    BY <1>0, Zenon DEF IInv, Replied, TxAfter, NoLoss, Cut
<1> QED BY <1>2, <1>3, <1>6, <1>7, Zenon DEF Tolerable, Blocks, Work, Fates

\* Begin preserves the inductive invariant.
LEMMA BeginIInv ==
    ASSUME Disciplined, IInv, NEW v \in {"simple", "extended"}, Begin(v)
    PROVE  IInv'
<1>0. /\ TypeOK /\ Ready /\ phase = "ready" /\ ~gone /\ copyTargets = {} /\ ToldIdle
      /\ UNCHANGED <<pinned, copyTargets, commit, saved, savepoint, gone>>
    BY Zenon DEF IInv, Begin, Ready, Disciplined
<1>1. PICK r \in Exchange(Burrows, "begin", FALSE) :
        LET t == Blocks("begin", FALSE, r)
            d == Work("begin", r)
            f == Fates("begin", r)
        IN  IF AllOk(Burrows, r)
            THEN /\ transaction' = TRUE /\ transactionFailed' = FALSE
                 /\ mutated' = FALSE /\ writeParticipants' = {}
                 /\ tx' = t /\ dirty' = d
                 /\ fate' = IF ToldIdle THEN NoFate ELSE f
                 /\ phase' = phase
                 /\ answer' = [what |-> "done", status |-> "T"]
                 /\ errored' = FALSE
            ELSE FailCommand(v, r, t, d, f)
    BY Zenon DEF Begin
<1> DEFINE t == Blocks("begin", FALSE, r)
           d == Work("begin", r)
           f == Fates("begin", r)
<1>2. Tolerable(t, d, f)
    BY CommandTolerable, Zenon
<1>3. /\ Replied(Burrows, "begin", FALSE, r)
      /\ \A b \in Burrows : t[b] = TxAfter("begin", FALSE, b, r[b])
      /\ \A b \in Burrows : d[b] = DirtyAfter("begin", b, r[b])
      /\ \A b \in Burrows : f[b] = FateAfter("begin", b, r[b])
    BY ReplyCases, Zenon DEF Blocks, Work, Fates
<1>4. CASE AllOk(Burrows, r)
  <2>1. \A b \in Burrows : tx[b] \in {"idle", "open"}
    BY <1>0, <1>3, <1>4 DEF AllOk, Replied, CanReply, TypeOK
  <2>2. \A b \in Burrows : ~dirty[b]
    BY <1>0, <2>1, Zenon DEF IInv, Quiet, Forgotten, WorkInBlocks, ToldIdle, TypeOK
  <2>3. ~savepoint
    BY <1>0, <2>1, Zenon DEF IInv, Restorable, Forgotten, ToldIdle, TypeOK
  <2>4. \A b \in Burrows : t[b] = "open" /\ ~d[b]
    BY <1>3, <1>4, <2>1, <2>2, Zenon DEF AllOk, TxAfter, DirtyAfter, Ends, Cut
  <2>5. /\ transaction' = TRUE /\ transactionFailed' = FALSE
        /\ mutated' = FALSE /\ writeParticipants' = {}
        /\ tx' = t /\ dirty' = d /\ fate' = [b \in Burrows |-> "none"] /\ phase' = phase
        /\ answer' = [what |-> "done", status |-> "T"] /\ errored' = FALSE
    BY <1>0, <1>1, <1>4, Zenon DEF NoFate
  <2>6. TypeOK'
    BY <1>0, <1>2, <2>5, Zenon DEF TypeOK, Tolerable, BlockStates, commit
  <2>7. WorkInBlocks' /\ Decided' /\ NoLoss'
    BY <2>4, <2>5, Zenon DEF WorkInBlocks, Decided, NoLoss
  <2>8. Quiet' /\ Working' /\ Restorable' /\ Forgotten'
    BY <1>0, <2>3, <2>4, <2>5, ZenonT(30) DEF Quiet, Working, Restorable, Forgotten
  <2>9. Copying' /\ Committing' /\ Closed'
    BY <1>0, <2>5, Zenon DEF Copying, Committing, Closed
  <2> QED BY <1>0, <2>6, <2>7, <2>8, <2>9, Zenon DEF IInv
<1>5. CASE ~AllOk(Burrows, r)
  <2>1. FailCommand(v, r, t, d, f)
    BY <1>1, <1>5, ZenonT(30)
  <2>2. ASSUME ~transaction, pinned PROVE \A b \in Burrows : t[b] = "idle" /\ ~d[b]
    <3>1. \A b \in Burrows : tx[b] = "idle" /\ ~dirty[b]
      BY <1>0, <2>2, Zenon DEF IInv, Quiet
    <3>2. ~Flaky
      BY <1>0, <2>2, CoordinatorAssumption, Zenon DEF IInv, Flaky
    <3>3. \A b \in Burrows : r[b] = "ok"
      BY <1>3, <3>1, <3>2, Zenon DEF Replied, CanReply
    <3> QED BY <1>5, <3>3, Zenon DEF AllOk
  <2>3. ASSUME \A b \in Burrows : t[b] # "lost"
        PROVE  \A b \in Burrows : tx[b] # "lost"
    BY <1>3, <2>3, Zenon DEF Replied, TxAfter, Cut
  <2>4. ASSUME savepoint' PROVE \A b \in Burrows :
               /\ t[b] # "idle" /\ f[b] \in {"none", "aborted"}
               /\ t[b] # "lost" => f[b] = "none"
    BY <1>0, <1>3, <2>4, Zenon DEF IInv, Replied, Restorable, TxAfter, FateAfter, Ends, Cut
  <2>5. ASSUME transaction, \A b \in Burrows : t[b] # "lost"
        PROVE  ~savepoint' /\ \A b \in Burrows : t[b] = "open" => ~d[b]
    <3>1. ~savepoint /\ \A b \in Burrows : tx[b] = "open" => ~dirty[b]
      BY <1>0, <2>3, <2>5, Zenon DEF IInv, Forgotten, ToldIdle
    <3> QED BY <1>0, <1>3, <3>1, Zenon DEF IInv, TxAfter, DirtyAfter, Ends, Cut, WorkInBlocks
  <2> HIDE DEF t, d, f
  <2> QED BY <1>0, <1>2, <2>1, <2>2, <2>4, <2>5, FailCommandIInv, Zenon
<1> QED BY <1>4, <1>5, Zenon

\* Savepoint preserves the inductive invariant.
LEMMA SavepointIInv ==
    ASSUME IInv, NEW v \in {"simple", "extended"}, Savepoint(v)
    PROVE  IInv'
<1>0. /\ TypeOK /\ Ready /\ phase = "ready" /\ ~gone /\ copyTargets = {}
      /\ transaction /\ ~errored
      /\ UNCHANGED <<pinned, copyTargets, phase, commit, gone>>
    BY Zenon DEF IInv, Savepoint, Ready
<1>1. PICK r \in Exchange(Burrows, "savepoint", FALSE) :
        LET t == Blocks("savepoint", FALSE, r)
            d == Work("savepoint", r)
            f == Fates("savepoint", r)
        IN  IF AllOk(Burrows, r)
            THEN /\ savepoint' = TRUE /\ saved' = dirty
                 /\ answer' = [what |-> "done", status |-> TxStatus]
                 /\ UNCHANGED <<session, tx, dirty, fate, errored>>
            ELSE /\ Fail(v, Burrows, r, t, d, f)
                 /\ UNCHANGED <<saved, savepoint>>
    BY Zenon DEF Savepoint
<1> DEFINE t == Blocks("savepoint", FALSE, r)
           d == Work("savepoint", r)
           f == Fates("savepoint", r)
<1>2. Tolerable(t, d, f)
    BY CommandTolerable, Zenon
<1>3. /\ Replied(Burrows, "savepoint", FALSE, r)
      /\ \A b \in Burrows : t[b] = TxAfter("savepoint", FALSE, b, r[b])
      /\ \A b \in Burrows : f[b] = FateAfter("savepoint", b, r[b])
    BY ReplyCases, ZenonT(30) DEF Blocks, Work, Fates
<1>4. \A b \in Burrows : tx[b] = "open" /\ fate[b] = "none"
    BY <1>0, Zenon DEF IInv, Working
<1>5. CASE AllOk(Burrows, r)
  <2>1. /\ savepoint' = TRUE /\ saved' = dirty
        /\ answer' = [what |-> "done", status |-> TxStatus]
        /\ UNCHANGED <<session, tx, dirty, fate, errored>>
    BY <1>1, <1>5, Zenon
  <2>2. TypeOK'
    BY <1>0, <2>1, Zenon DEF TypeOK, session, commit, TxStatus
  <2>3. WorkInBlocks' /\ Decided' /\ NoLoss' /\ Quiet' /\ Working'
    BY <1>0, <2>1, ZenonT(30) DEF IInv, WorkInBlocks, Decided, NoLoss, Flaky, Quiet, Working, session
  <2>4. Restorable' /\ Forgotten'
    BY <1>0, <1>4, <2>1, Zenon DEF IInv, Working, Restorable, Forgotten, session, TxStatus
  <2>5. Copying' /\ Committing' /\ Closed'
    BY <1>0, SMTT(30) DEF Copying, Committing, Closed
  <2> QED BY <1>0, <2>2, <2>3, <2>4, <2>5, Zenon DEF IInv
<1>6. CASE ~AllOk(Burrows, r)
  <2>1. Fail(v, Burrows, r, t, d, f) /\ UNCHANGED <<saved, savepoint>>
    BY <1>1, <1>6, Zenon
  <2>2. \A b \in Burrows : /\ t[b] # "idle" /\ f[b] \in {"none", "aborted"}
                           /\ t[b] # "lost" => f[b] = "none"
    BY <1>3, <1>4, Zenon DEF TxAfter, FateAfter, Ends, Cut
  <2>3. \E b \in Burrows : t[b] = "lost"
    <3>1. PICK b \in Burrows : r[b] # "ok"
      BY <1>6, Zenon DEF AllOk
    <3>2. CanReply("savepoint", FALSE, b) \subseteq {"ok", "lost", "unacked"}
      BY <1>4, Zenon DEF CanReply
    <3> QED BY <1>3, <1>4, <3>1, <3>2, ZenonT(30) DEF Replied, TxAfter, Cut
  <2> HIDE DEF t, d, f
  <2> QED BY <1>0, <1>2, <2>1, <2>2, <2>3, FailIInv, Zenon
<1> QED BY <1>5, <1>6, Zenon

\* RollbackTo preserves the inductive invariant.
LEMMA RollbackToIInv ==
    ASSUME IInv, NEW v \in {"simple", "extended"}, RollbackTo(v)
    PROVE  IInv'
<1>0. /\ TypeOK /\ Ready /\ phase = "ready" /\ ~gone /\ copyTargets = {}
      /\ transaction /\ savepoint
      /\ UNCHANGED <<pinned, copyTargets, commit, saved, savepoint, gone>>
    BY Zenon DEF IInv, RollbackTo, Ready
<1>1. PICK r \in Exchange(Burrows, "rollback to", FALSE) :
        LET t == Blocks("rollback to", FALSE, r)
            d == Work("rollback to", r)
            f == Fates("rollback to", r)
        IN  IF AllOk(Burrows, r)
            THEN /\ transactionFailed' = FALSE
                 /\ tx' = t /\ dirty' = d /\ fate' = f
                 /\ phase' = phase
                 /\ answer' = [what |-> "done", status |-> "T"]
                 /\ errored' = FALSE
                 /\ UNCHANGED <<transaction, mutated, writeParticipants>>
            ELSE FailCommand(v, r, t, d, f)
    BY Zenon DEF RollbackTo
<1> DEFINE t == Blocks("rollback to", FALSE, r)
           d == Work("rollback to", r)
           f == Fates("rollback to", r)
<1>2. Replied(Burrows, "rollback to", FALSE, r)
    BY ReplyCases, Zenon
<1>3. /\ \A b \in Burrows : t[b] = TxAfter("rollback to", FALSE, b, r[b])
      /\ \A b \in Burrows : d[b] = DirtyAfter("rollback to", b, r[b])
      /\ \A b \in Burrows : f[b] = FateAfter("rollback to", b, r[b])
    BY Zenon DEF Blocks, Work, Fates
<1>4. /\ writeParticipants # {} => mutated
      /\ \A b \in Burrows : /\ tx[b] # "idle" /\ fate[b] \in {"none", "aborted"}
                            /\ tx[b] # "lost" => fate[b] = "none"
                            /\ saved[b] => b \in writeParticipants
    BY <1>0, Zenon DEF IInv, Restorable
<1>5. \A b \in Burrows : /\ t[b] # "idle" /\ f[b] \in {"none", "aborted"}
                         /\ t[b] # "lost" => f[b] = "none"
    BY <1>2, <1>3, <1>4, ZenonT(30) DEF Replied, TxAfter, FateAfter, Ends, Cut
<1>6. Tolerable(t, d, f)
  <2>1. /\ t \in [Burrows -> BlockStates]
        /\ d \in [Burrows -> BOOLEAN]
        /\ f \in [Burrows -> FateStates]
    BY <1>0, <1>2, FleetTypes, Zenon DEF Replied
  <2>2. \A b \in Burrows : d[b] => t[b] \in {"open", "failed", "copying"}
    BY <1>2, <1>3, ZenonT(30) DEF IInv, Replied, TxAfter, DirtyAfter, Ends, Cut, WorkInBlocks
  <2>3. ~Flaky => \A b \in Burrows : t[b] # "lost"
    BY <1>2, <1>3, Zenon DEF IInv, Replied, TxAfter, Cut, NoLoss
  <2> QED BY <1>5, <2>1, <2>2, <2>3, Zenon DEF Tolerable
<1>7. CASE AllOk(Burrows, r)
  <2>1. /\ transactionFailed' = FALSE
        /\ tx' = t /\ dirty' = d /\ fate' = f /\ phase' = phase
        /\ answer' = [what |-> "done", status |-> "T"] /\ errored' = FALSE
        /\ UNCHANGED <<transaction, mutated, writeParticipants>>
    BY <1>1, <1>7, ZenonT(30)
  <2>2. \A b \in Burrows : t[b] = "open" /\ d[b] = saved[b]
    BY <1>3, <1>4, <1>7, ZenonT(30) DEF AllOk, TxAfter, DirtyAfter, Ends, Cut
  <2>3. \A b \in Burrows : f[b] = "none"
    BY <1>5, <2>2, ZenonT(30)
  <2>4. TypeOK'
    BY <1>0, <1>6, <2>1, ZenonT(30) DEF TypeOK, Tolerable, BlockStates, FateStates, commit
  <2>5. WorkInBlocks' /\ Decided' /\ NoLoss'
    BY <2>1, <2>2, <2>3, ZenonT(30) DEF WorkInBlocks, Decided, NoLoss
  <2>6. Quiet' /\ Working' /\ Restorable' /\ Forgotten'
    BY <1>0, <1>4, <2>1, <2>2, <2>3, ZenonT(30) DEF Quiet, Working, Restorable, Forgotten
  <2>7. Copying' /\ Committing' /\ Closed'
    BY <1>0, <2>1, ZenonT(30) DEF Copying, Committing, Closed
  <2> QED BY <1>0, <2>4, <2>5, <2>6, <2>7, Zenon DEF IInv
<1>8. CASE ~AllOk(Burrows, r)
  <2>1. FailCommand(v, r, t, d, f)
    BY <1>1, <1>8, Zenon
  <2>2. ASSUME \A b \in Burrows : t[b] # "lost"
        PROVE  ~Broken(Burrows, r) /\ ReadyTxStatus(Burrows, t) # "I"
    <3>1. \A b \in Burrows : r[b] \in {"ok", "error"}
      BY <1>2, <1>3, <1>4, <2>2, Zenon DEF Replied, Replies, TxAfter, Cut
    <3>2. Burrows # {}
      BY <1>8, ZenonT(30) DEF AllOk
    <3> QED BY <1>5, <3>1, <3>2, ZenonT(30) DEF Broken, ReadyTxStatus
  <2> HIDE DEF t, d, f
  <2> QED BY <1>0, <1>5, <1>6, <2>1, <2>2, FailCommandIInv, Zenon
<1> QED BY <1>7, <1>8, Zenon

\* COMMIT or ROLLBACK, accepted everywhere, ends the transaction or chains the
\* next one.
LEMMA EndTransactionIInv ==
    ASSUME IInv, Ready, NEW chain \in BOOLEAN, NEW t, NEW d, NEW f, Tolerable(t, d, f),
           \A b \in Burrows : ~d[b] /\ t[b] = IF chain THEN "open" ELSE "idle",
           transaction' = chain, transactionFailed' = FALSE, mutated' = FALSE,
           writeParticipants' = {}, phase' = phase, errored' = FALSE,
           Settle(chain, t, d, IF chain THEN NoFate ELSE f),
           savepoint' = FALSE, saved' = Unharmed,
           UNCHANGED <<pinned, copyTargets, commit, gone>>,
           answer'.status = (IF chain THEN "T" ELSE "I"),
           answer' \in [what : {"done", "commit", "chain", "rollback"}, status : {"T", "I"}]
    PROVE  IInv'
<1>0. TypeOK /\ phase = "ready" /\ ~gone /\ copyTargets = {}
    BY Zenon DEF IInv, Ready
<1> DEFINE g == IF chain THEN NoFate ELSE f
<1>1. Tolerable(t, d, g)
    BY SMTT(30) DEF Tolerable, NoFate, FateStates
<1>2. /\ Tolerable(tx', dirty', fate')
      /\ ~chain => \A b \in Burrows : tx'[b] = "idle" /\ ~dirty'[b]
      /\ chain => tx' = t /\ dirty' = d /\ fate' = g
  <2>1. Settle(chain, t, d, g) /\ gone' = gone /\ pinned \in BOOLEAN
    BY <1>0, SMTT(30) DEF TypeOK
  <2>2. ~chain => \A b \in Burrows : t[b] = "idle" /\ ~d[b]
    BY SMTT(30)
  <2> HIDE DEF g
  <2> QED BY <1>0, <1>1, <2>1, <2>2, SettleTolerable, SMTT(30)
<1>3. TypeOK'
  <2>1. saved' \in [Burrows -> BOOLEAN] /\ savepoint' \in BOOLEAN
    BY ZenonT(30) DEF Unharmed
  <2> QED BY <1>0, <1>2, <2>1, Zenon DEF TypeOK, Tolerable, BlockStates, FateStates, commit
<1>4. WorkInBlocks' /\ Decided' /\ NoLoss'
    BY <1>2 DEF WorkInBlocks, Decided, NoLoss, Tolerable, Flaky
<1>5. Quiet' /\ Working' /\ Restorable' /\ Forgotten'
    BY <1>0, <1>2, Zenon DEF Quiet, Working, Restorable, Forgotten, NoFate
<1>6. Copying' /\ Committing' /\ Closed'
    BY <1>0, Zenon DEF Copying, Committing, Closed
<1>7. pinned' => "pin" \in Client
    BY Zenon DEF IInv
<1> QED BY <1>3, <1>4, <1>5, <1>6, <1>7, Zenon DEF IInv

\* Rollback preserves the inductive invariant.
LEMMA RollbackIInv ==
    ASSUME IInv, NEW v \in {"simple", "extended"}, NEW chain \in BOOLEAN,
           Rollback(v, chain)
    PROVE  IInv'
<1>0. /\ TypeOK /\ Ready /\ phase = "ready" /\ ~gone /\ copyTargets = {} /\ transaction
      /\ savepoint' = FALSE /\ saved' = Unharmed
      /\ UNCHANGED <<pinned, copyTargets, commit, gone>>
    BY Zenon DEF IInv, Rollback, Ready
<1>1. PICK r \in Exchange(Burrows, "rollback", chain) :
        LET t == Blocks("rollback", chain, r)
            d == Work("rollback", r)
            f == Fates("rollback", r)
        IN  IF AllOk(Burrows, r)
            THEN /\ transaction' = chain /\ transactionFailed' = FALSE
                 /\ mutated' = FALSE /\ writeParticipants' = {}
                 /\ Settle(chain, t, d, IF chain THEN NoFate ELSE f)
                 /\ phase' = phase
                 /\ answer' = [what |-> "rollback", status |-> IF chain THEN "T" ELSE "I"]
                 /\ errored' = FALSE
            ELSE FailCommand(v, r, t, d, f)
    BY Zenon DEF Rollback
<1> DEFINE t == Blocks("rollback", chain, r)
           d == Work("rollback", r)
           f == Fates("rollback", r)
<1>2. Tolerable(t, d, f)
    BY CommandTolerable, Zenon
<1>3. /\ Replied(Burrows, "rollback", chain, r)
      /\ \A b \in Burrows : t[b] = TxAfter("rollback", chain, b, r[b])
      /\ \A b \in Burrows : d[b] = DirtyAfter("rollback", b, r[b])
    BY ReplyCases, SMTT(30) DEF Blocks, Work
<1>4. CASE AllOk(Burrows, r)
  <2>1. \A b \in Burrows : tx[b] # "copying" /\ (chain => tx[b] # "idle")
    BY <1>3, <1>4, Zenon DEF AllOk, Replied, CanReply
  <2>2. \A b \in Burrows : ~d[b] /\ t[b] = IF chain THEN "open" ELSE "idle"
    BY <1>3, <1>4, <2>1, Zenon DEF AllOk, TxAfter, DirtyAfter, Ends, Cut
  <2>3. /\ transaction' = chain /\ transactionFailed' = FALSE
        /\ mutated' = FALSE /\ writeParticipants' = {}
        /\ Settle(chain, t, d, IF chain THEN NoFate ELSE f)
        /\ phase' = phase /\ errored' = FALSE
        /\ answer'.status = (IF chain THEN "T" ELSE "I")
        /\ answer' \in [what : {"done", "commit", "chain", "rollback"}, status : {"T", "I"}]
    BY <1>1, <1>4, SMTT(30)
  <2> HIDE DEF t, d, f
  <2> QED BY <1>0, <1>2, <2>2, <2>3, EndTransactionIInv, Zenon
<1>5. CASE ~AllOk(Burrows, r)
  <2>1. FailCommand(v, r, t, d, f)
    BY <1>1, <1>5, Zenon
  <2>2. ASSUME \A b \in Burrows : t[b] # "lost"
        PROVE  \A b \in Burrows : t[b] = "open" => ~d[b]
    <3>1. \A b \in Burrows : tx[b] # "lost"
      BY <1>3, <2>2, Zenon DEF Replied, TxAfter, Cut
    <3>2. ASSUME NEW b \in Burrows, t[b] = "open", d[b] PROVE FALSE
      <4>1. r[b] = "unsent" /\ tx[b] = "open" /\ dirty[b]
        BY <1>3, <3>2, Zenon DEF TxAfter, DirtyAfter, Ends, Cut
      <4>2. PICK a \in Burrows : r[a] = "lost" \/ (r[a] = "unsent" /\ Flaky /\ tx[a] = "idle")
        BY <1>3, <4>1, Zenon DEF Replied
      <4>3. tx[a] = "idle"
        BY <1>3, <2>2, <4>2, Zenon DEF TxAfter, Cut
      <4> QED BY <1>0, <3>1, <4>1, <4>3, SMTT(30) DEF IInv, Forgotten
    <3> QED BY <3>2, Zenon
  <2> HIDE DEF t, d, f
  <2> QED BY <1>0, <1>2, <2>1, <2>2, FailCommandIInv, ZenonT(30)
<1> QED BY <1>4, <1>5, Zenon

\* A COMMIT sent to every Burrow at once finds work on one Burrow at most: the
\* others would have been write participants, and NeedsTwoPhase.
LEMMA CommitEverywhereIInv ==
    ASSUME Disciplined, IInv, NEW v \in {"simple", "extended"}, NEW chain \in BOOLEAN,
           CommitEverywhere(v, chain)
    PROVE  IInv'
<1>0. /\ TypeOK /\ Ready /\ phase = "ready" /\ ~gone /\ copyTargets = {} /\ transaction
      /\ ~errored /\ ~NeedsTwoPhase(v)
      /\ savepoint' = FALSE /\ saved' = Unharmed
      /\ UNCHANGED <<pinned, copyTargets, commit, gone>>
    BY Zenon DEF IInv, CommitEverywhere, Ready, MayCommit, Disciplined
<1>1. PICK r \in Exchange(Burrows, "commit", chain) :
        LET t == Blocks("commit", chain, r)
            d == Work("commit", r)
            f == Fates("commit", r)
        IN  IF AllOk(Burrows, r)
            THEN /\ transaction' = chain /\ transactionFailed' = FALSE
                 /\ mutated' = FALSE /\ writeParticipants' = {}
                 /\ Settle(chain, t, d, IF chain THEN NoFate ELSE f)
                 /\ phase' = phase
                 /\ answer' = [what |-> CommitTag(chain), status |-> IF chain THEN "T" ELSE "I"]
                 /\ errored' = FALSE
            ELSE FailCommand(v, r, t, d, f)
    BY SMTT(30) DEF CommitEverywhere
<1> DEFINE t == Blocks("commit", chain, r)
           d == Work("commit", r)
           f == Fates("commit", r)
<1>2. \A b \in Burrows : tx[b] = "open" /\ fate[b] = "none"
    BY <1>0, Zenon DEF IInv, Working
<1>3. \A a, b \in Burrows : dirty[a] /\ dirty[b] => a = b
    BY <1>0, SMTT(30) DEF IInv, Working, NeedsTwoPhase, Disciplined
<1>4. /\ Replied(Burrows, "commit", chain, r)
      /\ \A b \in Burrows : t[b] = TxAfter("commit", chain, b, r[b])
      /\ \A b \in Burrows : d[b] = DirtyAfter("commit", b, r[b])
      /\ \A b \in Burrows : f[b] = FateAfter("commit", b, r[b])
    BY ReplyCases, Zenon DEF Blocks, Work, Fates
<1>5. Tolerable(t, d, f)
  <2>1. /\ t \in [Burrows -> BlockStates]
        /\ d \in [Burrows -> BOOLEAN]
        /\ f \in [Burrows -> FateStates]
    BY <1>0, <1>4, FleetTypes, SMTT(30) DEF Replied
  <2> HIDE DEF t, d, f
  <2>2. \A b \in Burrows : d[b] => t[b] = "open" /\ dirty[b] /\ r[b] = "unsent"
    BY <1>2, <1>4, ZenonT(30) DEF TxAfter, DirtyAfter, Ends, Cut
  <2>3. \A b \in Burrows : f[b] = "committed" => dirty[b] /\ r[b] # "unsent"
    BY <1>2, <1>4, ZenonT(30) DEF FateAfter, Ends, Cut
  <2>4. \A b \in Burrows : f[b] = "aborted" => dirty[b]
    BY <1>2, <1>4, Zenon DEF FateAfter, Ends, Cut
  <2>5. \A b, c \in Burrows : f[b] = "committed" => ~d[c] /\ f[c] # "aborted"
    BY <1>3, <2>2, <2>3, <2>4, SMTT(30)
  <2>6. ~Flaky => \A b \in Burrows : t[b] # "lost"
    BY <1>2, <1>4, SMTT(30) DEF Replied, TxAfter, Cut
  <2> QED BY <2>1, <2>2, <2>5, <2>6, Zenon DEF Tolerable
<1>6. CASE AllOk(Burrows, r)
  <2>1. \A b \in Burrows : ~d[b] /\ t[b] = IF chain THEN "open" ELSE "idle"
    BY <1>2, <1>4, <1>6, Zenon DEF AllOk, TxAfter, DirtyAfter, Ends, Cut
  <2>2. /\ transaction' = chain /\ transactionFailed' = FALSE
        /\ mutated' = FALSE /\ writeParticipants' = {}
        /\ Settle(chain, t, d, IF chain THEN NoFate ELSE f)
        /\ phase' = phase /\ errored' = FALSE
        /\ answer'.status = (IF chain THEN "T" ELSE "I")
        /\ answer' \in [what : {"done", "commit", "chain", "rollback"}, status : {"T", "I"}]
    BY <1>1, <1>6, SMTT(30) DEF CommitTag
  <2> HIDE DEF t, d, f
  <2> QED BY <1>0, <1>5, <2>1, <2>2, EndTransactionIInv, ZenonT(30)
<1>7. CASE ~AllOk(Burrows, r)
  <2>1. FailCommand(v, r, t, d, f)
    BY <1>1, <1>7, SMTT(30)
  <2>2. ASSUME \A b \in Burrows : t[b] # "lost"
        PROVE  \A b \in Burrows : ~d[b]
    BY <1>2, <1>4, <2>2, ZenonT(30) DEF Replied, TxAfter, DirtyAfter, Ends, Cut
  <2> HIDE DEF t, d, f
  <2> QED BY <1>0, <1>5, <2>1, <2>2, FailCommandIInv, Zenon
<1> QED BY <1>6, <1>7, Zenon
-----------------------------------------------------------------------------
(* Statements.                                                             *)

\* A statement that is recorded as a write exactly when it is one.
RecordedStatement(v, S, write) ==
    /\ Ready /\ Speaks(v) /\ ~errored
    /\ transaction
    /\ \E r \in TargetReplies(S) :
         LET t == StatementBlocks(S, r)
             d == StatementWork(S, r, write)
             f == StatementFates(S, r, write)
         IN  IF AllOk(S, r)
             THEN /\ writeParticipants' = writeParticipants \cup (IF write THEN S ELSE {})
                  /\ mutated' = (mutated \/ write)
                  /\ tx' = t /\ dirty' = d /\ fate' = f
                  /\ answer' = [what |-> "done", status |-> TxStatus]
                  /\ UNCHANGED <<transaction, transactionFailed, errored>>
             ELSE Fail(v, S, r, t, d, f)
    /\ UNCHANGED <<pinned, copyTargets, phase, commit, saved, savepoint, gone>>

\* The statements of a disciplined client are such (recordWriteParticipants).
LEMMA StatementIsRecorded ==
    ASSUME Disciplined, NEW v, NEW S, NEW kind \in Kinds, Statement(v, S, kind)
    PROVE  \E write \in BOOLEAN : RecordedStatement(v, S, write)
<1>1. kind \in {"read", "write"}
    BY Zenon DEF Disciplined, Kinds
<1>2. CASE kind = "read"
  <2>1. Writes(kind) = FALSE /\ Recorded(kind) = FALSE
    BY <1>2, Zenon DEF Writes, Recorded
  <2>2. RecordedStatement(v, S, FALSE)
    BY <2>1, ZenonT(30) DEF Statement, RecordedStatement
  <2> QED BY <2>2, Zenon
<1>3. CASE kind = "write"
  <2>1. Writes(kind) = TRUE /\ Recorded(kind) = TRUE
    BY <1>3, Zenon DEF Writes, Recorded
  <2>2. RecordedStatement(v, S, TRUE)
    BY <2>1, ZenonT(30) DEF Statement, RecordedStatement
  <2> QED BY <2>2, Zenon
<1> QED BY <1>1, <1>2, <1>3, Zenon

\* What a statement with the replies r leaves of healthy blocks.
Weathered(S, r, write, t, d, f) ==
    /\ Tolerable(t, d, f)
    /\ \A b \in Burrows : /\ t[b] # "idle" /\ f[b] \in {"none", "aborted"}
                          /\ t[b] # "lost" => f[b] = "none"
                          /\ d[b] => dirty[b] \/ (write /\ b \in S)
    /\ AllOk(S, r) => \A b \in Burrows : t[b] = "open"
    /\ ~AllOk(S, r) /\ (\A b \in Burrows : t[b] # "lost")
       => ~Broken(S, r) /\ ReadyTxStatus(S, t) # "I"

\* What a statement does to healthy blocks.
LEMMA StatementEffect ==
    ASSUME IInv, NEW S \in SUBSET Burrows, NEW r \in TargetReplies(S), NEW write \in BOOLEAN,
           \A b \in Burrows : tx[b] = "open" /\ fate[b] = "none"
    PROVE  Weathered(S, r, write, StatementBlocks(S, r), StatementWork(S, r, write),
                     StatementFates(S, r, write))
<1> DEFINE t == StatementBlocks(S, r)
           d == StatementWork(S, r, write)
           f == StatementFates(S, r, write)
<1>0. Replied(S, "statement", FALSE, r) /\ r \in [S -> Replies]
  <2>1. Replied(S, "statement", FALSE, r)
    BY ReplyCases, Zenon DEF TargetReplies
  <2> QED BY <2>1, Zenon DEF Replied
<1>1. /\ t \in [Burrows -> BlockStates]
      /\ d \in [Burrows -> BOOLEAN]
      /\ f \in [Burrows -> FateStates]
    BY <1>0, TargetTypes, Zenon DEF IInv
<1>2. /\ \A b \in Burrows : t[b] = IF b \in S THEN TxAfter("statement", FALSE, b, r[b]) ELSE tx[b]
      /\ \A b \in Burrows : d[b] = IF b \notin S THEN dirty[b]
                                   ELSE IF write /\ r[b] = "ok" /\ tx[b] = "open" THEN TRUE
                                   ELSE DirtyAfter("statement", b, r[b])
      /\ \A b \in Burrows : f[b] = IF b \notin S THEN fate[b]
                                   ELSE FateAfter("statement", b, r[b])
    BY Zenon DEF StatementBlocks, StatementWork, StatementFates
<1> HIDE DEF t, d, f
<1>3. \A b \in Burrows : /\ t[b] # "idle" /\ f[b] \in {"none", "aborted"}
                         /\ t[b] # "lost" => f[b] = "none"
    BY <1>2, Zenon DEF TxAfter, FateAfter, Ends, Cut
<1>4. \A b \in Burrows : /\ d[b] => dirty[b] \/ (write /\ b \in S)
                         /\ d[b] => t[b] \in {"open", "failed", "copying"}
    BY <1>2, Zenon DEF TxAfter, DirtyAfter, Ends, Cut
<1>5. ~Flaky => \A b \in Burrows : t[b] # "lost"
    BY <1>0, <1>2, Zenon DEF Replied, TxAfter, Cut
<1>6. AllOk(S, r) => \A b \in Burrows : t[b] = "open"
    BY <1>2, Zenon DEF AllOk, TxAfter, Ends, Cut
<1>7. ASSUME ~AllOk(S, r), \A b \in Burrows : t[b] # "lost"
      PROVE  ~Broken(S, r) /\ ReadyTxStatus(S, t) # "I"
  <2>1. \A b \in S : r[b] \in {"ok", "error"}
    BY <1>0, <1>2, <1>7, SMTT(30) DEF Replied, Replies, TxAfter, Cut
  <2>2. \E b \in S : t[b] # "idle"
    BY <1>3, <1>7, Zenon DEF AllOk
  <2> QED BY <2>1, <2>2, SMTT(30) DEF Broken, ReadyTxStatus
<1>8. Tolerable(t, d, f)
    BY <1>1, <1>3, <1>4, <1>5, Zenon DEF Tolerable
<1> QED BY <1>3, <1>4, <1>6, <1>7, <1>8, Zenon DEF Weathered, t, d, f

\* Statement preserves the inductive invariant.
LEMMA StatementIInv ==
    ASSUME IInv, NEW v \in {"simple", "extended"}, NEW S \in Targets, NEW write \in BOOLEAN,
           RecordedStatement(v, S, write)
    PROVE  IInv'
<1>0. /\ TypeOK /\ Ready /\ phase = "ready" /\ ~gone /\ copyTargets = {}
      /\ transaction /\ ~errored /\ S \in SUBSET Burrows
      /\ UNCHANGED <<pinned, copyTargets, phase, commit, saved, savepoint, gone>>
    BY Zenon DEF IInv, RecordedStatement, Ready, Targets
<1>1. PICK r \in TargetReplies(S) :
        LET t == StatementBlocks(S, r)
            d == StatementWork(S, r, write)
            f == StatementFates(S, r, write)
        IN  IF AllOk(S, r)
            THEN /\ writeParticipants' = writeParticipants \cup (IF write THEN S ELSE {})
                 /\ mutated' = (mutated \/ write)
                 /\ tx' = t /\ dirty' = d /\ fate' = f
                 /\ answer' = [what |-> "done", status |-> TxStatus]
                 /\ UNCHANGED <<transaction, transactionFailed, errored>>
            ELSE Fail(v, S, r, t, d, f)
    BY ZenonT(30) DEF RecordedStatement
<1> DEFINE t == StatementBlocks(S, r)
           d == StatementWork(S, r, write)
           f == StatementFates(S, r, write)
<1>2. /\ ~transactionFailed
      /\ writeParticipants # {} => mutated
      /\ \A b \in Burrows : /\ tx[b] = "open" /\ fate[b] = "none"
                            /\ dirty[b] => b \in writeParticipants
    BY <1>0, Zenon DEF IInv, Working
<1>3. /\ Tolerable(t, d, f)
      /\ \A b \in Burrows : /\ t[b] # "idle" /\ f[b] \in {"none", "aborted"}
                            /\ t[b] # "lost" => f[b] = "none"
                            /\ d[b] => dirty[b] \/ (write /\ b \in S)
      /\ AllOk(S, r) => \A b \in Burrows : t[b] = "open"
      /\ ~AllOk(S, r) /\ (\A b \in Burrows : t[b] # "lost")
         => ~Broken(S, r) /\ ReadyTxStatus(S, t) # "I"
  <2>1. Weathered(S, r, write, t, d, f)
    BY <1>0, <1>2, StatementEffect, Zenon
  <2> HIDE DEF t, d, f
  <2> QED BY <2>1, Zenon DEF Weathered
<1>4. CASE AllOk(S, r)
  <2>1. /\ writeParticipants' = writeParticipants \cup (IF write THEN S ELSE {})
        /\ mutated' = (mutated \/ write)
        /\ tx' = t /\ dirty' = d /\ fate' = f
        /\ answer' = [what |-> "done", status |-> "T"]
        /\ UNCHANGED <<transaction, transactionFailed, errored>>
    BY <1>0, <1>1, <1>2, <1>4, Zenon DEF TxStatus
  <2> HIDE DEF t, d, f
  <2>2. TypeOK'
    BY <1>0, <1>3, <2>1, SMTT(30) DEF TypeOK, Tolerable, BlockStates, FateStates, commit
  <2>3. WorkInBlocks' /\ Decided' /\ NoLoss'
    BY <1>0, <1>3, <2>1, ZenonT(30) DEF WorkInBlocks, Decided, NoLoss, Tolerable, Flaky
  <2>4. /\ writeParticipants' # {} => mutated'
        /\ \A b \in Burrows : dirty'[b] => b \in writeParticipants'
    BY <1>2, <1>3, <2>1, ZenonT(30)
  <2>5. Quiet' /\ Working' /\ Forgotten'
    BY <1>0, <1>2, <1>3, <1>4, <2>1, <2>4, ZenonT(30) DEF Quiet, Working, Forgotten
  <2>6. Restorable'
    BY <1>0, <1>3, <2>1, <2>4, ZenonT(30) DEF IInv, Restorable
  <2>7. Copying' /\ Committing' /\ Closed'
    BY <1>0, <2>1, Zenon DEF Copying, Committing, Closed
  <2> QED BY <1>0, <2>2, <2>3, <2>5, <2>6, <2>7, Zenon DEF IInv
<1>5. CASE ~AllOk(S, r)
  <2>1. Fail(v, S, r, t, d, f)
    BY <1>1, <1>5, Zenon
  <2> HIDE DEF t, d, f
  <2> QED BY <1>0, <1>3, <1>5, <2>1, FailIInv, Zenon
<1> QED BY <1>4, <1>5, Zenon

\* Autocommit preserves the inductive invariant.
LEMMA AutocommitIInv ==
    ASSUME IInv, NEW v \in {"simple", "extended"}, NEW e \in Burrows, Autocommit(v, e)
    PROVE  IInv'
<1>0. /\ TypeOK /\ Ready /\ phase = "ready" /\ ~gone /\ copyTargets = {} /\ ~transaction
      /\ UNCHANGED <<pinned, copyTargets, phase, commit, saved, savepoint, gone>>
    BY Zenon DEF IInv, Autocommit, Ready
<1>1. PICK r \in TargetReplies({e}) :
        LET t == StatementBlocks({e}, r)
            d == StatementWork({e}, r, TRUE)
            f == StatementFates({e}, r, TRUE)
        IN  IF AllOk({e}, r)
            THEN /\ Settle(FALSE, t, d, f)
                 /\ answer' = [what |-> "done", status |-> "I"]
                 /\ UNCHANGED <<session, errored>>
            ELSE Fail(v, {e}, r, t, d, f)
    BY Zenon DEF Autocommit
<1> DEFINE t == StatementBlocks({e}, r)
           d == StatementWork({e}, r, TRUE)
           f == StatementFates({e}, r, TRUE)
<1>2. \A b \in Burrows : tx[b] = "idle" /\ ~dirty[b]
    BY <1>0, Zenon DEF IInv, Quiet
<1>3. Replied({e}, "statement", FALSE, r) /\ r \in [{e} -> Replies]
    BY ReplyCases, Zenon DEF TargetReplies, Replied
<1>4. /\ t \in [Burrows -> BlockStates]
      /\ d \in [Burrows -> BOOLEAN]
      /\ f \in [Burrows -> FateStates]
  <2>1. {e} \in SUBSET Burrows /\ TRUE \in BOOLEAN
    BY Zenon
  <2> QED BY <1>0, <1>3, <2>1, TargetTypes, ZenonT(30)
<1>5. \A b \in Burrows : t[b] \in {"idle", "lost"} /\ ~d[b] /\ f[b] = fate[b]
    BY <1>0, <1>2, Zenon
       DEF StatementBlocks, StatementWork, StatementFates, TxAfter, DirtyAfter, FateAfter, Ends, Cut
<1>6. ~Flaky => \A b \in Burrows : t[b] # "lost"
    BY <1>2, <1>3, SMTT(30) DEF StatementBlocks, Replied, TxAfter, Cut
<1> HIDE DEF t, d, f
<1>7. Tolerable(t, d, f)
    BY <1>4, <1>5, <1>6, SMTT(30) DEF IInv, Tolerable, Decided
<1>8. pinned => \A b \in Burrows : t[b] = "idle" /\ ~d[b]
    BY <1>0, <1>5, <1>6, CoordinatorAssumption, Zenon DEF IInv, Flaky
<1>9. CASE AllOk({e}, r)
  <2>1. /\ Settle(FALSE, t, d, f)
        /\ answer' = [what |-> "done", status |-> "I"]
        /\ UNCHANGED <<session, errored>>
    BY <1>1, <1>9, ZenonT(30) DEF t, d, f
  <2>2. /\ Tolerable(tx', dirty', fate')
        /\ \A b \in Burrows : tx'[b] = "idle" /\ ~dirty'[b]
    BY <1>0, <1>7, <1>8, <2>1, SettleTolerable, Zenon DEF TypeOK
  <2>3. TypeOK'
    BY <1>0, <2>1, <2>2, SMTT(30) DEF TypeOK, Tolerable, BlockStates, FateStates, session, commit
  <2>4. WorkInBlocks' /\ Decided' /\ NoLoss'
    BY <2>2, ZenonT(30) DEF WorkInBlocks, Decided, NoLoss, Tolerable, Flaky
  <2>5. Quiet' /\ Working' /\ Restorable' /\ Forgotten'
    BY <1>0, <2>1, <2>2, ZenonT(30) DEF IInv, Quiet, Working, Restorable, Forgotten, session
  <2>6. Copying' /\ Committing' /\ Closed'
    BY <1>0, SMTT(30) DEF Copying, Committing, Closed
  <2> QED BY <1>0, <2>3, <2>4, <2>5, <2>6, Zenon DEF IInv
<1>10. CASE ~AllOk({e}, r)
  <2>1. Fail(v, {e}, r, t, d, f)
    BY <1>1, <1>10, ZenonT(30) DEF t, d, f
  <2>2. ~savepoint'
    BY <1>0, Zenon DEF IInv, Restorable
  <2> QED BY <1>0, <1>7, <1>8, <2>1, <2>2, FailIInv, Zenon
<1> QED BY <1>9, <1>10, Zenon

\* CopyQuery preserves the inductive invariant.
LEMMA CopyQueryIInv ==
    ASSUME IInv, NEW S \in Targets, CopyQuery(S)
    PROVE  IInv'
<1>0. /\ TypeOK /\ phase = "ready" /\ ~gone /\ copyTargets = {}
      /\ transaction /\ ~errored /\ S \in SUBSET Burrows
      /\ UNCHANGED <<transaction, pinned, phase, commit, saved, savepoint, gone>>
    BY Zenon DEF IInv, CopyQuery, Ready, Targets
<1>1. PICK r \in TargetReplies(S) :
        /\ tx' = CopyBlocks(S, r)
        /\ dirty' = StatementWork(S, r, FALSE)
        /\ fate' = StatementFates(S, r, FALSE)
        /\ IF AllOk(S, r)
           THEN /\ copyTargets' = S
                /\ writeParticipants' = writeParticipants \cup S
                /\ mutated' = TRUE
                /\ answer' = [what |-> "done", status |-> TxStatus]
                /\ UNCHANGED <<transactionFailed, errored>>
           ELSE /\ transactionFailed' = TRUE
                /\ answer' = [what |-> "error", status |-> "E"]
                /\ errored' = TRUE
                /\ UNCHANGED <<copyTargets, writeParticipants, mutated>>
    BY ZenonT(30) DEF CopyQuery
<1> DEFINE t == StatementBlocks(S, r)
           d == StatementWork(S, r, FALSE)
           f == StatementFates(S, r, FALSE)
<1>2. /\ ~transactionFailed
      /\ writeParticipants # {} => mutated
      /\ \A b \in Burrows : /\ tx[b] = "open" /\ fate[b] = "none"
                            /\ dirty[b] => b \in writeParticipants
    BY <1>0, Zenon DEF IInv, Working
<1>3. /\ Tolerable(t, d, f)
      /\ \A b \in Burrows : /\ t[b] # "idle" /\ f[b] \in {"none", "aborted"}
                            /\ t[b] # "lost" => f[b] = "none"
                            /\ d[b] => dirty[b]
      /\ AllOk(S, r) => \A b \in Burrows : t[b] = "open"
  <2>1. \A w \in BOOLEAN : Weathered(S, r, w, StatementBlocks(S, r), StatementWork(S, r, w),
                                      StatementFates(S, r, w))
    BY <1>0, <1>2, StatementEffect, Zenon
  <2> QED BY <2>1, Zenon DEF Weathered
<1>4. /\ dirty' = d /\ fate' = f /\ tx' \in [Burrows -> BlockStates]
      /\ \A b \in Burrows : \/ tx'[b] = t[b]
                            \/ tx'[b] = "copying" /\ t[b] # "lost" /\ ~AllOk(S, r)
  <2>1. \A b \in S : r[b] = "ok" => t[b] = "open"
    BY <1>0, <1>2, SMTT(30) DEF StatementBlocks, TxAfter, Ends, Cut
  <2> HIDE DEF t
  <2>2. tx' = [b \in Burrows |-> IF b \in S /\ r[b] = "ok" /\ ~AllOk(S, r) THEN "copying"
                                 ELSE t[b]]
    BY <1>1, SMTT(30) DEF CopyBlocks, t
  <2> QED BY <1>1, <1>3, <2>1, <2>2, Zenon DEF Tolerable, BlockStates
<1> HIDE DEF t, d, f
<1>5. WorkInBlocks' /\ Decided' /\ NoLoss'
    BY <1>0, <1>3, <1>4, Zenon DEF WorkInBlocks, Decided, NoLoss, Tolerable, Flaky
<1>6. CASE AllOk(S, r)
  <2>1. /\ copyTargets' = S
        /\ writeParticipants' = writeParticipants \cup S
        /\ mutated' = TRUE
        /\ answer' = [what |-> "done", status |-> "T"]
        /\ UNCHANGED <<transactionFailed, errored>>
    BY <1>0, <1>1, <1>2, <1>6, SMTT(30) DEF TxStatus
  <2>2. TypeOK'
    BY <1>0, <1>3, <1>4, <2>1, SMTT(30) DEF TypeOK, Tolerable, BlockStates, FateStates, commit
  <2>3. Quiet' /\ Working' /\ Forgotten'
    BY <1>0, <1>2, <1>3, <1>4, <1>6, <2>1, ZenonT(30) DEF Quiet, Working, Forgotten
  <2>4. Restorable'
    BY <1>0, <1>3, <1>4, <1>6, <2>1, ZenonT(30) DEF IInv, Restorable
  <2>5. Copying' /\ Committing' /\ Closed'
    BY <1>0, <2>1, ZenonT(30) DEF Copying, Committing, Closed
  <2> QED BY <1>0, <1>5, <2>2, <2>3, <2>4, <2>5, SMTT(30) DEF IInv
<1>7. CASE ~AllOk(S, r)
  <2>1. /\ transactionFailed' = TRUE
        /\ answer' = [what |-> "error", status |-> "E"]
        /\ errored' = TRUE
        /\ UNCHANGED <<copyTargets, writeParticipants, mutated>>
    BY <1>1, <1>7, ZenonT(30)
  <2>2. TypeOK'
    BY <1>0, <1>3, <1>4, <2>1, SMTT(30) DEF TypeOK, Tolerable, BlockStates, FateStates, commit
  <2>3. Quiet' /\ Working' /\ Forgotten'
    BY <1>0, <1>3, <1>4, <2>1, ZenonT(30) DEF Quiet, Working, Forgotten
  <2>4. Restorable'
    BY <1>0, <1>2, <1>3, <1>4, <2>1, ZenonT(30) DEF IInv, Restorable
  <2>5. Copying' /\ Committing' /\ Closed'
    BY <1>0, <2>1, Zenon DEF Copying, Committing, Closed
  <2> QED BY <1>0, <1>5, <2>2, <2>3, <2>4, <2>5, Zenon DEF IInv
<1> QED BY <1>6, <1>7, Zenon

\* CopyEnd preserves the inductive invariant.
LEMMA CopyEndIInv == ASSUME IInv, CopyEnd PROVE IInv'
<1> DEFINE S == copyTargets
<1>0. /\ TypeOK /\ phase = "ready" /\ ~gone /\ S # {} /\ S \in SUBSET Burrows
      /\ transaction /\ ~errored /\ S \subseteq writeParticipants /\ copyTargets' = {}
      /\ UNCHANGED <<transaction, mutated, writeParticipants, pinned, phase, commit,
                     saved, savepoint, gone>>
    BY ZenonT(30) DEF IInv, CopyEnd, Copying, TypeOK
<1>1. PICK r \in TargetReplies(S) :
        /\ tx' = StatementBlocks(S, r)
        /\ dirty' = StatementWork(S, r, TRUE)
        /\ fate' = StatementFates(S, r, TRUE)
        /\ transactionFailed' = (transactionFailed \/ ~AllOk(S, r))
        /\ errored' = (errored \/ ~AllOk(S, r))
        /\ answer' = IF AllOk(S, r)
                     THEN [what |-> "done", status |-> TxStatus]
                     ELSE [what |-> "error", status |-> "E"]
    BY ZenonT(30) DEF CopyEnd
<1>2. /\ ~transactionFailed
      /\ writeParticipants # {} => mutated
      /\ \A b \in Burrows : /\ tx[b] = "open" /\ fate[b] = "none"
                            /\ dirty[b] => b \in writeParticipants
    BY <1>0, ZenonT(30) DEF IInv, Working
<1>3. /\ Tolerable(tx', dirty', fate')
      /\ \A b \in Burrows : /\ tx'[b] # "idle" /\ fate'[b] \in {"none", "aborted"}
                            /\ tx'[b] # "lost" => fate'[b] = "none"
                            /\ dirty'[b] => dirty[b] \/ b \in S
      /\ AllOk(S, r) => \A b \in Burrows : tx'[b] = "open"
  <2> HIDE DEF S
  <2> DEFINE t == StatementBlocks(S, r)
  <2>1. \A w \in BOOLEAN : Weathered(S, r, w, StatementBlocks(S, r), StatementWork(S, r, w),
                                      StatementFates(S, r, w))
    BY <1>0, <1>2, StatementEffect, Zenon
  <2> QED BY <1>1, <2>1, ZenonT(30) DEF Weathered
<1>4. TypeOK'
  <2>1. /\ transactionFailed' \in BOOLEAN /\ errored' \in BOOLEAN
        /\ answer' \in [what : {"done", "error"}, status : {"T", "E"}]
    BY <1>0, <1>1, <1>2, Zenon DEF TypeOK, AllOk, TxStatus
  <2> QED BY <1>0, <1>3, <2>1 DEF TypeOK, Tolerable, BlockStates, FateStates, commit
<1>5. WorkInBlocks' /\ Decided' /\ NoLoss'
    BY <1>0, <1>3, SMTT(30) DEF WorkInBlocks, Decided, NoLoss, Tolerable, Flaky
<1>6. Quiet' /\ Working' /\ Forgotten'
    BY <1>0, <1>1, <1>2, <1>3, ZenonT(30) DEF Quiet, Working, Forgotten, TxStatus
<1>7. Restorable'
    BY <1>0, <1>3, ZenonT(30) DEF IInv, Restorable
<1>8. Copying' /\ Committing' /\ Closed'
    BY <1>0, Zenon DEF Copying, Committing, Closed
<1> QED BY <1>0, <1>4, <1>5, <1>6, <1>7, <1>8, SMTT(30) DEF IInv
-----------------------------------------------------------------------------
(* commitTwoPhase.                                                         *)

LEMMA CommitTwoPhaseIInv ==
    ASSUME Disciplined, IInv, NEW v \in {"simple", "extended"}, NEW chain \in BOOLEAN,
           CommitTwoPhase(v, chain)
    PROVE  IInv'
<1>0. /\ TypeOK /\ phase = "ready" /\ ~gone /\ copyTargets = {} /\ transaction /\ ~errored
      /\ StartTwoPhase(v, writeParticipants, chain)
      /\ savepoint' = FALSE /\ saved' = Unharmed
      /\ UNCHANGED <<session, pinned, copyTargets, tx, dirty, fate, answer, errored, gone>>
    BY Zenon DEF IInv, CommitTwoPhase, Ready, MayCommit, Disciplined
<1>1. \A b \in Burrows : /\ tx[b] = "open" /\ fate[b] = "none"
                         /\ dirty[b] => b \in writeParticipants
    BY <1>0, Zenon DEF IInv, Working
<1>2. phase' \in {"prepare", "readers"}
    BY <1>0, SMTT(30) DEF StartTwoPhase
<1>3. TypeOK'
    BY <1>0, ZenonT(30) DEF TypeOK, StartTwoPhase, session, Unharmed
<1>4. WorkInBlocks' /\ Decided' /\ NoLoss'
    BY <1>0, <1>1, Zenon DEF WorkInBlocks, Decided, NoLoss, Flaky
<1>5. Quiet' /\ Working' /\ Restorable' /\ Forgotten' /\ Copying' /\ Closed'
    BY <1>0, <1>2, Zenon DEF Quiet, Working, Restorable, Forgotten, Copying, Closed
<1>6. Committing'
  <2>1. CASE writeParticipants = Burrows
    BY <1>0, <1>1, <2>1, ZenonT(30) DEF Committing, StartTwoPhase, session
  <2>2. CASE writeParticipants # Burrows
    BY <1>0, <1>1, <2>2, SMTT(30) DEF Committing, StartTwoPhase, session, TypeOK
  <2> QED BY <2>1, <2>2, Zenon
<1> QED BY <1>0, <1>3, <1>4, <1>5, <1>6, Zenon DEF IInv

\* commitTwoPhase returns to its caller.
LEMMA ReturnIInv ==
    ASSUME IInv, phase \in {"readers", "prepare", "undo", "commit"},
           NEW what \in {"commit", "error", "rolledback", "indoubt"},
           NEW t, NEW d, NEW f, Tolerable(t, d, f), Return(what, t, d, f),
           pinned /\ ~gone => \A b \in Burrows : t[b] = "idle" /\ ~d[b],
           (\A b \in Burrows : t[b] # "lost") => \A b \in Burrows : t[b] = "open" => ~d[b]
    PROVE  IInv'
<1> DEFINE held == transaction /\ via = "extended" /\ what # "commit"
<1>0. /\ TypeOK /\ ~savepoint /\ copyTargets = {}
      /\ phase' = IF held /\ Stuck(via, t) THEN "stuck" ELSE "ready"
      /\ transaction' = held /\ errored' = held
      /\ Settle(held, t, d, f)
      /\ UNCHANGED <<transactionFailed, pinned, copyTargets, saved, savepoint, gone>>
    BY ZenonT(30) DEF IInv, Return, Committing, Copying
<1>1. held \in BOOLEAN /\ phase' \in {"ready", "stuck"}
    BY <1>0, ZenonT(30) DEF TypeOK
<1>2. /\ Tolerable(tx', dirty', fate')
      /\ ~held /\ ~gone => \A b \in Burrows : tx'[b] = "idle" /\ ~dirty'[b]
      /\ held => tx' = t /\ dirty' = d /\ fate' = f
  <2> HIDE DEF held
  <2> QED BY <1>0, <1>1, SettleTolerable, ZenonT(30) DEF TypeOK
<1>3. /\ answer' \in [what : {"commit", "chain", "error", "rolledback", "indoubt"},
                      status : {"I", "T", "E", "-"}]
      /\ held => answer'.status # "I"
    BY SMTT(30) DEF Return, TxStatus
<1>4. /\ writeParticipants' \in SUBSET Burrows /\ mutated' \in BOOLEAN
      /\ via' = "simple" /\ members' = {} /\ todo' = {} /\ prepared' = {} /\ andChain' = FALSE
    BY <1>0, ZenonT(30) DEF Return, TypeOK
<1> HIDE DEF held
<1>5. TypeOK'
    BY <1>0, <1>1, <1>2, <1>3, <1>4, Zenon DEF TypeOK, Tolerable, BlockStates, FateStates
<1>6. WorkInBlocks' /\ Decided' /\ NoLoss'
    BY <1>0, <1>2, ZenonT(30) DEF WorkInBlocks, Decided, NoLoss, Tolerable, Flaky
<1>7. Quiet' /\ Working' /\ Restorable'
    BY <1>0, <1>1, <1>2, ZenonT(30) DEF Quiet, Working, Restorable
<1>8. Forgotten'
    BY <1>0, <1>1, <1>2, <1>3, ZenonT(30) DEF Forgotten
<1>9. Copying' /\ Committing' /\ Closed'
    BY <1>0, <1>1, ZenonT(30) DEF Copying, Committing, Closed
<1> QED BY <1>0, <1>5, <1>6, <1>7, <1>8, <1>9, ZenonT(30) DEF IInv

\* A command on one Burrow that decides nothing wrong leaves the fleet tolerable.
LEMMA AfterTolerable ==
    ASSUME IInv, NEW b \in Burrows, NEW r \in Replies, NEW c, NEW t, NEW d, NEW f,
           t = [tx EXCEPT ![b] = TxAfter(c, FALSE, b, r)],
           d = [dirty EXCEPT ![b] = DirtyAfter(c, b, r)],
           f = [fate EXCEPT ![b] = FateAfter(c, b, r)],
           tx[b] # "lost" /\ Cut(r) => Flaky,
           DirtyAfter(c, b, r) => TxAfter(c, FALSE, b, r) \in {"open", "failed", "copying"},
           \A a, e \in Burrows : f[a] = "committed" => ~d[e] /\ f[e] # "aborted"
    PROVE  Tolerable(t, d, f)
<1>1. /\ TxAfter(c, FALSE, b, r) \in BlockStates
      /\ FateAfter(c, b, r) \in FateStates
      /\ DirtyAfter(c, b, r) \in BOOLEAN
    BY AfterTypes, Zenon DEF IInv
<1>2. /\ t \in [Burrows -> BlockStates]
      /\ d \in [Burrows -> BOOLEAN]
      /\ f \in [Burrows -> FateStates]
    BY <1>1, Zenon DEF IInv, TypeOK, BlockStates, FateStates
<1>3. \A e \in Burrows : d[e] => t[e] \in {"open", "failed", "copying"}
    BY Zenon DEF IInv, TypeOK, WorkInBlocks
<1>4. ~Flaky => \A e \in Burrows : t[e] # "lost"
  <2>1. ~Flaky => TxAfter(c, FALSE, b, r) # "lost"
    BY Zenon DEF IInv, NoLoss, TxAfter
  <2> QED BY <2>1, Zenon DEF IInv, TypeOK, NoLoss
<1> QED BY <1>2, <1>3, <1>4, Zenon DEF Tolerable

\* commitTwoPhase goes on with its next command.
LEMMA ContinueIInv ==
    ASSUME IInv, phase \in {"readers", "prepare", "undo", "commit"},
           NEW p \in {"readers", "prepare", "undo", "commit"}, NEW T \in SUBSET Burrows,
           NEW t, NEW d, NEW f, Tolerable(t, d, f), Continue(p, T, t, d, f),
           prepared' \in SUBSET Burrows, Committing'
    PROVE  IInv'
<1>0. /\ TypeOK /\ ~savepoint /\ copyTargets = {}
      /\ phase' = p /\ todo' = T /\ tx' = t /\ dirty' = d /\ fate' = f
      /\ UNCHANGED <<session, pinned, copyTargets, via, members, andChain, saved,
                     savepoint, answer, errored, gone>>
    BY ZenonT(30) DEF IInv, Continue, Committing, Copying
<1>1. TypeOK'
    BY <1>0, SMTT(30) DEF TypeOK, Tolerable, BlockStates, FateStates, session
<1>2. WorkInBlocks' /\ Decided' /\ NoLoss'
    BY <1>0, SMTT(30) DEF WorkInBlocks, Decided, NoLoss, Tolerable, Flaky
<1>3. Quiet' /\ Working' /\ Restorable' /\ Forgotten'
    BY <1>0, ZenonT(30) DEF Quiet, Working, Restorable, Forgotten
<1>4. Copying' /\ Closed'
    BY <1>0, SMTT(30) DEF Copying, Closed
<1> QED BY <1>0, <1>1, <1>2, <1>3, <1>4, SMTT(30) DEF IInv

\* EndReader preserves the inductive invariant.
LEMMA EndReaderIInv ==
    ASSUME IInv, NEW b \in Burrows, EndReader(b)
    PROVE  IInv'
<1>0. phase = "readers" /\ b \in todo /\ TypeOK /\ todo \in SUBSET Burrows
    BY SMTT(30) DEF IInv, EndReader, First, TypeOK
<1>1. PICK r \in CanReply("rollback", FALSE, b) :
        LET x == After("rollback", b, r)
        IN  IF r # "ok" THEN Return("error", x.t, x.d, x.f)
            ELSE /\ IF todo = {b} THEN Continue("prepare", members, x.t, x.d, x.f)
                    ELSE Continue("readers", todo \ {b}, x.t, x.d, x.f)
                 /\ UNCHANGED prepared
    BY ZenonT(30) DEF EndReader
<1> DEFINE t == [tx EXCEPT ![b] = TxAfter("rollback", FALSE, b, r)]
           d == [dirty EXCEPT ![b] = DirtyAfter("rollback", b, r)]
           f == [fate EXCEPT ![b] = FateAfter("rollback", b, r)]
<1>2. IF r # "ok" THEN Return("error", t, d, f)
      ELSE /\ IF todo = {b} THEN Continue("prepare", members, t, d, f)
              ELSE Continue("readers", todo \ {b}, t, d, f)
           /\ UNCHANGED prepared
    BY <1>1, Zenon DEF After
<1>3. /\ prepared = {} /\ todo \cap members = {} /\ ~savepoint
      /\ transaction <=> via # "ddl"
      /\ \A e \in Burrows : /\ fate[e] = "none"
                            /\ e \notin members => ~dirty[e]
                            /\ tx[e] = IF e \in members \cup todo THEN "open" ELSE "idle"
    BY <1>0, ZenonT(30) DEF IInv, Committing
<1>4. tx[b] = "open" /\ fate[b] = "none" /\ ~dirty[b]
    BY <1>0, <1>3, SMTT(30)
<1>5. r \in {"ok", "lost", "unacked"} /\ (Cut(r) => Flaky) /\ r \in Replies
    BY <1>4, SMTT(30) DEF CanReply, Cut, Replies
<1>6. /\ TxAfter("rollback", FALSE, b, r) = IF r = "ok" THEN "idle" ELSE "lost"
      /\ FateAfter("rollback", b, r) = "none" /\ ~DirtyAfter("rollback", b, r)
    BY <1>4, <1>5, SMTT(30) DEF TxAfter, FateAfter, DirtyAfter, Ends, Cut
<1>7. /\ \A e \in Burrows : f[e] = "none" /\ (e # b => t[e] = tx[e] /\ d[e] = dirty[e])
      /\ t[b] = (IF r = "ok" THEN "idle" ELSE "lost") /\ ~d[b]
    BY <1>0, <1>3, <1>6, ZenonT(30) DEF TypeOK
<1>8. Tolerable(t, d, f)
  <2> HIDE DEF t, d, f
  <2>1. \A a, e \in Burrows : f[a] = "committed" => ~d[e] /\ f[e] # "aborted"
    BY <1>7, ZenonT(30)
  <2> QED BY <1>5, <1>6, <2>1, AfterTolerable, Zenon DEF t, d, f
<1> HIDE DEF t, d, f
<1>9. CASE r # "ok"
  <2>1. Flaky /\ t[b] = "lost"
    BY <1>5, <1>7, <1>9, Zenon DEF Cut
  <2>2. pinned => gone
    BY <2>1, CoordinatorAssumption, SMTT(30) DEF IInv, Flaky
  <2> QED BY <1>0, <1>2, <1>8, <1>9, <2>1, <2>2, ReturnIInv, ZenonT(30)
<1>10. CASE r = "ok" /\ todo = {b}
  <2>1. Continue("prepare", members, t, d, f) /\ UNCHANGED prepared
    BY <1>2, <1>10, SMTT(30)
  <2>2. Committing'
    BY <1>3, <1>7, <1>10, <2>1, ZenonT(30) DEF Committing, Continue, session
  <2> QED BY <1>0, <1>8, <2>1, <2>2, ContinueIInv, ZenonT(30) DEF TypeOK
<1>11. CASE r = "ok" /\ todo # {b}
  <2>1. Continue("readers", todo \ {b}, t, d, f) /\ UNCHANGED prepared
    BY <1>2, <1>11, SMTT(30)
  <2>2. Committing'
    BY <1>0, <1>3, <1>7, <1>11, <2>1, ZenonT(30) DEF Committing, Continue, session
  <2> QED BY <1>0, <1>8, <2>1, <2>2, ContinueIInv, ZenonT(30) DEF TypeOK
<1> QED BY <1>9, <1>10, <1>11, SMTT(30)

\* Prepare preserves the inductive invariant.
LEMMA PrepareIInv ==
    ASSUME IInv, NEW b \in Burrows, Prepare(b)
    PROVE  IInv'
<1>0. phase = "prepare" /\ b \in todo /\ TypeOK /\ todo \in SUBSET Burrows
    BY SMTT(30) DEF IInv, Prepare, First, TypeOK
<1>1. PICK r \in CanReply("prepare", FALSE, b) :
        LET x == After("prepare", b, r)
        IN  IF r # "ok"
            THEN Continue("undo", members, x.t, x.d, x.f) /\ UNCHANGED prepared
            ELSE /\ prepared' = prepared \cup {b}
                 /\ IF todo = {b} THEN Continue("commit", members, x.t, x.d, x.f)
                    ELSE Continue("prepare", todo \ {b}, x.t, x.d, x.f)
    BY ZenonT(30) DEF Prepare
<1> DEFINE t == [tx EXCEPT ![b] = TxAfter("prepare", FALSE, b, r)]
           d == [dirty EXCEPT ![b] = DirtyAfter("prepare", b, r)]
           f == [fate EXCEPT ![b] = FateAfter("prepare", b, r)]
<1>2. IF r # "ok"
      THEN Continue("undo", members, t, d, f) /\ UNCHANGED prepared
      ELSE /\ prepared' = prepared \cup {b}
           /\ IF todo = {b} THEN Continue("commit", members, t, d, f)
              ELSE Continue("prepare", todo \ {b}, t, d, f)
    BY <1>1, Zenon DEF After
<1>3. /\ ~savepoint /\ (transaction <=> via # "ddl")
      /\ \A e \in Burrows : /\ e \in todo => e \in members
                            /\ e \in prepared <=> e \in members \ todo
                            /\ tx[e] = IF e \in todo THEN "open" ELSE "idle"
                            /\ e \notin todo => ~dirty[e]
                            /\ fate[e] = IF e \in prepared THEN "prepared" ELSE "none"
    BY <1>0, ZenonT(30) DEF IInv, Committing
<1>4. tx[b] = "open" /\ fate[b] = "none"
    BY <1>0, <1>3, SMTT(30)
<1>5. r \in {"ok", "error", "lost", "unacked"} /\ (Cut(r) => Flaky) /\ r \in Replies
    BY <1>4, SMTT(30) DEF CanReply, Cut, Replies
<1>6. /\ TxAfter("prepare", FALSE, b, r) = IF Cut(r) THEN "lost" ELSE "idle"
      /\ FateAfter("prepare", b, r) \in {"none", "prepared", "aborted"}
      /\ r = "ok" => FateAfter("prepare", b, r) = "prepared"
      /\ ~DirtyAfter("prepare", b, r)
    BY <1>4, <1>5, SMTT(30) DEF TxAfter, FateAfter, DirtyAfter, Ends, Cut
<1>7. /\ \A e \in Burrows : e # b => t[e] = tx[e] /\ d[e] = dirty[e] /\ f[e] = fate[e]
      /\ t[b] = (IF Cut(r) THEN "lost" ELSE "idle") /\ ~d[b]
      /\ f[b] \in {"none", "prepared", "aborted"} /\ (r = "ok" => f[b] = "prepared")
    BY <1>0, <1>6, Zenon DEF TypeOK
<1>8. Tolerable(t, d, f)
  <2> HIDE DEF t, d, f
  <2>1. \A e \in Burrows : f[e] # "committed"
    BY <1>3, <1>7, Zenon
  <2> QED BY <1>5, <1>6, <2>1, AfterTolerable, ZenonT(30) DEF t, d, f
<1> HIDE DEF t, d, f
<1>9. members \in SUBSET Burrows /\ prepared \in SUBSET Burrows
    BY <1>0, SMTT(30) DEF TypeOK
<1>10. CASE r # "ok"
  <2>1. Continue("undo", members, t, d, f) /\ UNCHANGED prepared
    BY <1>2, <1>10, SMTT(30)
  <2>2. Committing'
    BY <1>0, <1>3, <1>7, <2>1, ZenonT(30) DEF Committing, Continue, session
  <2> QED BY <1>0, <1>8, <1>9, <2>1, <2>2, ContinueIInv, Zenon
<1>11. CASE r = "ok" /\ todo = {b}
  <2>1. Continue("commit", members, t, d, f) /\ prepared' = prepared \cup {b}
    BY <1>2, <1>11, SMTT(30)
  <2>2. Committing'
    BY <1>0, <1>3, <1>7, <1>11, <2>1, ZenonT(30) DEF Committing, Continue, session, Cut
  <2> QED BY <1>0, <1>8, <1>9, <2>1, <2>2, ContinueIInv, SMTT(30)
<1>12. CASE r = "ok" /\ todo # {b}
  <2>1. Continue("prepare", todo \ {b}, t, d, f) /\ prepared' = prepared \cup {b}
    BY <1>2, <1>12, SMTT(30)
  <2>2. Committing'
    BY <1>0, <1>3, <1>7, <1>12, <2>1, ZenonT(30) DEF Committing, Continue, session, Cut
  <2> QED BY <1>0, <1>8, <1>9, <2>1, <2>2, ContinueIInv
<1> QED BY <1>10, <1>11, <1>12, SMTT(30)

\* Undo preserves the inductive invariant.
LEMMA UndoIInv ==
    ASSUME IInv, NEW b \in Burrows, Undo(b)
    PROVE  IInv'
<1>0. phase = "undo" /\ b \in todo /\ TypeOK /\ todo \in SUBSET Burrows
    BY ZenonT(30) DEF IInv, Undo, First, TypeOK
<1> DEFINE c == IF b \in prepared THEN "rollback prepared" ELSE "rollback"
<1>1. PICK r \in CanReply(c, FALSE, b) :
        LET x == After(c, b, r)
        IN  IF todo = {b} THEN Return("rolledback", x.t, x.d, x.f)
            ELSE Continue("undo", todo \ {b}, x.t, x.d, x.f) /\ UNCHANGED prepared
    BY ZenonT(30) DEF Undo
<1> DEFINE t == [tx EXCEPT ![b] = TxAfter(c, FALSE, b, r)]
           d == [dirty EXCEPT ![b] = DirtyAfter(c, b, r)]
           f == [fate EXCEPT ![b] = FateAfter(c, b, r)]
<1>2. IF todo = {b} THEN Return("rolledback", t, d, f)
      ELSE Continue("undo", todo \ {b}, t, d, f) /\ UNCHANGED prepared
  <2> HIDE DEF c
  <2> QED BY <1>1, SMTT(30) DEF After
<1>3. /\ ~savepoint /\ (transaction <=> via # "ddl")
      /\ \A e \in Burrows :
           /\ fate[e] # "committed"
           /\ tx[e] \in {"open", "idle", "lost"}
           /\ e \notin todo \/ e \in prepared => tx[e] # "open" /\ ~dirty[e]
    BY <1>0, ZenonT(30) DEF IInv, Committing
<1>4. fate[b] # "committed" /\ tx[b] \in {"open", "idle", "lost"}
    BY <1>3, ZenonT(30)
<1>5. r \in {"ok", "error", "lost", "unacked"} /\ (tx[b] # "lost" /\ Cut(r) => Flaky) /\ r \in Replies
    BY <1>4, Zenon DEF CanReply, Cut, Replies
<1>6. /\ TxAfter(c, FALSE, b, r) \in {"idle", "lost"}
      /\ FateAfter(c, b, r) # "committed"
      /\ ~DirtyAfter(c, b, r)
  <2>1. CASE b \in prepared
    <3>1. tx[b] \in {"idle", "lost"} /\ ~dirty[b]
      BY <1>3, <2>1, ZenonT(30)
    <3> QED BY <1>4, <2>1, <3>1, ZenonT(30) DEF TxAfter, FateAfter, DirtyAfter, Ends, Cut
  <2>2. CASE b \notin prepared
    BY <1>4, <1>5, <2>2, SMTT(30) DEF TxAfter, FateAfter, DirtyAfter, Ends, Cut
  <2> QED BY <2>1, <2>2, ZenonT(30)
<1>7. /\ \A e \in Burrows : e # b => t[e] = tx[e] /\ d[e] = dirty[e] /\ f[e] = fate[e]
      /\ t[b] \in {"idle", "lost"} /\ ~d[b] /\ f[b] # "committed"
  <2> HIDE DEF c
  <2> QED BY <1>0, <1>6, Zenon DEF TypeOK
<1>8. Tolerable(t, d, f)
  <2> HIDE DEF t, d, f, c
  <2>1. \A e \in Burrows : f[e] # "committed"
    BY <1>3, <1>7, Zenon
  <2> QED BY <1>5, <1>6, <2>1, AfterTolerable, ZenonT(30) DEF t, d, f
<1> HIDE DEF t, d, f, c
<1>9. CASE todo = {b}
  <2>1. Return("rolledback", t, d, f)
    BY <1>2, <1>9, SMTT(30)
  <2>2. \A e \in Burrows : t[e] \in {"idle", "lost"} /\ ~d[e]
    BY <1>3, <1>7, <1>9, Zenon
  <2>3. pinned /\ ~gone => \A e \in Burrows : t[e] = "idle"
    BY <1>8, <2>2, CoordinatorAssumption, SMTT(30) DEF IInv, Tolerable, Flaky
  <2> QED BY <1>0, <1>8, <2>1, <2>2, <2>3, ReturnIInv, ZenonT(30)
<1>10. CASE todo # {b}
  <2>1. Continue("undo", todo \ {b}, t, d, f) /\ UNCHANGED prepared
    BY <1>2, <1>10, SMTT(30)
  <2>2. Committing'
    BY <1>0, <1>3, <1>7, <2>1, Zenon DEF Committing, Continue, session
  <2> QED BY <1>0, <1>8, <2>1, <2>2, ContinueIInv, ZenonT(30) DEF TypeOK
<1> QED BY <1>9, <1>10, SMTT(30)

\* CommitPrepared preserves the inductive invariant.
LEMMA CommitPreparedIInv ==
    ASSUME IInv, NEW b \in Burrows, CommitPrepared(b)
    PROVE  IInv'
<1>0. phase = "commit" /\ b \in todo /\ TypeOK /\ todo \in SUBSET Burrows
    BY Zenon DEF IInv, CommitPrepared, First, TypeOK
<1>1. PICK r \in CanReply("commit prepared", FALSE, b) :
        LET x == After("commit prepared", b, r)
        IN  IF r # "ok" THEN Return("indoubt", x.t, x.d, x.f)
            ELSE IF todo = {b} THEN Return("commit", x.t, x.d, x.f)
            ELSE Continue("commit", todo \ {b}, x.t, x.d, x.f) /\ UNCHANGED prepared
    BY ZenonT(30) DEF CommitPrepared
<1> DEFINE t == [tx EXCEPT ![b] = TxAfter("commit prepared", FALSE, b, r)]
           d == [dirty EXCEPT ![b] = DirtyAfter("commit prepared", b, r)]
           f == [fate EXCEPT ![b] = FateAfter("commit prepared", b, r)]
<1>2. IF r # "ok" THEN Return("indoubt", t, d, f)
      ELSE IF todo = {b} THEN Return("commit", t, d, f)
      ELSE Continue("commit", todo \ {b}, t, d, f) /\ UNCHANGED prepared
    BY <1>1, ZenonT(30) DEF After
<1>3. /\ ~savepoint /\ (transaction <=> via # "ddl")
      /\ \A e \in Burrows : /\ ~dirty[e] /\ tx[e] = "idle"
                            /\ e \in todo => fate[e] = "prepared"
                            /\ fate[e] # "aborted"
    BY <1>0, ZenonT(30) DEF IInv, Committing
<1>4. tx[b] = "idle" /\ fate[b] = "prepared" /\ ~dirty[b]
    BY <1>0, <1>3, ZenonT(30)
<1>5. r \in {"ok", "error", "lost", "unacked"} /\ (Cut(r) => Flaky) /\ r \in Replies
    BY <1>4, SMTT(30) DEF CanReply, Cut, Replies
<1>6. /\ TxAfter("commit prepared", FALSE, b, r) = IF Cut(r) THEN "lost" ELSE "idle"
      /\ FateAfter("commit prepared", b, r) \in {"prepared", "committed"}
      /\ ~DirtyAfter("commit prepared", b, r)
    BY <1>4, <1>5, ZenonT(30) DEF TxAfter, FateAfter, DirtyAfter, Ends, Cut
<1>7. /\ \A e \in Burrows : e # b => t[e] = "idle" /\ f[e] = fate[e]
      /\ \A e \in Burrows : ~d[e] /\ f[e] # "aborted"
      /\ t[b] = IF Cut(r) THEN "lost" ELSE "idle"
    BY <1>0, <1>3, <1>6, ZenonT(30) DEF TypeOK
<1>8. Tolerable(t, d, f)
  <2> HIDE DEF t, d, f
  <2> QED BY <1>5, <1>6, <1>7, AfterTolerable, ZenonT(30) DEF t, d, f
<1> HIDE DEF t, d, f
<1>9. CASE r # "ok" \/ todo = {b}
  <2>1. PICK what \in {"indoubt", "commit"} : Return(what, t, d, f)
    BY <1>2, <1>9, Zenon
  <2>2. pinned /\ ~gone => \A e \in Burrows : t[e] = "idle"
    BY <1>5, <1>7, CoordinatorAssumption, ZenonT(30) DEF IInv, Flaky
  <2> QED BY <1>0, <1>7, <1>8, <2>1, <2>2, ReturnIInv, ZenonT(30)
<1>10. CASE r = "ok" /\ todo # {b}
  <2>1. Continue("commit", todo \ {b}, t, d, f) /\ UNCHANGED prepared
    BY <1>2, <1>10, ZenonT(30)
  <2>2. Committing'
    BY <1>0, <1>3, <1>7, <1>10, <2>1, ZenonT(30) DEF Committing, Continue, session, Cut
  <2> QED BY <1>0, <1>8, <2>1, <2>2, ContinueIInv, ZenonT(30) DEF TypeOK
<1> QED BY <1>9, <1>10, Zenon
-----------------------------------------------------------------------------
(* Fleet-wide DDL.                                                         *)

LEMMA FleetDDLIInv ==
    ASSUME IInv, NEW v \in {"simple", "extended"}, FleetDDL(v)
    PROVE  IInv'
<1>0. /\ TypeOK /\ phase = "ready" /\ ~gone /\ copyTargets = {} /\ ~transaction
      /\ tx' = [b \in Burrows |-> "open"] /\ dirty' = [b \in Burrows |-> TRUE]
      /\ fate' = [b \in Burrows |-> "none"]
      /\ phase' = "prepare" /\ todo' = Burrows /\ via' = "ddl" /\ members' = Burrows
      /\ prepared' = {} /\ andChain' = FALSE
      /\ UNCHANGED <<session, pinned, copyTargets, saved, savepoint, answer, errored, gone>>
    BY SMTT(30) DEF IInv, FleetDDL, Ready, NoFate, StartTwoPhase
<1>1. TypeOK'
    BY <1>0, ZenonT(30) DEF TypeOK, session
<1>2. WorkInBlocks' /\ Decided' /\ NoLoss'
    BY <1>0, Zenon DEF WorkInBlocks, Decided, NoLoss
<1>3. Quiet' /\ Working' /\ Restorable' /\ Forgotten' /\ Copying' /\ Closed'
    BY <1>0, Zenon DEF IInv, Quiet, Working, Restorable, Forgotten, Copying, Closed, session
<1>4. Committing'
    BY <1>0, ZenonT(30) DEF IInv, Committing, session, Restorable
<1> QED BY <1>0, <1>1, <1>2, <1>3, <1>4, SMTT(30) DEF IInv

\* FleetDDLFailed preserves the inductive invariant.
LEMMA FleetDDLFailedIInv ==
    ASSUME IInv, NEW v \in {"simple", "extended"}, FleetDDLFailed(v)
    PROVE  IInv'
<1>0. /\ TypeOK /\ phase = "ready" /\ ~gone /\ copyTargets = {} /\ ~transaction
      /\ answer' = [what |-> "error", status |-> "I"]
      /\ UNCHANGED <<session, pinned, copyTargets, phase, commit, saved, savepoint,
                     errored, gone>>
    BY SMTT(30) DEF IInv, FleetDDLFailed, Ready
<1>1. PICK t \in [Burrows -> BlockStates] :
        LET d == [b \in Burrows |-> dirty[b] /\ t[b] = tx[b]]
        IN  /\ \/ \A b \in Burrows : Undone(b, t[b])
               \/ \E b \in Burrows :
                    /\ \A c \in Burrows : c < b => Undone(c, t[c])
                    /\ \/ tx[b] \in {"failed", "lost"} /\ t[b] = tx[b]
                       \/ tx[b] = "copying" /\ t[b] = "failed"
                       \/ Flaky /\ t[b] = "lost"
                       \/ Flaky /\ tx[b] = "idle" /\ t[b] = "idle"
                    /\ \A c \in Burrows : c > b => t[c] = tx[c]
            /\ Settle(FALSE, t, d, [b \in Burrows |->
                               IF dirty[b] /\ ~d[b] THEN "aborted" ELSE fate[b]])
    BY Zenon DEF FleetDDLFailed, BlockStates
<1> DEFINE d == [b \in Burrows |-> dirty[b] /\ t[b] = tx[b]]
           f == [b \in Burrows |-> IF dirty[b] /\ ~d[b] THEN "aborted" ELSE fate[b]]
<1>2. \A b \in Burrows : tx[b] = "idle" /\ ~dirty[b]
    BY <1>0, Zenon DEF IInv, Quiet
<1>3. \A b \in Burrows : t[b] = "idle" \/ (Flaky /\ t[b] = "lost")
  <2>1. CASE \A b \in Burrows : Undone(b, t[b])
    BY <2>1, Zenon DEF Undone
  <2>2. ASSUME NEW b \in Burrows,
               \A c \in Burrows : c < b => Undone(c, t[c]),
               \/ Flaky /\ t[b] = "lost"
               \/ Flaky /\ tx[b] = "idle" /\ t[b] = "idle",
               \A c \in Burrows : c > b => t[c] = tx[c]
        PROVE  \A c \in Burrows : t[c] = "idle" \/ (Flaky /\ t[c] = "lost")
    <3>1. \A c \in Burrows : c < b \/ c = b \/ c > b
      BY CoordinatorAssumption, SMTT(30)
    <3> QED BY <1>2, <2>2, <3>1, Zenon DEF Undone
  <2> QED BY <1>1, <1>2, <2>1, <2>2, Zenon
<1>4. \A b \in Burrows : ~d[b] /\ f[b] = fate[b]
    BY <1>2, ZenonT(30)
<1>5. Tolerable(t, d, f)
  <2>1. d \in [Burrows -> BOOLEAN] /\ f \in [Burrows -> FateStates]
    BY <1>0, Zenon DEF TypeOK, FateStates
  <2> HIDE DEF d, f
  <2> QED BY <1>3, <1>4, <2>1, Zenon DEF IInv, Tolerable, Decided
<1>6. Settle(FALSE, t, d, f)
    BY <1>1, ZenonT(30)
<1> HIDE DEF d, f
<1>7. pinned => \A b \in Burrows : t[b] = "idle" /\ ~d[b]
    BY <1>0, <1>3, <1>4, CoordinatorAssumption, Zenon DEF IInv, Flaky
<1>8. /\ Tolerable(tx', dirty', fate')
      /\ \A b \in Burrows : tx'[b] = "idle" /\ ~dirty'[b]
    BY <1>0, <1>5, <1>6, <1>7, SettleTolerable, Zenon DEF TypeOK
<1>9. TypeOK'
    BY <1>0, <1>8, SMTT(30) DEF TypeOK, Tolerable, BlockStates, FateStates, session, commit
<1>10. WorkInBlocks' /\ Decided' /\ NoLoss'
    BY <1>8, SMTT(30) DEF WorkInBlocks, Decided, NoLoss, Tolerable, Flaky
<1>11. Quiet' /\ Working' /\ Restorable' /\ Forgotten'
    BY <1>0, <1>8, ZenonT(30) DEF IInv, Quiet, Working, Restorable, Forgotten, session
<1>12. Copying' /\ Committing' /\ Closed'
    BY <1>0, ZenonT(30) DEF Copying, Committing, Closed
<1> QED BY <1>0, <1>9, <1>10, <1>11, <1>12, SMTT(30) DEF IInv
-----------------------------------------------------------------------------
(* The theorems.                                                           *)

\* Every step of the Proxy keeps the invariant, for clients that neither commit
\* after an error nor nest BEGIN and whose writes recordWriteParticipants records.
LEMMA NextIInv ==
    ASSUME Disciplined, IInv, [Next]_vars
    PROVE  IInv'
<1>1. CASE UNCHANGED vars
  <2> USE <1>1 DEF IInv, vars, session, commit
  <2>1. TypeOK'
    BY SMTT(30) DEF TypeOK
  <2>2. WorkInBlocks' /\ Decided' /\ NoLoss'
    BY ZenonT(30) DEF WorkInBlocks, Decided, NoLoss, Flaky
  <2>3. Quiet' /\ Working' /\ Restorable' /\ Forgotten'
    BY ZenonT(30) DEF Quiet, Working, Restorable, Forgotten
  <2>4. Copying' /\ Committing' /\ Closed'
    BY Zenon DEF Copying, Committing, Closed
  <2> QED BY <2>1, <2>2, <2>3, <2>4, SMTT(30)
<1>2. ASSUME NEW v \in {"simple", "extended"},
             Begin(v) \/ Savepoint(v) \/ RollbackTo(v) \/ FleetDDL(v) \/ FleetDDLFailed(v)
      PROVE  IInv'
    BY <1>2, BeginIInv, SavepointIInv, RollbackToIInv, FleetDDLIInv, FleetDDLFailedIInv, Zenon
<1>3. ASSUME NEW v \in {"simple", "extended"}, NEW chain \in BOOLEAN,
             Rollback(v, chain) \/ CommitEverywhere(v, chain) \/ CommitTwoPhase(v, chain)
      PROVE  IInv'
    BY <1>3, RollbackIInv, CommitEverywhereIInv, CommitTwoPhaseIInv, Zenon
<1>4. ASSUME NEW v \in {"simple", "extended"}, NEW S \in Targets, NEW kind \in Kinds,
             Statement(v, S, kind)
      PROVE  IInv'
    BY <1>4, StatementIsRecorded, StatementIInv, Zenon
<1>5. ASSUME NEW v \in {"simple", "extended"}, NEW b \in Burrows, Autocommit(v, b)
      PROVE  IInv'
    BY <1>5, AutocommitIInv, Zenon
<1>6. ASSUME NEW S \in Targets, CopyQuery(S) PROVE IInv'
    BY <1>6, CopyQueryIInv, Zenon
<1>7. CASE CopyEnd
    BY <1>7, CopyEndIInv, Zenon
<1>8. CASE Coordinate
    BY <1>8, EndReaderIInv, PrepareIInv, UndoIInv, CommitPreparedIInv, Zenon DEF Coordinate
<1>9. CASE Pin
    BY <1>9, PinIInv
<1>10. CASE Leave \/ Crash
    BY <1>10, EndSessionIInv, Zenon DEF Leave, Crash
<1>11. CASE Disconnect
    BY <1>11, DisconnectIInv
<1>12. CASE Connect
    BY <1>12, ConnectIInv
<1> QED BY <1>1, <1>2, <1>3, <1>4, <1>5, <1>6, <1>7, <1>8, <1>9, <1>10, <1>11, <1>12, SMTT(30)
        DEF Next

\* The inductive invariant holds in every reachable state: on any number of Burrows,
\* with any faults, the Proxy's transaction state and PostgreSQL's fit together, as
\* long as the client is Disciplined: in particular no statement writes without
\* recordWriteParticipants taking it for a write.
THEOREM Invariance == ASSUME Disciplined PROVE Spec => []IInv
<1>1. Init => IInv
    BY InitIInv, Zenon
<1>2. IInv /\ [Next]_vars => IInv'
    BY NextIInv, Zenon
<1> QED BY <1>1, <1>2, PTL DEF Spec

\* commitTwoPhase is atomic: with two-phase commit enabled, no transaction whose writes
\* were all recorded is ever committed on one Burrow and discarded on another, however Tunnels break, the
\* frontend disconnects or the Proxy crashes.
THEOREM Atomicity == ASSUME Disciplined PROVE Spec => []NeverMixed
<1>1. IInv => NeverMixed
    BY Zenon DEF IInv, Decided, NeverMixed
<1> QED BY <1>1, Invariance, PTL

\* Outside a transaction no Tunnel of the session holds a transaction block open.
THEOREM Tidiness == ASSUME Disciplined PROVE Spec => []NoLeftoverBlock
<1>1. IInv => NoLeftoverBlock
    BY Zenon DEF IInv, Quiet, NoLeftoverBlock, Ready
<1> QED BY <1>1, Invariance, PTL

-----------------------------------------------------------------------------
(* The outcome of a transaction: that TransactionCoordinator implements    *)
(* AtomicCommit, and that a client is told the truth about its COMMIT.     *)
(* Both rest on the inductive invariant above.                             *)

(* What a step does to the fate of a transaction's work.                   *)

\* The step discards uncommitted work at most.
Loses == \A b \in Burrows : fate'[b] = fate[b] \/ (dirty[b] /\ fate'[b] = "aborted")

\* The step settles the fate of the work on each Burrow as AtomicCommit allows.
Settles ==
    \A b \in Burrows :
        \/ fate'[b] = fate[b]
        \/ /\ fate'[b] = "aborted"
           /\ dirty[b] \/ fate[b] = "prepared"
           /\ \A c \in Burrows : fate[c] # "committed" /\ fate'[c] # "committed"
        \/ /\ fate'[b] = "prepared" /\ fate[b] = "none"
           /\ \A c \in Burrows : fate[c] # "aborted"
        \/ /\ fate'[b] = "committed"
           /\ fate[b] = "prepared" \/ (fate[b] = "none" /\ dirty[b])
           /\ \A c \in Burrows \ {b} : \/ fate[c] \in {"prepared", "committed"}
                                       \/ fate[c] = "none" /\ ~dirty[c]

\* What AtomicCommit sees of a state.
LEMMA StageCases ==
    ASSUME TypeOK, NEW b \in Burrows
    PROVE  /\ Stage[b] = IF fate[b] # "none" THEN fate[b]
                         ELSE IF dirty[b] THEN "working" ELSE "none"
           /\ fate[b] \in {"none", "prepared", "committed", "aborted"}
           /\ Stage[b] \in AC!Stages
    BY Zenon DEF TypeOK, Stage, AC!Stages

\* A step that settles fates as allowed is a step of AtomicCommit.
LEMMA SettlesImplements ==
    ASSUME TypeOK, TypeOK', Settles
    PROVE  AC!Next
<1>1. \A b \in Burrows : /\ Stage[b] = IF fate[b] # "none" THEN fate[b]
                                       ELSE IF dirty[b] THEN "working" ELSE "none"
                         /\ fate[b] \in {"none", "prepared", "committed", "aborted"}
    BY StageCases, Zenon
<1>2. \A b \in Burrows : /\ Stage'[b] = IF fate'[b] # "none" THEN fate'[b]
                                        ELSE IF dirty'[b] THEN "working" ELSE "none"
                         /\ fate'[b] \in {"none", "prepared", "committed", "aborted"}
    BY Zenon DEF TypeOK, Stage
<1>3. Stage' \in [Burrows -> AC!Stages]
    BY <1>2, Zenon DEF Stage, AC!Stages
<1>4. ASSUME NEW b \in Burrows
      PROVE  \/ Stage'[b] = Stage[b]
             \/ AC!Works(b) \/ AC!Prepares(b) \/ AC!Commits(b) \/ AC!Aborts(b)
  <2>1. CASE fate'[b] = fate[b]
    BY <1>1, <1>2, <2>1, Zenon DEF AC!Works
  <2>2. CASE /\ fate'[b] = "aborted"
             /\ dirty[b] \/ fate[b] = "prepared"
             /\ \A c \in Burrows : fate[c] # "committed" /\ fate'[c] # "committed"
    <3>1. \A c \in Burrows : Stage[c] # "committed" /\ Stage'[c] # "committed"
      BY <1>1, <1>2, <2>2, Zenon
    <3>2. Stage'[b] = "aborted"
      BY <1>2, <2>2, Zenon
    <3>3. Stage[b] \in {"working", "prepared", "aborted"}
      BY <1>1, <2>2, Zenon
    <3> QED BY <3>1, <3>2, <3>3, Zenon DEF AC!Aborts
  <2>3. CASE /\ fate'[b] = "prepared" /\ fate[b] = "none"
             /\ \A c \in Burrows : fate[c] # "aborted"
    BY <1>1, <1>2, <2>3, Zenon DEF AC!Prepares
  <2>4. CASE /\ fate'[b] = "committed"
             /\ fate[b] = "prepared" \/ (fate[b] = "none" /\ dirty[b])
             /\ \A c \in Burrows \ {b} : \/ fate[c] \in {"prepared", "committed"}
                                         \/ fate[c] = "none" /\ ~dirty[c]
    BY <1>1, <1>2, <2>4, Zenon DEF AC!Commits
  <2> QED BY <2>1, <2>2, <2>3, <2>4, Zenon DEF Settles
<1> QED BY <1>3, <1>4, Zenon DEF AC!Next, AC!Proceed

\* A step that only discards uncommitted work is a step of AtomicCommit.
LEMMA LosesImplements ==
    ASSUME IInv, TypeOK', Loses
    PROVE  AC!Next
<1>1. ASSUME NEW b \in Burrows, dirty[b], fate'[b] = "aborted"
      PROVE  \A c \in Burrows : fate[c] # "committed" /\ fate'[c] # "committed"
    BY <1>1, Zenon DEF IInv, Decided, Loses
<1>2. Settles
    BY <1>1, Zenon DEF Loses, Settles
<1> QED BY <1>2, SettlesImplements, Zenon DEF IInv

\* The next transaction may start from every state of the invariant.
LEMMA RenewsImplements ==
    ASSUME IInv, TypeOK', fate' = NoFate
    PROVE  AC!Next
<1>1. \A b, c \in Burrows : ~(Stage[b] = "working" /\ Stage[c] = "committed")
    BY StageCases, Zenon DEF IInv, Decided
<1>2. Stage' \in [Burrows -> {"none", "working"}]
  <2>1. \A b \in Burrows : fate'[b] = "none"
    BY Zenon DEF NoFate
  <2> QED BY <2>1, Zenon DEF Stage
<1> QED BY <1>1, <1>2, Zenon DEF AC!Next, AC!NewTransaction
-----------------------------------------------------------------------------
(* What the client is told.                                                *)

\* An answer says what it says.
LEMMA AnswerFields ==
    ASSUME NEW what, NEW status
    PROVE  [what |-> what, status |-> status].what = what
    OBVIOUS

\* A step after which the client has been told of no outcome of a COMMIT.
LEMMA OtherAnswerTold ==
    ASSUME phase' \notin {"commit", "closed"},
           phase' = "ready" => answer'.what \notin {"commit", "rolledback"}
    PROVE  Told'
    BY Zenon DEF Told, CommitAnswerIsTrue

\* A failed statement or command tells of no outcome, and leaves the fates f unless
\* the session closes.
LEMMA FailTold ==
    ASSUME NEW v, NEW S, NEW r, NEW t, NEW d, NEW f,
           Fail(v, S, r, t, d, f), phase = "ready", phase' = phase
    PROVE  /\ Told'
           /\ transaction => fate' = f
           /\ \A b \in Burrows : fate'[b] = f[b] \/ (d[b] /\ fate'[b] = "aborted")
<1>1. answer'.what = "error"
    BY Zenon DEF Fail
<1>2. Told'
    BY <1>1, OtherAnswerTold, Zenon
<1>3. Settle(transaction, t, d, f)
    BY Zenon DEF Fail
<1> QED BY <1>2, <1>3, Zenon DEF Settle

\* The same for a transaction command.
LEMMA FailCommandTold ==
    ASSUME NEW v, NEW r, NEW t, NEW d, NEW f,
           FailCommand(v, r, t, d, f), phase = "ready"
    PROVE  /\ Told'
           /\ transaction => fate' = f
           /\ \A b \in Burrows : fate'[b] = f[b] \/ (d[b] /\ fate'[b] = "aborted")
<1>1. CASE Stuck(v, t)
  <2>1. phase' = "stuck" /\ fate' = f
    BY <1>1, Zenon DEF FailCommand
  <2> QED BY <2>1, OtherAnswerTold, Zenon
<1>2. CASE ~Stuck(v, t)
  <2>1. Fail(v, Burrows, r, t, d, f) /\ phase' = phase
    BY <1>2, Zenon DEF FailCommand
  <2> QED BY <2>1, FailTold, Zenon
<1> QED BY <1>1, <1>2, Zenon
-----------------------------------------------------------------------------
(* Transaction commands.                                                   *)

\* A command that commits and prepares nothing discards uncommitted work at most.
LEMMA CommandLoses ==
    ASSUME NEW c \in {"begin", "savepoint", "rollback", "rollback to", "statement"}, NEW r
    PROVE  /\ \A b \in Burrows : \/ Fates(c, r)[b] = fate[b]
                                 \/ dirty[b] /\ Fates(c, r)[b] = "aborted"
           /\ c # "rollback to" => \A b \in Burrows : Work(c, r)[b] => dirty[b]
    BY Zenon DEF Fates, FateAfter, Work, DirtyAfter

\* Begin is a step of AtomicCommit and tells of no outcome.
LEMMA BeginOutcome ==
    ASSUME Disciplined, IInv, NEW v \in {"simple", "extended"}, Begin(v)
    PROVE  AC!Next /\ Told'
<1>0. TypeOK' /\ phase = "ready" /\ ToldIdle
    BY BeginIInv, Zenon DEF IInv, Begin, Ready, Disciplined
<1>1. PICK r \in Exchange(Burrows, "begin", FALSE) :
        IF AllOk(Burrows, r)
        THEN /\ fate' = IF ToldIdle THEN NoFate ELSE Fates("begin", r)
             /\ phase' = phase
             /\ answer' = [what |-> "done", status |-> "T"]
        ELSE FailCommand(v, r, Blocks("begin", FALSE, r), Work("begin", r), Fates("begin", r))
    BY Zenon DEF Begin
<1>2. CASE AllOk(Burrows, r)
  <2>1. fate' = NoFate /\ phase' = "ready" /\ answer'.what = "done"
    BY <1>0, <1>1, <1>2, AnswerFields, Zenon
  <2> QED BY <1>0, <2>1, RenewsImplements, OtherAnswerTold, Zenon
<1>3. CASE ~AllOk(Burrows, r)
  <2>1. /\ Told'
        /\ \A b \in Burrows : \/ fate'[b] = Fates("begin", r)[b]
                              \/ Work("begin", r)[b] /\ fate'[b] = "aborted"
    BY <1>0, <1>1, <1>3, FailCommandTold, Zenon
  <2>2. Loses
    BY <2>1, CommandLoses, ZenonT(30) DEF Loses
  <2> QED BY <1>0, <2>1, <2>2, LosesImplements, Zenon
<1> QED BY <1>2, <1>3, Zenon

\* Savepoint is a step of AtomicCommit and tells of no outcome.
LEMMA SavepointOutcome ==
    ASSUME IInv, NEW v \in {"simple", "extended"}, Savepoint(v)
    PROVE  AC!Next /\ Told'
<1>0. TypeOK' /\ phase = "ready" /\ phase' = phase
    BY SavepointIInv, Zenon DEF IInv, Savepoint, Ready
<1>1. PICK r \in Exchange(Burrows, "savepoint", FALSE) :
        IF AllOk(Burrows, r)
        THEN answer' = [what |-> "done", status |-> TxStatus] /\ fate' = fate
        ELSE Fail(v, Burrows, r, Blocks("savepoint", FALSE, r), Work("savepoint", r),
                  Fates("savepoint", r))
    BY Zenon DEF Savepoint
<1>2. CASE AllOk(Burrows, r)
  <2>1. fate' = fate /\ answer'.what = "done"
    BY <1>1, <1>2, AnswerFields, Zenon
  <2>2. Loses
    BY <2>1, Zenon DEF Loses
  <2> QED BY <1>0, <2>1, <2>2, LosesImplements, OtherAnswerTold, Zenon
<1>3. CASE ~AllOk(Burrows, r)
  <2>1. /\ Told'
        /\ \A b \in Burrows : \/ fate'[b] = Fates("savepoint", r)[b]
                              \/ Work("savepoint", r)[b] /\ fate'[b] = "aborted"
    BY <1>0, <1>1, <1>3, FailTold, Zenon
  <2>2. Loses
    BY <2>1, CommandLoses, Zenon DEF Loses
  <2> QED BY <1>0, <2>1, <2>2, LosesImplements, Zenon
<1> QED BY <1>2, <1>3, Zenon

\* RollbackTo is a step of AtomicCommit and tells of no outcome.
LEMMA RollbackToOutcome ==
    ASSUME IInv, NEW v \in {"simple", "extended"}, RollbackTo(v)
    PROVE  AC!Next /\ Told'
<1>0. TypeOK' /\ phase = "ready" /\ transaction
    BY RollbackToIInv, Zenon DEF IInv, RollbackTo, Ready
<1>1. PICK r \in Exchange(Burrows, "rollback to", FALSE) :
        IF AllOk(Burrows, r)
        THEN /\ fate' = Fates("rollback to", r) /\ phase' = phase
             /\ answer' = [what |-> "done", status |-> "T"]
        ELSE FailCommand(v, r, Blocks("rollback to", FALSE, r), Work("rollback to", r),
                         Fates("rollback to", r))
    BY Zenon DEF RollbackTo
<1>2. fate' = Fates("rollback to", r) /\ Told'
  <2>1. CASE AllOk(Burrows, r)
    <3>1. fate' = Fates("rollback to", r) /\ phase' = "ready" /\ answer'.what = "done"
      BY <1>0, <1>1, <2>1, AnswerFields, Zenon
    <3> QED BY <3>1, OtherAnswerTold, Zenon
  <2>2. CASE ~AllOk(Burrows, r)
    BY <1>0, <1>1, <2>2, FailCommandTold, Zenon
  <2> QED BY <2>1, <2>2, Zenon
<1>3. Loses
    BY <1>2, CommandLoses, Zenon DEF Loses
<1> QED BY <1>0, <1>2, <1>3, LosesImplements, Zenon

\* Rollback is a step of AtomicCommit, which AND CHAIN ends with the start of the
\* next transaction, and tells of no outcome of a COMMIT.
LEMMA RollbackOutcome ==
    ASSUME IInv, NEW v \in {"simple", "extended"}, NEW chain \in BOOLEAN, Rollback(v, chain)
    PROVE  AC!Next /\ Told'
<1>0. TypeOK' /\ phase = "ready" /\ transaction
    BY RollbackIInv, Zenon DEF IInv, Rollback, Ready
<1>1. PICK r \in Exchange(Burrows, "rollback", chain) :
        IF AllOk(Burrows, r)
        THEN /\ Settle(chain, Blocks("rollback", chain, r), Work("rollback", r),
                       IF chain THEN NoFate ELSE Fates("rollback", r))
             /\ phase' = phase
             /\ answer' = [what |-> "rollback", status |-> IF chain THEN "T" ELSE "I"]
        ELSE FailCommand(v, r, Blocks("rollback", chain, r), Work("rollback", r),
                         Fates("rollback", r))
    BY Zenon DEF Rollback
<1>2. CASE AllOk(Burrows, r)
  <2>1. Told'
    <3>1. phase' = "ready" /\ answer'.what = "rollback"
      BY <1>0, <1>1, <1>2, AnswerFields, Zenon
    <3> QED BY <3>1, OtherAnswerTold, Zenon
  <2>2. CASE chain
    BY <1>0, <1>1, <1>2, <2>1, <2>2, RenewsImplements, Zenon DEF Settle
  <2>3. CASE ~chain
    <3>1. \A b \in Burrows : \/ fate'[b] = Fates("rollback", r)[b]
                             \/ Work("rollback", r)[b] /\ fate'[b] = "aborted"
      BY <1>1, <1>2, <2>3, Zenon DEF Settle
    <3>2. Loses
      BY <3>1, CommandLoses, Zenon DEF Loses
    <3> QED BY <1>0, <2>1, <3>2, LosesImplements, Zenon
  <2> QED BY <2>2, <2>3, Zenon
<1>3. CASE ~AllOk(Burrows, r)
  <2>1. Told' /\ fate' = Fates("rollback", r)
    BY <1>0, <1>1, <1>3, FailCommandTold, Zenon
  <2>2. Loses
    BY <2>1, CommandLoses, Zenon DEF Loses
  <2> QED BY <1>0, <2>1, <2>2, LosesImplements, Zenon
<1> QED BY <1>2, <1>3, Zenon

\* COMMIT sent to every Burrow publishes the work of one Burrow at most, and so is a
\* step of AtomicCommit; a client told COMMIT has its work durable.
LEMMA CommitEverywhereOutcome ==
    ASSUME Disciplined, IInv, NEW v \in {"simple", "extended"}, NEW chain \in BOOLEAN,
           CommitEverywhere(v, chain)
    PROVE  AC!Next /\ Told'
<1>0. /\ TypeOK /\ TypeOK' /\ phase = "ready" /\ transaction /\ ~errored /\ ~NeedsTwoPhase(v)
    BY CommitEverywhereIInv, Zenon DEF IInv, CommitEverywhere, Ready, MayCommit, Disciplined
<1> DEFINE t(r) == Blocks("commit", chain, r)
           d(r) == Work("commit", r)
           f(r) == Fates("commit", r)
<1>1. PICK r \in Exchange(Burrows, "commit", chain) :
        IF AllOk(Burrows, r)
        THEN /\ transaction' = chain
             /\ Settle(chain, t(r), d(r), IF chain THEN NoFate ELSE f(r))
             /\ phase' = phase
             /\ answer' = [what |-> CommitTag(chain), status |-> IF chain THEN "T" ELSE "I"]
        ELSE FailCommand(v, r, t(r), d(r), f(r))
    BY Zenon DEF CommitEverywhere
<1>2. \A b \in Burrows : tx[b] = "open" /\ fate[b] = "none"
    BY <1>0, Zenon DEF IInv, Working
<1>3. \A a, b \in Burrows : dirty[a] /\ dirty[b] => a = b
    BY <1>0, Zenon DEF IInv, Working, NeedsTwoPhase, Disciplined
<1>4. \A b \in Burrows : \/ f(r)[b] = fate[b] /\ (r[b] = "ok" => ~dirty[b])
                         \/ dirty[b] /\ f(r)[b] = "committed"
                         \/ dirty[b] /\ f(r)[b] = "aborted" /\ r[b] # "ok"
    BY <1>2, Zenon DEF Fates, FateAfter, Ends, Cut
<1>5. ASSUME fate' = f(r) PROVE AC!Next
  <2>1. Settles
    BY <1>2, <1>3, <1>4, <1>5, Zenon DEF Settles, f
  <2> QED BY <1>0, <2>1, SettlesImplements, Zenon
<1>6. CASE AllOk(Burrows, r)
  <2>1. \A b \in Burrows : ~d(r)[b] /\ f(r)[b] \in {"none", "committed"}
    BY <1>2, <1>4, <1>6, Zenon DEF AllOk, Work, DirtyAfter, Ends
  <2>2. /\ transaction' = chain /\ phase' = "ready" /\ answer'.what = CommitTag(chain)
        /\ Settle(chain, t(r), d(r), IF chain THEN NoFate ELSE f(r))
    BY <1>0, <1>1, <1>6, AnswerFields, Zenon
  <2>3. CommitTag(chain) # "rolledback"
    BY Zenon DEF CommitTag
  <2>4. CASE chain
    <3>1. fate' = NoFate
      BY <2>2, <2>4, Zenon DEF Settle
    <3>2. Told'
      BY <2>2, <2>3, <2>4, Zenon DEF Told, CommitAnswerIsTrue
    <3> QED BY <1>0, <3>1, <3>2, RenewsImplements, Zenon
  <2>5. CASE ~chain
    <3>1. Settle(FALSE, t(r), d(r), f(r))
      BY <2>2, <2>5, Zenon
    <3>2. \A b \in Burrows : ~dirty'[b] /\ fate'[b] = f(r)[b]
      BY <2>1, <3>1, Zenon DEF Settle, Unharmed
    <3>3. Told'
      BY <2>1, <2>2, <2>3, <3>2, Zenon DEF Told, CommitAnswerIsTrue
    <3>4. Settles
      BY <1>2, <1>3, <1>4, <3>2, Zenon DEF Settles
    <3> QED BY <1>0, <3>3, <3>4, SettlesImplements, Zenon
  <2> QED BY <2>4, <2>5, Zenon
<1>7. CASE ~AllOk(Burrows, r)
    BY <1>0, <1>1, <1>5, <1>7, FailCommandTold, Zenon
<1> QED BY <1>6, <1>7, Zenon
-----------------------------------------------------------------------------
(* Statements and COPY.                                                    *)

\* In healthy blocks a statement discards the work of a Tunnel it breaks, at most.
LEMMA StatementLoses ==
    ASSUME NEW S, NEW r, NEW write, \A b \in Burrows : tx[b] = "open"
    PROVE  \A b \in Burrows : \/ StatementFates(S, r, write)[b] = fate[b]
                              \/ dirty[b] /\ StatementFates(S, r, write)[b] = "aborted"
    BY Zenon DEF StatementFates, FateAfter

\* Statement is a step of AtomicCommit and tells of no outcome.
LEMMA StatementOutcome ==
    ASSUME IInv, NEW v \in {"simple", "extended"}, NEW S \in Targets, NEW write \in BOOLEAN,
           RecordedStatement(v, S, write)
    PROVE  AC!Next /\ Told'
<1>0. TypeOK' /\ phase = "ready" /\ phase' = phase /\ transaction /\ ~errored
    BY StatementIInv, Zenon DEF IInv, RecordedStatement, Ready
<1>1. PICK r \in TargetReplies(S) :
        IF AllOk(S, r)
        THEN /\ fate' = StatementFates(S, r, write)
             /\ answer' = [what |-> "done", status |-> TxStatus]
        ELSE Fail(v, S, r, StatementBlocks(S, r), StatementWork(S, r, write),
                  StatementFates(S, r, write))
    BY Zenon DEF RecordedStatement
<1>2. fate' = StatementFates(S, r, write) /\ Told'
  <2>1. CASE AllOk(S, r)
    <3>1. fate' = StatementFates(S, r, write) /\ answer'.what = "done"
      BY <1>1, <2>1, AnswerFields, Zenon
    <3> QED BY <1>0, <3>1, OtherAnswerTold, Zenon
  <2>2. CASE ~AllOk(S, r)
    BY <1>0, <1>1, <2>2, FailTold, Zenon
  <2> QED BY <2>1, <2>2, Zenon
<1>3. \A b \in Burrows : tx[b] = "open"
    BY <1>0, Zenon DEF IInv, Working
<1>4. Loses
    BY <1>2, <1>3, StatementLoses, Zenon DEF Loses
<1> QED BY <1>0, <1>2, <1>4, LosesImplements, Zenon

\* A statement outside a transaction leaves the last transaction's fates alone.
LEMMA AutocommitOutcome ==
    ASSUME IInv, NEW v \in {"simple", "extended"}, NEW e \in Burrows, Autocommit(v, e)
    PROVE  AC!Next /\ Told'
<1>0. TypeOK' /\ phase = "ready" /\ phase' = phase /\ ~transaction /\ ~gone
    BY AutocommitIInv, Zenon DEF IInv, Autocommit, Ready
<1>1. PICK r \in TargetReplies({e}) :
        IF AllOk({e}, r)
        THEN /\ Settle(FALSE, StatementBlocks({e}, r), StatementWork({e}, r, TRUE),
                       StatementFates({e}, r, TRUE))
             /\ answer' = [what |-> "done", status |-> "I"]
        ELSE Fail(v, {e}, r, StatementBlocks({e}, r), StatementWork({e}, r, TRUE),
                  StatementFates({e}, r, TRUE))
    BY Zenon DEF Autocommit
<1>2. \A b \in Burrows : tx[b] = "idle" /\ ~dirty[b]
    BY <1>0, Zenon DEF IInv, Quiet
<1>3. \A b \in Burrows : /\ StatementFates({e}, r, TRUE)[b] = fate[b]
                         /\ ~StatementWork({e}, r, TRUE)[b]
    BY <1>0, <1>2, Zenon DEF StatementFates, FateAfter, StatementWork, DirtyAfter
<1>4. /\ \A b \in Burrows : \/ fate'[b] = StatementFates({e}, r, TRUE)[b]
                            \/ StatementWork({e}, r, TRUE)[b]
      /\ Told'
  <2>1. CASE AllOk({e}, r)
    <3>1. /\ answer'.what = "done"
          /\ Settle(FALSE, StatementBlocks({e}, r), StatementWork({e}, r, TRUE),
                    StatementFates({e}, r, TRUE))
      BY <1>1, <2>1, AnswerFields, Zenon
    <3> QED BY <1>0, <3>1, OtherAnswerTold, Zenon DEF Settle
  <2>2. CASE ~AllOk({e}, r)
    BY <1>0, <1>1, <2>2, FailTold, Zenon
  <2> QED BY <2>1, <2>2, Zenon
<1>5. Loses
    BY <1>3, <1>4, Zenon DEF Loses
<1> QED BY <1>0, <1>4, <1>5, LosesImplements, Zenon

\* Starting a COPY discards the work of a Tunnel it breaks, at most.
LEMMA CopyQueryOutcome ==
    ASSUME IInv, NEW S \in Targets, CopyQuery(S)
    PROVE  AC!Next /\ Told'
<1>0. TypeOK' /\ phase' = "ready" /\ phase = "ready" /\ transaction /\ ~errored
    BY CopyQueryIInv, Zenon DEF IInv, CopyQuery, Ready
<1>1. PICK r \in TargetReplies(S) :
        /\ fate' = StatementFates(S, r, FALSE)
        /\ \/ answer' = [what |-> "done", status |-> TxStatus]
           \/ answer' = [what |-> "error", status |-> "E"]
    BY Zenon DEF CopyQuery
<1>2. \A b \in Burrows : tx[b] = "open"
    BY <1>0, Zenon DEF IInv, Working
<1>3. Loses
    BY <1>1, <1>2, StatementLoses, Zenon DEF Loses
<1>4. answer'.what \in {"done", "error"}
    BY <1>1, AnswerFields, Zenon
<1> QED BY <1>0, <1>3, <1>4, LosesImplements, OtherAnswerTold, Zenon

\* So does its end.
LEMMA CopyEndOutcome ==
    ASSUME IInv, CopyEnd
    PROVE  AC!Next /\ Told'
<1>0. /\ TypeOK' /\ phase' = "ready" /\ phase = "ready" /\ copyTargets # {}
      /\ transaction /\ ~errored
    BY CopyEndIInv, Zenon DEF IInv, CopyEnd, Copying
<1>1. PICK r \in TargetReplies(copyTargets) :
        /\ fate' = StatementFates(copyTargets, r, TRUE)
        /\ answer' = IF AllOk(copyTargets, r) THEN [what |-> "done", status |-> TxStatus]
                     ELSE [what |-> "error", status |-> "E"]
    BY Zenon DEF CopyEnd
<1>2. \A b \in Burrows : tx[b] = "open"
    BY <1>0, Zenon DEF IInv, Working
<1>3. Loses
    BY <1>1, <1>2, StatementLoses, Zenon DEF Loses
<1>4. answer'.what \in {"done", "error"}
    BY <1>1, AnswerFields, Zenon
<1> QED BY <1>0, <1>3, <1>4, LosesImplements, OtherAnswerTold, Zenon
-----------------------------------------------------------------------------
(* commitTwoPhase and fleet-wide DDL.                                      *)

\* Starting commitTwoPhase decides nothing.
LEMMA CommitTwoPhaseOutcome ==
    ASSUME Disciplined, IInv, NEW v \in {"simple", "extended"}, NEW chain \in BOOLEAN,
           CommitTwoPhase(v, chain)
    PROVE  AC!Next /\ Told'
<1>1. TypeOK' /\ fate' = fate /\ phase' \in {"prepare", "readers"}
    BY CommitTwoPhaseIInv, Zenon DEF IInv, CommitTwoPhase, StartTwoPhase
<1>2. Loses
    BY <1>1, Zenon DEF Loses
<1> QED BY <1>1, <1>2, LosesImplements, OtherAnswerTold, Zenon

\* When commitTwoPhase returns, the client is told the result; only uncommitted
\* work is discarded with the session's Tunnels.
LEMMA ReturnEffect ==
    ASSUME NEW what \in {"commit", "error", "rolledback", "indoubt"},
           NEW t, NEW d, NEW f, Return(what, t, d, f)
    PROVE  /\ phase' \in {"ready", "stuck"}
           /\ what # "commit" => answer'.what = what
           /\ what = "commit" => ~transaction' /\ answer'.what \in {"commit", "chain"}
           /\ \A b \in Burrows : fate'[b] = f[b] \/ (d[b] /\ fate'[b] = "aborted")
           /\ \A b \in Burrows : ~d[b] => ~dirty'[b]
<1>1. phase' \in {"ready", "stuck"}
    BY Zenon DEF Return
<1>2. /\ what # "commit" => answer'.what = what
      /\ what = "commit" => ~transaction' /\ answer'.what \in {"commit", "chain"}
    BY AnswerFields, Zenon DEF Return
<1>3. \E held : Settle(held, t, d, f)
    BY Zenon DEF Return
<1> QED BY <1>1, <1>2, <1>3, Zenon DEF Settle, Unharmed

\* EndReader discards no work of a participant unless the session closes.
LEMMA EndReaderOutcome ==
    ASSUME IInv, NEW b \in Burrows, EndReader(b)
    PROVE  AC!Next /\ Told'
<1>0. TypeOK /\ TypeOK' /\ phase = "readers"
    BY EndReaderIInv, Zenon DEF IInv, EndReader
<1>1. PICK r \in CanReply("rollback", FALSE, b) :
        LET x == After("rollback", b, r)
        IN  IF r # "ok" THEN Return("error", x.t, x.d, x.f)
            ELSE /\ IF todo = {b} THEN Continue("prepare", members, x.t, x.d, x.f)
                    ELSE Continue("readers", todo \ {b}, x.t, x.d, x.f)
                 /\ UNCHANGED prepared
    BY Zenon DEF EndReader
<1> DEFINE t == [tx EXCEPT ![b] = TxAfter("rollback", FALSE, b, r)]
           d == [dirty EXCEPT ![b] = DirtyAfter("rollback", b, r)]
           f == [fate EXCEPT ![b] = FateAfter("rollback", b, r)]
<1>2. /\ f[b] = FateAfter("rollback", b, r) /\ d[b] = DirtyAfter("rollback", b, r)
      /\ \A e \in Burrows \ {b} : d[e] = dirty[e] /\ f[e] = fate[e]
    BY <1>0, Zenon DEF TypeOK
<1>3. IF r # "ok" THEN Return("error", t, d, f)
      ELSE phase' \in {"prepare", "readers"} /\ fate' = f
    BY <1>1, Zenon DEF Continue, After
<1> HIDE DEF t, d, f
<1>4. \A e \in Burrows : /\ f[e] = fate[e] \/ (dirty[e] /\ f[e] = "aborted")
                         /\ d[e] => dirty[e]
    BY <1>2, Zenon DEF FateAfter, DirtyAfter
<1>5. CASE r # "ok"
  <2>0. Return("error", t, d, f)
    BY <1>3, <1>5, Zenon
  <2>1. /\ phase' \in {"ready", "stuck"} /\ answer'.what = "error"
        /\ \A e \in Burrows : fate'[e] = f[e] \/ (d[e] /\ fate'[e] = "aborted")
    BY <2>0, ReturnEffect, Zenon
  <2>2. Loses
    BY <1>4, <2>1, Zenon DEF Loses
  <2> QED BY <1>0, <2>1, <2>2, LosesImplements, OtherAnswerTold, Zenon
<1>6. CASE r = "ok"
  <2>1. Loses
    BY <1>3, <1>4, <1>6, Zenon DEF Loses
  <2> QED BY <1>0, <1>3, <1>6, <2>1, LosesImplements, OtherAnswerTold, Zenon
<1> QED BY <1>5, <1>6, Zenon

\* Prepare keeps work while nothing of the transaction is lost, or loses what it
\* could not prepare; the commit loop starts with every participant ahead.
LEMMA PrepareOutcome ==
    ASSUME IInv, NEW b \in Burrows, Prepare(b)
    PROVE  AC!Next /\ Told'
<1>0. TypeOK /\ TypeOK' /\ phase = "prepare" /\ b \in todo
    BY PrepareIInv, Zenon DEF IInv, Prepare, First
<1>1. \A e \in Burrows : /\ fate[e] \in {"none", "prepared"}
                         /\ e \in prepared <=> e \in members \ todo
                         /\ fate[e] = "prepared" => e \in prepared
    BY <1>0, Zenon DEF IInv, Committing
<1>2. fate[b] = "none"
    BY <1>0, Zenon DEF IInv, Committing
<1>3. PICK r \in CanReply("prepare", FALSE, b) :
        LET x == After("prepare", b, r)
        IN  IF r # "ok"
            THEN Continue("undo", members, x.t, x.d, x.f) /\ UNCHANGED prepared
            ELSE /\ prepared' = prepared \cup {b}
                 /\ IF todo = {b} THEN Continue("commit", members, x.t, x.d, x.f)
                    ELSE Continue("prepare", todo \ {b}, x.t, x.d, x.f)
    BY Zenon DEF Prepare
<1>4. /\ fate'[b] = FateAfter("prepare", b, r)
      /\ \A e \in Burrows \ {b} : fate'[e] = fate[e]
  <2>1. fate' = [fate EXCEPT ![b] = FateAfter("prepare", b, r)]
    BY <1>3, Zenon DEF Continue, After
  <2> QED BY <1>0, <2>1, Zenon DEF TypeOK
<1>5. fate'[b] \in {"none", "prepared"} \/ (dirty[b] /\ fate'[b] = "aborted")
    BY <1>2, <1>4, Zenon DEF FateAfter
<1>6. Settles
    BY <1>1, <1>2, <1>4, <1>5, Zenon DEF Settles
<1>7. Told'
  <2>1. CASE phase' = "commit"
    <3>1. todo' = members /\ todo = {b}
      BY <1>3, <2>1, Zenon DEF Continue
    <3>2. b \in members
      BY <1>0, Zenon DEF IInv, Committing
    <3>3. \A e \in Burrows \ todo' : fate'[e] = "none"
      BY <1>1, <1>4, <3>1, <3>2, Zenon
    <3> QED BY <2>1, <3>3, Zenon DEF Told, CommitAnswerIsTrue
  <2>2. CASE phase' \in {"undo", "prepare"}
    BY <2>2, OtherAnswerTold, Zenon
  <2> QED BY <1>3, <2>1, <2>2, Zenon DEF Continue
<1> QED BY <1>0, <1>6, <1>7, SettlesImplements, Zenon

\* Undo discards work while nothing is committed; a client told that its transaction
\* was rolled back has nothing published.
LEMMA UndoOutcome ==
    ASSUME IInv, NEW b \in Burrows, Undo(b)
    PROVE  AC!Next /\ Told'
<1>0. TypeOK /\ TypeOK' /\ phase = "undo"
    BY UndoIInv, Zenon DEF IInv, Undo
<1>1. \A e \in Burrows : fate[e] # "committed"
    BY <1>0, Zenon DEF IInv, Committing
<1> DEFINE c == IF b \in prepared THEN "rollback prepared" ELSE "rollback"
<1>2. PICK r \in CanReply(c, FALSE, b) :
        LET x == After(c, b, r)
        IN  IF todo = {b} THEN Return("rolledback", x.t, x.d, x.f)
            ELSE Continue("undo", todo \ {b}, x.t, x.d, x.f) /\ UNCHANGED prepared
    BY Zenon DEF Undo
<1> DEFINE t == [tx EXCEPT ![b] = TxAfter(c, FALSE, b, r)]
           d == [dirty EXCEPT ![b] = DirtyAfter(c, b, r)]
           f == [fate EXCEPT ![b] = FateAfter(c, b, r)]
<1>3. c \in {"rollback", "rollback prepared"}
    BY Zenon
<1> HIDE DEF c
<1>4. /\ f[b] = FateAfter(c, b, r) /\ d[b] = DirtyAfter(c, b, r)
      /\ \A e \in Burrows \ {b} : d[e] = dirty[e] /\ f[e] = fate[e]
    BY <1>0, Zenon DEF TypeOK
<1>5. IF todo = {b} THEN Return("rolledback", t, d, f) ELSE phase' = "undo" /\ fate' = f
    BY <1>2, Zenon DEF Continue, After
<1> HIDE DEF t, d, f
<1>6. \A e \in Burrows :
        /\ \/ f[e] = fate[e]
           \/ f[e] = "aborted" /\ (dirty[e] \/ fate[e] = "prepared")
        /\ d[e] => dirty[e]
    BY <1>3, <1>4, Zenon DEF FateAfter, DirtyAfter
<1>7. \A e \in Burrows : f[e] # "committed"
    BY <1>1, <1>6, Zenon
<1>8. CASE todo = {b}
  <2>0. Return("rolledback", t, d, f)
    BY <1>5, <1>8, Zenon
  <2>1. /\ phase' \in {"ready", "stuck"} /\ answer'.what = "rolledback"
        /\ \A e \in Burrows : fate'[e] = f[e] \/ (d[e] /\ fate'[e] = "aborted")
    BY <2>0, ReturnEffect, Zenon
  <2>2. \A e \in Burrows : fate'[e] # "committed"
    BY <1>7, <2>1, Zenon
  <2>3. Settles
    BY <1>1, <1>6, <2>1, <2>2, Zenon DEF Settles
  <2>4. Told'
    BY <2>1, <2>2, Zenon DEF Told, CommitAnswerIsTrue
  <2> QED BY <1>0, <2>3, <2>4, SettlesImplements, Zenon
<1>9. CASE todo # {b}
  <2>1. phase' = "undo" /\ fate' = f
    BY <1>5, <1>9, Zenon
  <2>2. Settles
    BY <1>1, <1>6, <1>7, <2>1, Zenon DEF Settles
  <2> QED BY <1>0, <2>1, <2>2, SettlesImplements, OtherAnswerTold, Zenon
<1> QED BY <1>8, <1>9, Zenon

\* CommitPrepared commits one Burrow while the others are prepared or committed; a
\* client told COMMIT at the end of the loop has its work durable on all of them.
LEMMA CommitPreparedOutcome ==
    ASSUME IInv, Told, NEW b \in Burrows, CommitPrepared(b)
    PROVE  AC!Next /\ Told'
<1>0. TypeOK /\ TypeOK' /\ phase = "commit" /\ b \in todo
    BY CommitPreparedIInv, Zenon DEF IInv, CommitPrepared, First
<1>1. /\ fate[b] = "prepared"
      /\ \A e \in Burrows : ~dirty[e] /\ fate[e] \in {"none", "prepared", "committed"}
      /\ \A e \in Burrows \ todo : fate[e] \in {"none", "committed"}
  <2>1. \A e \in Burrows : fate[e] \in FateStates
    BY <1>0, Zenon DEF TypeOK, FateStates
  <2> QED BY <1>0, <2>1, Zenon DEF IInv, Committing, Told, FateStates
<1>2. PICK r \in CanReply("commit prepared", FALSE, b) :
        LET x == After("commit prepared", b, r)
        IN  IF r # "ok" THEN Return("indoubt", x.t, x.d, x.f)
            ELSE IF todo = {b} THEN Return("commit", x.t, x.d, x.f)
            ELSE Continue("commit", todo \ {b}, x.t, x.d, x.f) /\ UNCHANGED prepared
    BY Zenon DEF CommitPrepared
<1> DEFINE t == [tx EXCEPT ![b] = TxAfter("commit prepared", FALSE, b, r)]
           d == [dirty EXCEPT ![b] = DirtyAfter("commit prepared", b, r)]
           f == [fate EXCEPT ![b] = FateAfter("commit prepared", b, r)]
<1>3. /\ f[b] = FateAfter("commit prepared", b, r)
      /\ d[b] = DirtyAfter("commit prepared", b, r)
      /\ \A e \in Burrows \ {b} : d[e] = dirty[e] /\ f[e] = fate[e]
    BY <1>0, Zenon DEF TypeOK
<1>4. IF r # "ok" THEN Return("indoubt", t, d, f)
      ELSE IF todo = {b} THEN Return("commit", t, d, f)
      ELSE phase' = "commit" /\ todo' = todo \ {b} /\ fate' = f
    BY <1>2, Zenon DEF Continue, After
<1> HIDE DEF t, d, f
<1>5. /\ \A e \in Burrows : ~d[e]
      /\ f[b] \in {"prepared", "committed"} /\ (r = "ok" => f[b] = "committed")
    BY <1>1, <1>3, Zenon DEF FateAfter, DirtyAfter
<1>6. ASSUME \A e \in Burrows : fate'[e] = f[e]
      PROVE  AC!Next
  <2>1. \A e \in Burrows \ {b} : \/ fate[e] \in {"prepared", "committed"}
                                 \/ fate[e] = "none" /\ ~dirty[e]
    BY <1>1, Zenon
  <2>2. Settles
    BY <1>1, <1>3, <1>5, <1>6, <2>1, Zenon DEF Settles
  <2> QED BY <1>0, <2>2, SettlesImplements, Zenon
<1>7. CASE r # "ok"
  <2>0. Return("indoubt", t, d, f)
    BY <1>4, <1>7, Zenon
  <2>1. /\ phase' \in {"ready", "stuck"} /\ answer'.what = "indoubt"
        /\ \A e \in Burrows : fate'[e] = f[e] \/ (d[e] /\ fate'[e] = "aborted")
    BY <2>0, ReturnEffect, Zenon
  <2>2. \A e \in Burrows : fate'[e] = f[e]
    BY <1>5, <2>1, Zenon
  <2> QED BY <1>6, <2>1, <2>2, OtherAnswerTold, Zenon
<1>8. CASE r = "ok" /\ todo = {b}
  <2>0. Return("commit", t, d, f)
    BY <1>4, <1>8, Zenon
  <2>1. /\ phase' \in {"ready", "stuck"} /\ answer'.what \in {"commit", "chain"}
        /\ \A e \in Burrows : fate'[e] = f[e] \/ (d[e] /\ fate'[e] = "aborted")
        /\ \A e \in Burrows : ~d[e] => ~dirty'[e]
    BY <2>0, ReturnEffect, Zenon
  <2>2. \A e \in Burrows : fate'[e] = f[e] /\ ~dirty'[e]
    BY <1>5, <2>1, Zenon
  <2>3. \A e \in Burrows : fate'[e] \in {"none", "committed"}
    BY <1>1, <1>3, <1>5, <1>8, <2>2, Zenon
  <2>4. Told'
    BY <2>1, <2>2, <2>3, Zenon DEF Told, CommitAnswerIsTrue
  <2> QED BY <1>6, <2>2, <2>4, Zenon
<1>9. CASE r = "ok" /\ todo # {b}
  <2>1. phase' = "commit" /\ todo' = todo \ {b} /\ fate' = f
    BY <1>4, <1>9, Zenon
  <2>2. \A e \in Burrows \ todo' : fate'[e] \in {"none", "committed"}
    BY <1>1, <1>3, <1>5, <1>9, <2>1, Zenon
  <2>3. Told'
    BY <2>1, <2>2, Zenon DEF Told, CommitAnswerIsTrue
  <2> QED BY <1>6, <2>1, <2>3, Zenon
<1> QED BY <1>7, <1>8, <1>9, Zenon

\* Fleet-wide DDL starts a transaction of its own.
LEMMA FleetDDLOutcome ==
    ASSUME IInv, NEW v \in {"simple", "extended"}, FleetDDL(v)
    PROVE  AC!Next /\ Told'
<1>1. TypeOK' /\ fate' = NoFate /\ phase' \in {"prepare", "readers"}
    BY FleetDDLIInv, Zenon DEF IInv, FleetDDL, StartTwoPhase
<1> QED BY <1>1, RenewsImplements, OtherAnswerTold, Zenon

\* When it fails the last transaction's fates are left alone.
LEMMA FleetDDLFailedOutcome ==
    ASSUME IInv, NEW v \in {"simple", "extended"}, FleetDDLFailed(v)
    PROVE  AC!Next /\ Told'
<1>0. /\ phase = "ready" /\ phase' = phase /\ ~transaction /\ ~gone
      /\ answer' = [what |-> "error", status |-> "I"]
    BY SMTT(30) DEF FleetDDLFailed, Ready
<1>1. TypeOK'
    BY FleetDDLFailedIInv, Zenon DEF IInv
<1>2. \A b \in Burrows : ~dirty[b]
    BY <1>0, Zenon DEF IInv, Quiet
<1>3. PICK t \in [Burrows -> BlockStates] :
        LET d == [b \in Burrows |-> dirty[b] /\ t[b] = tx[b]]
        IN  Settle(FALSE, t, d, [b \in Burrows |->
                           IF dirty[b] /\ ~d[b] THEN "aborted" ELSE fate[b]])
    BY Zenon DEF FleetDDLFailed, BlockStates
<1>4. Loses
    BY <1>2, <1>3, Zenon DEF Loses, Settle
<1>5. answer'.what = "error"
    BY <1>0, AnswerFields, Zenon
<1> QED BY <1>0, <1>1, <1>4, <1>5, LosesImplements, OtherAnswerTold, Zenon
-----------------------------------------------------------------------------
(* The session, and the theorems.                                          *)

\* Session affinity, a frontend that goes away and a new frontend change nothing
\* that a client was told.
LEMMA SessionOutcome ==
    ASSUME IInv, Told, Pin \/ Disconnect \/ Connect
    PROVE  AC!Next /\ Told'
<1>1. CASE Pin \/ Disconnect
  <2>1. TypeOK' /\ UNCHANGED <<phase, todo, transaction, dirty, fate, answer>>
    BY <1>1, PinIInv, DisconnectIInv, Zenon DEF IInv, Pin, Disconnect, session, commit
  <2>2. Loses
    BY <2>1, Zenon DEF Loses
  <2>3. Told'
    BY <2>1, Zenon DEF Told, CommitAnswerIsTrue
  <2> QED BY <2>1, <2>2, <2>3, LosesImplements, Zenon
<1>2. CASE Connect
  <2>1. TypeOK' /\ phase = "closed" /\ phase' = "ready" /\ fate' = NoFate /\ answer' = answer
    BY <1>2, ConnectIInv, Zenon DEF IInv, Connect
  <2>2. answer'.what = "none"
    BY <2>1, Zenon DEF Told
  <2> QED BY <2>1, <2>2, RenewsImplements, OtherAnswerTold, Zenon
<1> QED BY <1>1, <1>2, Zenon

\* The end of a session, by Terminate, disconnect or crash, discards uncommitted work.
LEMMA EndSessionOutcome ==
    ASSUME IInv, EndSession
    PROVE  AC!Next /\ Told'
<1>1. /\ TypeOK' /\ phase' = "closed" /\ answer' = [what |-> "none", status |-> "I"]
      /\ fate' = [b \in Burrows |-> IF dirty[b] THEN "aborted" ELSE fate[b]]
    BY EndSessionIInv, Zenon DEF IInv, EndSession
<1>2. Loses
    BY <1>1, Zenon DEF Loses
<1>3. answer'.what = "none"
    BY <1>1, AnswerFields, Zenon
<1>4. Told'
    BY <1>1, <1>3, Zenon DEF Told, CommitAnswerIsTrue
<1> QED BY <1>1, <1>2, <1>4, LosesImplements, Zenon

\* Every step of the Proxy is a step of AtomicCommit and keeps what clients are told
\* true, for clients that neither commit after an error nor nest BEGIN and whose
\* writes recordWriteParticipants records.
LEMMA NextOutcome ==
    ASSUME Disciplined, IInv, Told, Next
    PROVE  AC!Next /\ Told'
<1>1. ASSUME NEW v \in {"simple", "extended"},
             Begin(v) \/ Savepoint(v) \/ RollbackTo(v) \/ FleetDDL(v) \/ FleetDDLFailed(v)
      PROVE  AC!Next /\ Told'
    BY <1>1, BeginOutcome, SavepointOutcome, RollbackToOutcome, FleetDDLOutcome,
       FleetDDLFailedOutcome, Zenon
<1>2. ASSUME NEW v \in {"simple", "extended"}, NEW chain \in BOOLEAN,
             Rollback(v, chain) \/ CommitEverywhere(v, chain) \/ CommitTwoPhase(v, chain)
      PROVE  AC!Next /\ Told'
    BY <1>2, RollbackOutcome, CommitEverywhereOutcome, CommitTwoPhaseOutcome, Zenon
<1>3. ASSUME NEW v \in {"simple", "extended"}, NEW S \in Targets, NEW kind \in Kinds,
             Statement(v, S, kind)
      PROVE  AC!Next /\ Told'
    BY <1>3, StatementIsRecorded, StatementOutcome, Zenon
<1>4. ASSUME NEW v \in {"simple", "extended"}, NEW b \in Burrows, Autocommit(v, b)
      PROVE  AC!Next /\ Told'
    BY <1>4, AutocommitOutcome, Zenon
<1>5. ASSUME NEW S \in Targets, CopyQuery(S) PROVE AC!Next /\ Told'
    BY <1>5, CopyQueryOutcome, Zenon
<1>6. CASE CopyEnd
    BY <1>6, CopyEndOutcome, Zenon
<1>7. CASE Coordinate
    BY <1>7, EndReaderOutcome, PrepareOutcome, UndoOutcome, CommitPreparedOutcome, Zenon
    DEF Coordinate
<1>8. CASE Pin \/ Disconnect \/ Connect
    BY <1>8, SessionOutcome, Zenon
<1>9. CASE Leave \/ Crash
    BY <1>9, EndSessionOutcome, Zenon DEF Leave, Crash
<1> QED BY <1>1, <1>2, <1>3, <1>4, <1>5, <1>6, <1>7, <1>8, <1>9, Zenon DEF Next

\* The initial state: nothing has been done, nothing told.
LEMMA InitOutcome == ASSUME Init PROVE AC!Init /\ Told
<1>1. /\ phase = "ready" /\ answer = [what |-> "none", status |-> "I"]
      /\ dirty = Unharmed /\ fate = NoFate
    BY Zenon DEF Init
<1>2. Stage = [b \in Burrows |-> "none"]
    BY <1>1, Zenon DEF Stage, Unharmed, NoFate
<1>3. answer.what = "none"
    BY <1>1, AnswerFields, Zenon
<1> QED BY <1>1, <1>2, <1>3, Zenon DEF AC!Init, Told, CommitAnswerIsTrue

\* What clients are told stays true: the invariant that the outcome of COMMIT needs
\* besides IInv.
LEMMA TellsTheTruth == ASSUME Disciplined PROVE Spec => []Told
<1>1. Init => Told
    BY InitOutcome, Zenon
<1>2. IInv /\ Told /\ [Next]_vars => Told'
  <2>1. ASSUME Told, UNCHANGED vars PROVE Told'
    BY <2>1, Zenon DEF vars, session, commit, Told, CommitAnswerIsTrue
  <2> QED BY <2>1, NextOutcome, Zenon
<1> QED BY <1>1, <1>2, Invariance, PTL DEF Spec

\* What commitTwoPhase and its callers tell a Disciplined client is true on any number
\* of Burrows: after COMMIT the work is durable on every Burrow, and after a failed preparation
\* nothing of it has been published.
THEOREM Candour == ASSUME Disciplined PROVE Spec => []CommitAnswerIsTrue
<1>1. Told => CommitAnswerIsTrue
    BY Zenon DEF Told
<1> QED BY <1>1, TellsTheTruth, PTL

\* For a Disciplined client the coordinator implements AtomicCommit on any number of
\* Burrows, whatever breaks: work becomes durable on one Burrow only when all the other work of the transaction
\* is at least prepared, and nothing is discarded after that.
THEOREM Refinement == ASSUME Disciplined PROVE Spec => ImplementsAtomicCommit
<1>1. Init => AC!Init
    BY InitOutcome, Zenon
<1>2. IInv /\ Told /\ [Next]_vars => [AC!Next]_Stage
  <2>1. ASSUME UNCHANGED vars PROVE Stage' = Stage
    BY <2>1, Zenon DEF vars, Stage
  <2> QED BY <2>1, NextOutcome, Zenon
<1> QED BY <1>1, <1>2, Invariance, TellsTheTruth, PTL
        DEF Spec, ImplementsAtomicCommit, AC!Spec
=============================================================================
