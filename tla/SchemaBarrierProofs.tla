------------------------ MODULE SchemaBarrierProofs ------------------------
(***************************************************************************)
(* Proofs about SchemaBarrier, for any set of sessions and any pool size.  *)
(***************************************************************************)
EXTENDS SchemaBarrier, TLAPS

\* A message arriving keeps the invariant: it reaches its handler only with the flag down.
LEMMA ReceiveIInv == ASSUME IInv, NEW s \in Sessions, NEW m \in Messages, Receive(s, m) PROVE IInv'
<1>1. TypeOK'
    BY BarrierAssumption, Zenon DEF IInv, Receive, Offered, Goto, burrows, TypeOK, Points,
       Messages, Unread, Mismatch, Refreshing
<1>2. Mutex'
    BY BarrierAssumption, Zenon DEF IInv, Receive, Offered, Goto, burrows, TypeOK, Mutex,
       Refreshing, Unread, Mismatch
<1>3. Fenced'
    BY BarrierAssumption, Zenon DEF IInv, Receive, Offered, Goto, burrows, TypeOK, Mutex,
       Fenced, StaleRoutingIsFenced, Refreshing, Unread, Mismatch
<1>4. Fresh'
    BY BarrierAssumption DEF IInv, Receive, Offered, Goto, burrows, TypeOK, Fresh,
       Fenced, Mutex, RoutesFresh, StaleRoutingIsFenced, Refreshing, Unread,
       Mismatch
<1>5. Gated'
    BY BarrierAssumption, Zenon DEF IInv, Receive, Offered, Goto, burrows, TypeOK, Gated, OpenDDL
<1> QED BY <1>1, <1>2, <1>3, <1>4, <1>5, Zenon DEF IInv

\* Taking the mutex keeps it: when the flag went down meanwhile, routing is current.
LEMMA LockRefreshIInv == ASSUME IInv, NEW s \in Sessions, LockRefresh(s) PROVE IInv'
<1>1. TypeOK'
    BY BarrierAssumption DEF IInv, LockRefresh, Refreshed, Answered, GateWithout,
       Goto, burrows, TypeOK, Points, Messages, Unread, Mismatch, Refreshing
<1>2. Mutex'
    BY BarrierAssumption DEF IInv, LockRefresh, Refreshed, Answered, GateWithout,
       Goto, burrows, TypeOK, Mutex, Refreshing, Unread, Mismatch
<1>3. Fenced'
    BY BarrierAssumption, Zenon DEF IInv, LockRefresh, Refreshed, Answered, GateWithout,
       Goto, burrows, TypeOK, Mutex, Fenced, StaleRoutingIsFenced, Refreshing,
       Unread, Mismatch
<1>4. Fresh'
    BY BarrierAssumption DEF IInv, LockRefresh, Refreshed, Answered, GateWithout,
       Goto, burrows, TypeOK, Fresh, Fenced, Mutex, RoutesFresh,
       StaleRoutingIsFenced, Refreshing, Unread, Mismatch
<1>5. Gated'
    BY BarrierAssumption DEF IInv, LockRefresh, Refreshed, Answered, GateWithout,
       Goto, burrows, TypeOK, Gated, OpenDDL
<1> QED BY <1>1, <1>2, <1>3, <1>4, <1>5, Zenon DEF IInv

\* Reading the catalogs keeps it: nobody commits DDL under the mutex.
LEMMA LoadSchemaIInv == ASSUME IInv, NEW s \in Sessions, LoadSchema(s) PROVE IInv'
<1>1. TypeOK'
    BY BarrierAssumption, Zenon DEF IInv, LoadSchema, server, burrows, TypeOK, Points,
       Messages, Unread, Mismatch, Refreshing
<1>2. Mutex'
    BY BarrierAssumption, Zenon DEF IInv, LoadSchema, server, burrows, TypeOK, Mutex,
       Refreshing, Unread, Mismatch
<1>3. Fenced'
    BY BarrierAssumption DEF IInv, LoadSchema, server, burrows, TypeOK, Mutex,
       Fenced, StaleRoutingIsFenced, Refreshing, Unread, Mismatch
<1>4. Fresh'
    BY BarrierAssumption, Zenon DEF IInv, LoadSchema, server, burrows, TypeOK, Fresh,
       Fenced, Mutex, RoutesFresh, StaleRoutingIsFenced, Refreshing, Unread,
       Mismatch
<1>5. Gated'
    BY BarrierAssumption, Zenon DEF IInv, LoadSchema, server, burrows, TypeOK, Gated, OpenDDL
<1> QED BY <1>1, <1>2, <1>3, <1>4, <1>5 DEF IInv

\* Publishing keeps it: what was loaded is still what the Burrows have.
LEMMA FinishRefreshIInv == ASSUME IInv, NEW s \in Sessions, FinishRefresh(s) PROVE IInv'
<1>1. TypeOK'
  <2>1. schemaDirty' \in [Sessions -> BOOLEAN]
    BY Zenon DEF IInv, FinishRefresh, Refreshed, TypeOK
  <2>2. routing' \in Nat /\ loaded' \in [Sessions -> Nat \cup {Unread, Mismatch}]
    BY Zenon DEF IInv, FinishRefresh, TypeOK
  <2>3. /\ pc' \in [Sessions -> Points]
        /\ message' \in [Sessions -> Messages \cup {"none"}]
        /\ arrived' \in [Sessions -> Nat]
        /\ tunnels' \subseteq Sessions
        /\ fleetWriteGate' \in Sessions \cup {None}
    BY DEF IInv, FinishRefresh, Refreshed, Answered, GateWithout, Goto, TypeOK, Points
  <2> QED
    BY <2>1, <2>2, <2>3, Zenon DEF IInv, FinishRefresh, burrows, TypeOK
<1>2. Mutex'
    BY BarrierAssumption DEF IInv, FinishRefresh, Refreshed, Answered, GateWithout,
       Goto, burrows, TypeOK, Mutex, Refreshing, Unread, Mismatch
<1>3. Fenced'
    BY BarrierAssumption DEF IInv, FinishRefresh, Refreshed, Answered, GateWithout,
       Goto, burrows, TypeOK, Mutex, Fenced, StaleRoutingIsFenced, Refreshing,
       Unread, Mismatch
<1>4. Fresh'
    BY BarrierAssumption DEF IInv, FinishRefresh, Refreshed, Answered, GateWithout,
       Goto, burrows, TypeOK, Fresh, Fenced, Mutex, RoutesFresh,
       StaleRoutingIsFenced, Refreshing, Unread, Mismatch
<1>5. Gated'
    BY BarrierAssumption DEF IInv, FinishRefresh, Refreshed, Answered, GateWithout,
       Goto, burrows, TypeOK, Gated, OpenDDL
<1> QED BY <1>1, <1>2, <1>3, <1>4, <1>5 DEF IInv

\* A failed refresh keeps it: the flag stays up.
LEMMA FailRefreshIInv == ASSUME IInv, NEW s \in Sessions, FailRefresh(s) PROVE IInv'
<1>1. TypeOK'
    BY BarrierAssumption, Zenon DEF IInv, FailRefresh, Answered, GateWithout, Goto,
       burrows, TypeOK, Points, Messages, Unread, Mismatch, Refreshing
<1>2. Mutex'
    BY BarrierAssumption, Zenon DEF IInv, FailRefresh, Answered, GateWithout, Goto,
       burrows, TypeOK, Mutex, Refreshing, Unread, Mismatch
<1>3. Fenced'
    BY BarrierAssumption DEF IInv, FailRefresh, Answered, GateWithout, Goto,
       burrows, TypeOK, Mutex, Fenced, StaleRoutingIsFenced, Refreshing, Unread,
       Mismatch
<1>4. Fresh'
    BY BarrierAssumption DEF IInv, FailRefresh, Answered, GateWithout, Goto,
       burrows, TypeOK, Fresh, Fenced, Mutex, RoutesFresh, StaleRoutingIsFenced,
       Refreshing, Unread, Mismatch
<1>5. Gated'
    BY BarrierAssumption DEF IInv, FailRefresh, Answered, GateWithout, Goto,
       burrows, TypeOK, Gated, OpenDDL
<1> QED BY <1>1, <1>2, <1>3, <1>4, <1>5 DEF IInv

\* Starting the handler keeps it.
LEMMA HandleIInv == ASSUME IInv, NEW s \in Sessions, Handle(s) PROVE IInv'
<1>1. TypeOK'
    BY BarrierAssumption, Zenon DEF IInv, Handle, Goto, server, CommitsSchema, burrows,
       TypeOK, Points, Messages, Unread, Mismatch, Refreshing
<1>2. Mutex'
    BY BarrierAssumption, Zenon DEF IInv, Handle, Goto, server, CommitsSchema, burrows,
       TypeOK, Mutex, Refreshing, Unread, Mismatch
<1>3. Fenced'
    BY BarrierAssumption, Zenon DEF IInv, Handle, Goto, server, CommitsSchema, burrows,
       TypeOK, Mutex, Fenced, StaleRoutingIsFenced, Refreshing, Unread, Mismatch
<1>4. Fresh'
    BY BarrierAssumption DEF IInv, Handle, Goto, server, CommitsSchema, burrows,
       TypeOK, Fresh, Fenced, Mutex, RoutesFresh, StaleRoutingIsFenced, Refreshing,
       Unread, Mismatch
<1>5. Gated'
    BY BarrierAssumption, Zenon DEF IInv, Handle, Goto, server, CommitsSchema, burrows,
       TypeOK, Gated, OpenDDL
<1> QED BY <1>1, <1>2, <1>3, <1>4, <1>5 DEF IInv

\* Taking the gate keeps it.
LEMMA LockFleetWritesIInv == ASSUME IInv, NEW s \in Sessions, LockFleetWrites(s) PROVE IInv'
<1>1. TypeOK'
    BY BarrierAssumption, Zenon DEF IInv, LockFleetWrites, Goto, burrows, TypeOK, Points,
       Messages, Unread, Mismatch, Refreshing
<1>2. Mutex'
    BY BarrierAssumption, Zenon DEF IInv, LockFleetWrites, Goto, burrows, TypeOK, Mutex,
       Refreshing, Unread, Mismatch
<1>3. Fenced'
    BY BarrierAssumption, Zenon DEF IInv, LockFleetWrites, Goto, burrows, TypeOK, Mutex,
       Fenced, StaleRoutingIsFenced, Refreshing, Unread, Mismatch
<1>4. Fresh'
    BY BarrierAssumption, Zenon DEF IInv, LockFleetWrites, Goto, burrows, TypeOK, Fresh,
       Fenced, Mutex, RoutesFresh, StaleRoutingIsFenced, Refreshing, Unread,
       Mismatch
<1>5. Gated'
    BY BarrierAssumption, Zenon DEF IInv, LockFleetWrites, Goto, burrows, TypeOK, Gated, OpenDDL
<1> QED BY <1>1, <1>2, <1>3, <1>4, <1>5 DEF IInv

\* Checking a Tunnel out keeps it.
LEMMA AcquireIInv == ASSUME IInv, NEW s \in Sessions, Acquire(s) PROVE IInv'
<1>1. TypeOK'
    BY BarrierAssumption, Zenon DEF IInv, Acquire, Goto, burrows, TypeOK, Points, Messages,
       Unread, Mismatch, Refreshing
<1>2. Mutex'
    BY BarrierAssumption, Zenon DEF IInv, Acquire, Goto, burrows, TypeOK, Mutex,
       Refreshing, Unread, Mismatch
<1>3. Fenced'
    BY BarrierAssumption, Zenon DEF IInv, Acquire, Goto, burrows, TypeOK, Mutex, Fenced,
       StaleRoutingIsFenced, Refreshing, Unread, Mismatch
<1>4. Fresh'
    BY BarrierAssumption, Zenon DEF IInv, Acquire, Goto, burrows, TypeOK, Fresh, Fenced,
       Mutex, RoutesFresh, StaleRoutingIsFenced, Refreshing, Unread, Mismatch
<1>5. Gated'
    BY BarrierAssumption, Zenon DEF IInv, Acquire, Goto, burrows, TypeOK, Gated, OpenDDL
<1> QED BY <1>1, <1>2, <1>3, <1>4, <1>5 DEF IInv

\* A statement that succeeds keeps it: only a holder of the gate becomes dirty.
LEMMA ExecuteIInv == ASSUME IInv, NEW s \in Sessions, Execute(s) PROVE IInv'
<1>1. TypeOK'
    BY BarrierAssumption, Zenon DEF IInv, Execute, Answered, GateWithout, Goto,
       CommitsSchema, burrows, TypeOK, Points, Messages, Unread, Mismatch,
       Refreshing
<1>2. Mutex'
    BY BarrierAssumption, Zenon DEF IInv, Execute, Answered, GateWithout, Goto,
       CommitsSchema, burrows, TypeOK, Mutex, Refreshing, Unread, Mismatch
<1>3. Fenced'
    BY BarrierAssumption, Zenon DEF IInv, Execute, Answered, GateWithout, Goto,
       CommitsSchema, burrows, TypeOK, Mutex, Fenced, StaleRoutingIsFenced,
       Refreshing, Unread, Mismatch
<1>4. Fresh'
    BY BarrierAssumption DEF IInv, Execute, Answered, GateWithout, Goto,
       CommitsSchema, burrows, TypeOK, Fresh, Fenced, Mutex, RoutesFresh,
       StaleRoutingIsFenced, Refreshing, Unread, Mismatch
<1>5. Gated'
    BY BarrierAssumption DEF IInv, Execute, Answered, GateWithout, Goto,
       CommitsSchema, burrows, TypeOK, Gated, OpenDDL
<1> QED BY <1>1, <1>2, <1>3, <1>4, <1>5 DEF IInv

\* A statement that fails keeps it.
LEMMA ExecuteFailsIInv == ASSUME IInv, NEW s \in Sessions, ExecuteFails(s) PROVE IInv'
<1>1. TypeOK'
    BY BarrierAssumption, Zenon DEF IInv, ExecuteFails, Answered, GateWithout, Goto,
       burrows, TypeOK, Points, Messages, Unread, Mismatch, Refreshing
<1>2. Mutex'
    BY BarrierAssumption, Zenon DEF IInv, ExecuteFails, Answered, GateWithout, Goto,
       burrows, TypeOK, Mutex, Refreshing, Unread, Mismatch
<1>3. Fenced'
    BY BarrierAssumption, Zenon DEF IInv, ExecuteFails, Answered, GateWithout, Goto,
       burrows, TypeOK, Mutex, Fenced, StaleRoutingIsFenced, Refreshing, Unread,
       Mismatch
<1>4. Fresh'
    BY BarrierAssumption DEF IInv, ExecuteFails, Answered, GateWithout, Goto,
       burrows, TypeOK, Fresh, Fenced, Mutex, RoutesFresh, StaleRoutingIsFenced,
       Refreshing, Unread, Mismatch
<1>5. Gated'
    BY BarrierAssumption DEF IInv, ExecuteFails, Answered, GateWithout, Goto,
       burrows, TypeOK, Gated, OpenDDL
<1> QED BY <1>1, <1>2, <1>3, <1>4, <1>5 DEF IInv

\* Fleet DDL ready to commit keeps it.
LEMMA ExecuteFleetDDLIInv == ASSUME IInv, NEW s \in Sessions, ExecuteFleetDDL(s) PROVE IInv'
<1>1. TypeOK'
    BY BarrierAssumption, Zenon DEF IInv, ExecuteFleetDDL, Goto, server, CommitsSchema,
       burrows, TypeOK, Points, Messages, Unread, Mismatch, Refreshing
<1>2. Mutex'
    BY BarrierAssumption, Zenon DEF IInv, ExecuteFleetDDL, Goto, server, CommitsSchema,
       burrows, TypeOK, Mutex, Refreshing, Unread, Mismatch
<1>3. Fenced'
    BY BarrierAssumption, Zenon DEF IInv, ExecuteFleetDDL, Goto, server, CommitsSchema,
       burrows, TypeOK, Mutex, Fenced, StaleRoutingIsFenced, Refreshing, Unread,
       Mismatch
<1>4. Fresh'
    BY BarrierAssumption, Zenon DEF IInv, ExecuteFleetDDL, Goto, server, CommitsSchema,
       burrows, TypeOK, Fresh, Fenced, Mutex, RoutesFresh, StaleRoutingIsFenced,
       Refreshing, Unread, Mismatch
<1>5. Gated'
    BY BarrierAssumption, Zenon DEF IInv, ExecuteFleetDDL, Goto, server, CommitsSchema,
       burrows, TypeOK, Gated, OpenDDL
<1> QED BY <1>1, <1>2, <1>3, <1>4, <1>5 DEF IInv

\* beginSchemaCommit keeps it: the flag goes up with the mutex.
LEMMA BeginSchemaCommitIInv == ASSUME IInv, NEW s \in Sessions, BeginSchemaCommit(s) PROVE IInv'
<1>1. TypeOK'
    BY BarrierAssumption, Zenon DEF IInv, BeginSchemaCommit, Goto, burrows, TypeOK, Points,
       Messages, Unread, Mismatch, Refreshing
<1>2. Mutex'
    BY BarrierAssumption, Zenon DEF IInv, BeginSchemaCommit, Goto, burrows, TypeOK, Mutex,
       Refreshing, Unread, Mismatch
<1>3. Fenced'
    BY BarrierAssumption, Zenon DEF IInv, BeginSchemaCommit, Goto, burrows, TypeOK, Mutex,
       Fenced, StaleRoutingIsFenced, Refreshing, Unread, Mismatch
<1>4. Fresh'
    BY BarrierAssumption, Zenon DEF IInv, BeginSchemaCommit, Goto, burrows, TypeOK, Fresh,
       Fenced, Mutex, RoutesFresh, StaleRoutingIsFenced, Refreshing, Unread,
       Mismatch
<1>5. Gated'
    BY BarrierAssumption, Zenon DEF IInv, BeginSchemaCommit, Goto, burrows, TypeOK, Gated, OpenDDL
<1> QED BY <1>1, <1>2, <1>3, <1>4, <1>5 DEF IInv

\* The physical commit keeps it: it happens under the mutex with the flag up.
LEMMA CommitSchemaIInv == ASSUME IInv, NEW s \in Sessions, CommitSchema(s) PROVE IInv'
<1>1. TypeOK'
    BY BarrierAssumption DEF IInv, CommitSchema, Answered, GateWithout, Goto,
       Applied, burrows, TypeOK, Points, Messages, Unread, Mismatch, Refreshing
<1>2. Mutex'
    BY BarrierAssumption DEF IInv, CommitSchema, Answered, GateWithout, Goto,
       Applied, burrows, TypeOK, Mutex, Refreshing, Unread, Mismatch
<1>3. Fenced'
    BY BarrierAssumption DEF IInv, CommitSchema, Answered, GateWithout, Goto,
       Applied, burrows, TypeOK, Mutex, Fenced, StaleRoutingIsFenced, Refreshing,
       Unread, Mismatch
<1>4. Fresh'
    BY BarrierAssumption DEF IInv, CommitSchema, Answered, GateWithout, Goto,
       Applied, burrows, TypeOK, Fresh, Fenced, Mutex, RoutesFresh,
       StaleRoutingIsFenced, Refreshing, Unread, Mismatch
<1>5. Gated'
    BY BarrierAssumption DEF IInv, CommitSchema, Answered, GateWithout, Goto,
       Applied, burrows, TypeOK, Gated, OpenDDL
<1> QED BY <1>1, <1>2, <1>3, <1>4, <1>5 DEF IInv

\* So does a commit that fails or is left in doubt.
LEMMA CommitSchemaFailsIInv == ASSUME IInv, NEW s \in Sessions, CommitSchemaFails(s) PROVE IInv'
<1>0. PICK held \in {transaction[s], FALSE} :
        transaction' = [transaction EXCEPT ![s] = held] /\ Answered(s, held)
    BY Zenon DEF CommitSchemaFails
<1>1. TypeOK'
  <2>1. held \in BOOLEAN
    BY DEF IInv, TypeOK
  <2>2. transaction' \in [Sessions -> BOOLEAN]
    BY <1>0, <2>1 DEF IInv, TypeOK
  <2>3. fleet' \in Nat /\ doubt' \in {"none", "unapplied", "split"}
    BY BarrierAssumption DEF IInv, CommitSchemaFails, Applied, TypeOK
  <2> QED
    BY <1>0, <2>2, <2>3, BarrierAssumption, Zenon DEF IInv, CommitSchemaFails, Answered, GateWithout,
       Goto, burrows, TypeOK, Points, Messages
<1>2. Mutex'
    BY BarrierAssumption, Zenon DEF IInv, CommitSchemaFails, Answered, GateWithout, Goto,
       Applied, burrows, TypeOK, Mutex, Refreshing, Unread, Mismatch
<1>3. Fenced'
    BY BarrierAssumption DEF IInv, CommitSchemaFails, Answered, GateWithout, Goto,
       Applied, burrows, TypeOK, Mutex, Fenced, StaleRoutingIsFenced, Refreshing,
       Unread, Mismatch
<1>4. Fresh'
    BY BarrierAssumption DEF IInv, CommitSchemaFails, Answered, GateWithout, Goto,
       Applied, burrows, TypeOK, Fresh, Fenced, Mutex, RoutesFresh,
       StaleRoutingIsFenced, Refreshing, Unread, Mismatch
<1>5. Gated'
    BY <1>0, BarrierAssumption, Zenon DEF IInv, CommitSchemaFails, Answered, GateWithout, Goto,
       TypeOK, Gated, OpenDDL
<1> QED BY <1>1, <1>2, <1>3, <1>4, <1>5 DEF IInv

\* A disconnecting frontend keeps it: the flag outlives the session.
LEMMA DisconnectIInv == ASSUME IInv, NEW s \in Sessions, Disconnect(s) PROVE IInv'
<1>1. TypeOK'
    BY BarrierAssumption, Zenon DEF IInv, Disconnect, Answered, GateWithout, Goto, burrows,
       TypeOK, Points, Messages, Unread, Mismatch, Refreshing
<1>2. Mutex'
    BY BarrierAssumption, Zenon DEF IInv, Disconnect, Answered, GateWithout, Goto, burrows,
       TypeOK, Mutex, Refreshing, Unread, Mismatch
<1>3. Fenced'
    BY BarrierAssumption, Zenon DEF IInv, Disconnect, Answered, GateWithout, Goto, burrows,
       TypeOK, Mutex, Fenced, StaleRoutingIsFenced, Refreshing, Unread, Mismatch
<1>4. Fresh'
    BY BarrierAssumption DEF IInv, Disconnect, Answered, GateWithout, Goto, burrows,
       TypeOK, Fresh, Fenced, Mutex, RoutesFresh, StaleRoutingIsFenced, Refreshing,
       Unread, Mismatch
<1>5. Gated'
    BY BarrierAssumption, Zenon DEF IInv, Disconnect, Answered, GateWithout, Goto, burrows,
       TypeOK, Gated, OpenDDL
<1> QED BY <1>1, <1>2, <1>3, <1>4, <1>5 DEF IInv

\* An operator who resolves prepared DDL keeps it.
LEMMA OperatorResolvesIInv == ASSUME IInv, OperatorResolves PROVE IInv'
<1>a. UNCHANGED <<schemaRefreshPending, schemaRefreshMu, fleetWriteGate, routing, tunnels,
                  pc, message, transaction, schemaDirty, loaded, arrived>>
    BY Zenon DEF OperatorResolves, server, session
<1>b. /\ doubt' = "none"
      /\ fleet' = fleet \/ fleet' = fleet + 1
    BY Zenon DEF OperatorResolves
<1>d. outOfBand' \in BOOLEAN
    BY Zenon DEF IInv, TypeOK, OperatorResolves
<1>c. /\ outOfBand => outOfBand'
      /\ ~outOfBand' => fleet' = fleet \/ doubt = "split"
  <2>1. doubt = "unapplied" \/ doubt = "split"
    BY Zenon DEF IInv, TypeOK, OperatorResolves
  <2>2. CASE outOfBand' = (outOfBand \/ doubt = "unapplied")
    BY <2>1, <2>2, Zenon
  <2>3. CASE UNCHANGED <<fleet, outOfBand>>
    BY <2>3, Zenon
  <2> QED BY <2>2, <2>3, Zenon DEF OperatorResolves
<1>1. TypeOK'
    BY <1>a, <1>b, <1>c, <1>d DEF IInv, TypeOK, Points, Messages, Unread, Mismatch,
       Refreshing
<1>2. Mutex'
    BY <1>a, <1>b, <1>c, <1>d, Zenon DEF IInv, TypeOK, Mutex, Refreshing, Unread, Mismatch
<1>3. Fenced'
    BY <1>a, <1>b, <1>c, <1>d DEF IInv, TypeOK, Mutex, Fenced, StaleRoutingIsFenced,
       Refreshing, Unread, Mismatch
<1>4. Fresh'
    BY <1>a, <1>b, <1>c, <1>d DEF IInv, TypeOK, Fresh, Fenced, Mutex, RoutesFresh,
       StaleRoutingIsFenced, Refreshing, Unread, Mismatch
<1>5. Gated'
    BY <1>a, <1>b, <1>c, <1>d, Zenon DEF IInv, TypeOK, Gated, OpenDDL
<1> QED BY <1>1, <1>2, <1>3, <1>4, <1>5, Zenon DEF IInv

\* The initial states satisfy the invariant.
LEMMA InitIInv == Init => IInv
<1> SUFFICES ASSUME Init PROVE IInv
    BY Zenon
<1>1. TypeOK
    BY Zenon DEF Init, TypeOK, Points
<1>2. Mutex
    BY BarrierAssumption, Zenon DEF Init, Mutex, Refreshing
<1>3. Fenced /\ Fresh
    BY DEF Init, Fenced, Fresh, StaleRoutingIsFenced, RoutesFresh, Unread
<1>4. Gated
    BY Zenon DEF Init, Gated, OpenDDL
<1> QED BY <1>1, <1>2, <1>3, <1>4, Zenon DEF IInv

\* A step that changes nothing keeps the invariant.
LEMMA StutterIInv == IInv /\ UNCHANGED vars => IInv'
<1> SUFFICES ASSUME IInv, UNCHANGED vars PROVE IInv'
    BY Zenon
<1>1. /\ UNCHANGED <<schemaRefreshPending, schemaRefreshMu, fleetWriteGate, routing, tunnels>>
      /\ UNCHANGED <<fleet, doubt, outOfBand>>
      /\ UNCHANGED <<pc, message, transaction, schemaDirty, loaded, arrived>>
    BY Zenon DEF vars, server, burrows, session
<1> QED BY <1>1, Zenon DEF IInv, TypeOK, Mutex, Fenced, Fresh, Gated,
       StaleRoutingIsFenced, RoutesFresh, OpenDDL

\* Every step keeps the invariant.
LEMMA NextIInv == IInv /\ [Next]_vars => IInv'
<1> SUFFICES ASSUME IInv, Next PROVE IInv'
    BY StutterIInv, Zenon
<1>1. ASSUME NEW s \in Sessions, Step(s) \/ Disconnect(s) PROVE IInv'
  <2>1. CASE LockRefresh(s)
    BY <2>1, LockRefreshIInv, Zenon
  <2>2. CASE LoadSchema(s)
    BY <2>2, LoadSchemaIInv
  <2>3. CASE FinishRefresh(s)
    BY <2>3, FinishRefreshIInv
  <2>4. CASE FailRefresh(s)
    BY <2>4, FailRefreshIInv
  <2>5. CASE Handle(s)
    BY <2>5, HandleIInv
  <2>6. CASE LockFleetWrites(s)
    BY <2>6, LockFleetWritesIInv
  <2>7. CASE Acquire(s)
    BY <2>7, AcquireIInv
  <2>8. CASE Execute(s)
    BY <2>8, ExecuteIInv
  <2>9. CASE ExecuteFails(s)
    BY <2>9, ExecuteFailsIInv
  <2>10. CASE ExecuteFleetDDL(s)
    BY <2>10, ExecuteFleetDDLIInv
  <2>11. CASE BeginSchemaCommit(s)
    BY <2>11, BeginSchemaCommitIInv
  <2>12. CASE CommitSchema(s)
    BY <2>12, CommitSchemaIInv
  <2>13. CASE CommitSchemaFails(s)
    BY <2>13, CommitSchemaFailsIInv
  <2>14. CASE Disconnect(s)
    BY <2>14, DisconnectIInv
  <2> QED BY <1>1, <2>1, <2>2, <2>3, <2>4, <2>5, <2>6, <2>7, <2>8, <2>9, <2>10, <2>11, <2>12, <2>13, <2>14, Zenon DEF Step
<1>2. ASSUME NEW s \in Sessions, NEW m \in Messages, Receive(s, m) PROVE IInv'
    BY <1>2, ReceiveIInv, Zenon
<1>3. CASE OperatorResolves
    BY <1>3, OperatorResolvesIInv, Zenon
<1> QED BY <1>1, <1>2, <1>3, Zenon DEF Next

-----------------------------------------------------------------------------
\* The mutex, the flag, the versions read and the gate fit together at all times.
THEOREM Invariance == Spec => []IInv
    BY InitIInv, NextIInv, PTL DEF Spec

\* The Proxy never routes by an outdated registry without knowing it: the flag
\* raised by beginSchemaCommit stays up until a refresh has caught up.
THEOREM Fencing == Spec => []StaleRoutingIsFenced
<1>1. IInv => StaleRoutingIsFenced
    BY Zenon DEF IInv, Fenced
<1> QED BY <1>1, Invariance, PTL

\* Every message is routed by a schema at least as new as the one committed when
\* it passed the barrier of serveQueries.
THEOREM Freshness == Spec => []RoutesFresh
<1>1. IInv => RoutesFresh
    BY Zenon DEF IInv, Fresh
<1> QED BY <1>1, Invariance, PTL

\* LockFleetWrites serialises fleet DDL, transactional or not.
THEOREM Serialization == Spec => []FleetDDLIsSerial
<1>1. IInv => FleetDDLIsSerial
    BY Zenon DEF IInv, Gated, FleetDDLIsSerial
<1> QED BY <1>1, Invariance, PTL
=============================================================================
