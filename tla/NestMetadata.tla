---------------------------- MODULE NestMetadata ----------------------------
(***************************************************************************)
(* The two records Hamstergres Nest keeps for a fleet, and the Proxies     *)
(* that share them: the schema registry (internal/nest/registry.go, plain  *)
(* get and put), the topology catalog (internal/nest/topology.go,          *)
(* compare-and-swap) and the two procedures of internal/backend/backend.go *)
(* that use both, New and RefreshSchema.                                   *)
(*                                                                         *)
(* A schema is a set of tables, those in Sharded with a shard key.  A      *)
(* placement, one complete vshard owner map, is named by where it came     *)
(* from and the Burrows it spans.  Every write of the catalog advances its *)
(* revision by one, so the revision also stands for etcd's mod_revision.   *)
(* What happens inside a Proxy while it refreshes is SchemaBarrier's.      *)
(***************************************************************************)
EXTENDS Integers, FiniteSets, Functions

CONSTANTS
    Proxies,
    Tables, Sharded,    \* tables DDL creates and drops; those with a shard key
    Configured,         \* the Burrows in each Proxy's configuration
    PrimaryBurrow,      \* sharding.unsharded.primary_burrow
    LegacyBurrows,      \* Burrows of the owner map a v3 registry holds
    Faults,             \* what may fail: requests to Nest, Proxy processes
    MaxDDL, MaxMoves, MaxFaults    \* bounds on those events

ASSUME NestAssumption ==
    /\ Sharded \subseteq Tables
    /\ DOMAIN Configured = Proxies
    /\ Faults \subseteq {"nest", "crash"}
    /\ {MaxDDL, MaxMoves, MaxFaults} \subseteq Nat

MaxAttempts == 3

VARIABLES
    registry,       \* Nest: the schema registry record
    topology,       \* Nest: the topology catalog record
    fleet,          \* the tables the Burrows have
    pc,             \* per Proxy: where New or RefreshSchema is
    local,          \* per Proxy: what it has read there
    schema, placed, \* per Proxy: Manager.schema and its vshard owners
    pending,        \* per Proxy: schemaRefreshPending
    ddls, moves, faults,    \* how often each has happened
    refused,        \* history: a Proxy did not start over its schema
    origin          \* history: the registry Nest held at first

nest == <<registry, topology>>
routing == <<schema, placed>>
manager == <<pc, local, routing, pending>>
events == <<ddls, moves, faults, origin>>
vars == <<nest, fleet, manager, events, refused>>

Modulo(p) == [kind |-> "modulo", burrows |-> Configured[p]]
Legacy == [kind |-> "legacy", burrows |-> LegacyBurrows]
Moved == [kind |-> "moved", burrows |-> LegacyBurrows]
Nowhere == [kind |-> "none", burrows |-> {}]

NoRegistry == [found |-> FALSE, revision |-> 0, tables |-> {}, owners |-> Nowhere]
NoTopology == [found |-> FALSE, revision |-> 0, burrows |-> {}, schemaRevision |-> 0,
               fingerprint |-> {}, bootstrap |-> Nowhere, placed |-> <<>>]

\* The variables of New and RefreshSchema: the live tables, the schema revision,
\* the catalog read, the owner map of a v3 registry, and conflicts met.
Nothing == [tables |-> {}, revision |-> 0, seen |-> NoTopology, imported |-> Nowhere, attempts |-> 0]

Init ==
    /\ fleet \in {{}, Sharded}
    /\ registry \in {NoRegistry,
                     [found |-> TRUE, revision |-> 1, tables |-> fleet, owners |-> Legacy]}
    /\ topology = NoTopology
    /\ pc = [p \in Proxies |-> "down"]
    /\ local = [p \in Proxies |-> Nothing]
    /\ schema = [p \in Proxies |-> {}] /\ placed = [p \in Proxies |-> <<>>]
    /\ pending = [p \in Proxies |-> FALSE]
    /\ ddls = 0 /\ moves = 0 /\ faults = 0
    /\ refused = FALSE /\ origin = registry

Goto(p, point) == pc' = [pc EXCEPT ![p] = point]
Set(f, p, v) == [f EXCEPT ![p] = v]

\* New or RefreshSchema returns.
Return(p, point) == Goto(p, point) /\ local' = Set(local, p, Nothing)

\* Fingerprint covers what decides placement; EqualSchema the whole registry.
Fingerprint(tables) == tables \cap Sharded

\* Catalog.ValidateSchema, for a Proxy with this registry.
ValidateSchema(catalog, rev, tables) ==
    /\ rev >= catalog.schemaRevision
    /\ Fingerprint(tables) = catalog.fingerprint
    /\ DOMAIN catalog.placed = Fingerprint(tables)

\* Catalog.ValidateConfigured and retainActiveBurrows.
ValidateConfigured(catalog, p) == catalog.burrows \subseteq Configured[p]

\* RegistryStore.put: the value replaces whatever is there, without owners.
Record(p) ==
    [found |-> TRUE, revision |-> local[p].revision, tables |-> local[p].tables, owners |-> Nowhere]

-----------------------------------------------------------------------------
(* backend.New *)

\* The first read of the topology, before anything else.
StartTopology(p) ==
    /\ pc[p] = "down"
    /\ topology.found => ValidateConfigured(topology, p)
    /\ local' = [local EXCEPT ![p].seen = topology]
    /\ Goto(p, "load")
    /\ UNCHANGED <<nest, fleet, routing, pending, events, refused>>

StartLoadSchema(p) ==
    /\ pc[p] = "load"
    /\ local' = [local EXCEPT ![p].tables = fleet]
    /\ Goto(p, "verify")
    /\ UNCHANGED <<nest, fleet, routing, pending, events, refused>>

\* After the registry is accepted the topology is created if there was none.
Accepted(p) == IF local[p].seen.found THEN "validate" ELSE "bootstrap"

\* Mutant: the owner map of a v3 registry is ignored.
VerifyRegistryDropsOwners(p) ==
    /\ pc[p] = "verify"
    /\ IF registry.found /\ registry.tables # local[p].tables
         THEN Return(p, "down") /\ refused' = TRUE
         ELSE /\ local' = [local EXCEPT ![p].revision = IF registry.found THEN registry.revision ELSE 1]
              /\ Goto(p, IF registry.found THEN Accepted(p) ELSE "seed")
              /\ UNCHANGED refused
    /\ UNCHANGED <<nest, fleet, routing, pending, events>>

\* VerifyOrSeedVersioned: its get, which also brings the owner map of a v3 registry.
VerifyRegistry(p) ==
    /\ pc[p] = "verify"
    /\ IF registry.found /\ registry.tables # local[p].tables
         THEN Return(p, "down") /\ refused' = TRUE
         ELSE /\ local' = [local EXCEPT ![p].imported = registry.owners,
                                        ![p].revision = IF registry.found THEN registry.revision ELSE 1]
              /\ Goto(p, IF registry.found THEN Accepted(p) ELSE "seed")
              /\ UNCHANGED refused
    /\ UNCHANGED <<nest, fleet, routing, pending, events>>

\* VerifyOrSeedVersioned: its put, for a Nest that was empty.
SeedRegistry(p) ==
    /\ pc[p] = "seed"
    /\ registry' = Record(p)
    /\ Goto(p, Accepted(p))
    /\ UNCHANGED <<topology, fleet, local, routing, pending, events, refused>>

\* VerifyOrBootstrap looks again; Bootstrap refuses owners it does not know.
BootstrapTopology(p) ==
    /\ pc[p] = "bootstrap"
    /\ IF local[p].imported.burrows \subseteq Configured[p]
         THEN /\ local' = [local EXCEPT ![p].seen = topology]
              /\ Goto(p, IF topology.found THEN "validate" ELSE "create")
         ELSE Return(p, "down")
    /\ UNCHANGED <<nest, fleet, routing, pending, events, refused>>

\* Bootstrap: the catalog a Proxy proposes, with the imported owner map if any.
Bootstrap(p) ==
    LET sharded == Fingerprint(local[p].tables)
        owners == IF local[p].imported = Nowhere THEN Modulo(p) ELSE local[p].imported
    IN  [found |-> TRUE, revision |-> 1, burrows |-> Configured[p],
         schemaRevision |-> local[p].revision, fingerprint |-> sharded,
         bootstrap |-> owners, placed |-> [t \in sharded |-> owners]]

\* Mutant: the catalog is put without a compare.
CreateTopologyBlindly(p) ==
    /\ pc[p] = "create"
    /\ topology' = Bootstrap(p)
    /\ Goto(p, "fetch")
    /\ UNCHANGED <<registry, fleet, local, routing, pending, events, refused>>

\* compareAndSwap on a key that must not exist, then the catalog is read back,
\* whether this Proxy created it or lost to another.
CreateTopology(p) ==
    /\ pc[p] = "create"
    /\ topology' = IF topology.found THEN topology ELSE Bootstrap(p)
    /\ Goto(p, "fetch")
    /\ UNCHANGED <<registry, fleet, local, routing, pending, events, refused>>

FetchTopology(p) ==
    /\ pc[p] = "fetch"
    /\ local' = [local EXCEPT ![p].seen = topology]
    /\ Goto(p, "validate")
    /\ UNCHANGED <<nest, fleet, routing, pending, events, refused>>

\* What New checks last: the primary Burrow must be routable.
Ready(p) ==
    IF PrimaryBurrow \in local[p].seen.burrows
      THEN /\ schema' = Set(schema, p, local[p].tables)
           /\ placed' = Set(placed, p, local[p].seen.placed)
           /\ Return(p, "running")
      ELSE Return(p, "down") /\ UNCHANGED routing

\* The topology read is checked against the accepted schema and adopted.
ValidateTopology(p) ==
    /\ pc[p] = "validate"
    /\ LET catalog == local[p].seen
           valid == ValidateSchema(catalog, local[p].revision, local[p].tables)
       IN  /\ refused' = (refused \/ ~valid)
           /\ \/ ~(valid /\ ValidateConfigured(catalog, p)) /\ Return(p, "down") /\ UNCHANGED routing
              \/ /\ valid /\ ValidateConfigured(catalog, p)
                 /\ IF local[p].imported = Nowhere
                      THEN Ready(p)
                      ELSE Goto(p, "persist") /\ UNCHANGED <<local, routing>>
    /\ UNCHANGED <<nest, fleet, pending, events>>

\* PersistVerified: the imported owner map leaves the registry.
PersistRegistry(p) ==
    /\ pc[p] = "persist"
    /\ registry' = Record(p)
    /\ Ready(p)
    /\ UNCHANGED <<topology, fleet, pending, events, refused>>

-----------------------------------------------------------------------------
(* RefreshSchema *)

\* DDL commits on every Burrow through this Proxy, which is not refreshing then.
CommitDDL(p, t) ==
    /\ pc[p] = "running"
    /\ ddls < MaxDDL
    /\ fleet' = IF t \in fleet THEN fleet \ {t} ELSE fleet \cup {t}
    /\ pending' = Set(pending, p, TRUE)
    /\ ddls' = ddls + 1
    /\ UNCHANGED <<nest, pc, local, routing, moves, faults, refused, origin>>

\* loadSchema; a schema equal to the one routed by ends the refresh there.
LoadSchema(p) ==
    /\ pc[p] = "running"
    /\ pending[p]
    /\ IF fleet = schema[p]
         THEN pending' = Set(pending, p, FALSE) /\ UNCHANGED <<pc, local>>
         ELSE /\ local' = [local EXCEPT ![p].tables = fleet]
              /\ Goto(p, "replace")
              /\ UNCHANGED pending
    /\ UNCHANGED <<nest, fleet, routing, events, refused>>

\* ReplaceVersioned: its get.
GetRegistry(p) ==
    /\ pc[p] = "replace"
    /\ LET same == registry.found /\ registry.tables = local[p].tables
       IN  /\ local' = [local EXCEPT ![p].revision =
                          IF same THEN registry.revision ELSE registry.revision + 1]
           /\ Goto(p, IF same THEN "reconcile" ELSE "put")
    /\ UNCHANGED <<nest, fleet, routing, pending, events, refused>>

\* ReplaceVersioned: its put.
PutRegistry(p) ==
    /\ pc[p] = "put"
    /\ registry' = Record(p)
    /\ Goto(p, "reconcile")
    /\ UNCHANGED <<topology, fleet, local, routing, pending, events, refused>>

\* ReconcileSchema: an attempt reads the catalog.
ReadTopology(p) ==
    /\ pc[p] = "reconcile"
    /\ topology.found
    /\ local' = [local EXCEPT ![p].seen = topology]
    /\ Goto(p, "swap")
    /\ UNCHANGED <<nest, fleet, routing, pending, events, refused>>

\* The catalog it proposes: tables that are gone lose their placement, new ones
\* get the bootstrap distribution, and the others keep theirs.
Reconciled(p) ==
    [local[p].seen EXCEPT
        !.revision = @ + 1,
        !.schemaRevision = local[p].revision,
        !.fingerprint = Fingerprint(local[p].tables),
        !.placed = [t \in Fingerprint(local[p].tables) |->
                      IF t \in DOMAIN @ THEN @[t] ELSE local[p].seen.bootstrap]]

\* Mutant: the catalog is put without a compare.
SwapTopologyBlindly(p) ==
    /\ pc[p] = "swap"
    /\ topology' = Reconciled(p) /\ Goto(p, "adopt")
    /\ UNCHANGED <<registry, fleet, local, routing, pending, events, refused>>

\* compareAndSwap on the revision read; a conflict starts the next attempt.
SwapTopology(p) ==
    /\ pc[p] = "swap"
    /\ IF topology.revision = local[p].seen.revision
         THEN topology' = Reconciled(p) /\ Goto(p, "adopt") /\ UNCHANGED local
         ELSE /\ IF local[p].attempts + 1 < MaxAttempts
                   THEN local' = [local EXCEPT ![p].attempts = @ + 1] /\ Goto(p, "reconcile")
                   ELSE Return(p, "running")
              /\ UNCHANGED topology
    /\ UNCHANGED <<registry, fleet, routing, pending, events, refused>>

\* Mutant: the catalog read back is not validated.
AdoptTopologyUnchecked(p) ==
    /\ pc[p] = "adopt"
    /\ Return(p, "running")
    /\ schema' = Set(schema, p, local[p].tables)
    /\ placed' = Set(placed, p, topology.placed)
    /\ pending' = Set(pending, p, FALSE)
    /\ UNCHANGED <<nest, fleet, events, refused>>

\* Update reads the catalog back, RefreshSchema validates what it got and routes
\* by it; an incompatible catalog fails the refresh.
AdoptTopology(p) ==
    /\ pc[p] = "adopt"
    /\ Return(p, "running")
    /\ IF ValidateSchema(topology, local[p].revision, local[p].tables)
         THEN /\ schema' = Set(schema, p, local[p].tables)
              /\ placed' = Set(placed, p, topology.placed)
              /\ pending' = Set(pending, p, FALSE)
         ELSE UNCHANGED <<routing, pending>>
    /\ UNCHANGED <<nest, fleet, events, refused>>

-----------------------------------------------------------------------------

Refreshing == {"replace", "put", "reconcile", "swap", "adopt"}

\* A request to Nest fails: the refresh ends and stays pending, the start fails.
\* A put whose answer is lost is a put followed by this.
NestFails(p) ==
    /\ pc[p] \notin {"down", "running"}
    /\ "nest" \in Faults /\ faults < MaxFaults
    /\ faults' = faults + 1
    /\ Return(p, IF pc[p] \in Refreshing THEN "running" ELSE "down")
    /\ UNCHANGED <<nest, fleet, routing, pending, ddls, moves, refused, origin>>

Leave(p) ==
    /\ Return(p, "down")
    /\ schema' = Set(schema, p, {}) /\ placed' = Set(placed, p, <<>>)
    /\ pending' = Set(pending, p, FALSE)
    /\ UNCHANGED <<nest, fleet, ddls, moves, refused, origin>>

\* The process is stopped between two DDL statements.
Stop(p) == pc[p] = "running" /\ ~pending[p] /\ Leave(p) /\ UNCHANGED faults

\* The process dies at any point.
Crash(p) ==
    /\ pc[p] # "down"
    /\ "crash" \in Faults /\ faults < MaxFaults
    /\ faults' = faults + 1
    /\ Leave(p)

\* An administrator moves a table to a distribution of its own with
\* TopologyStore.Update, which ValidateTransition allows.
MoveTable(t) ==
    /\ moves < MaxMoves
    /\ topology.found /\ t \in DOMAIN topology.placed
    /\ topology' = [topology EXCEPT !.revision = @ + 1, !.placed[t] = Moved]
    /\ moves' = moves + 1
    /\ UNCHANGED <<registry, fleet, manager, ddls, faults, refused, origin>>

Start(p) ==
    \/ StartTopology(p) \/ StartLoadSchema(p) \/ VerifyRegistry(p) \/ SeedRegistry(p)
    \/ BootstrapTopology(p) \/ CreateTopology(p) \/ FetchTopology(p)
    \/ ValidateTopology(p) \/ PersistRegistry(p)

Refresh(p) ==
    \/ LoadSchema(p) \/ GetRegistry(p) \/ PutRegistry(p) \/ ReadTopology(p)
    \/ SwapTopology(p) \/ AdoptTopology(p)

Next ==
    \/ \E p \in Proxies : \/ Start(p) \/ Refresh(p) \/ NestFails(p) \/ Stop(p) \/ Crash(p)
                          \/ \E t \in Tables : CommitDDL(p, t)
    \/ \E t \in Tables : MoveTable(t)

Spec == Init /\ [][Next]_vars

-----------------------------------------------------------------------------
(* Properties *)

Serving(p) == pc[p] \in Refreshing \cup {"running"}

\* Two Proxies that serve queries never place a vshard of the same table on
\* different Burrows: whoever bootstrapped first, with whatever configuration,
\* and whatever schema changes crossed since (moves by an administrator apart).
PlacementAgreement ==
    moves = 0 => \A p, q \in Proxies : Serving(p) /\ Serving(q) =>
        \A t \in DOMAIN placed[p] \cap DOMAIN placed[q] : placed[p][t] = placed[q][t]

\* A Proxy that serves queries has a placement for exactly the sharded tables it
\* knows of, whatever catalog it read back in between.
ServesWhatItKnows ==
    \A p \in Proxies : Serving(p) => DOMAIN placed[p] = Fingerprint(schema[p])

\* An owner map found in a v3 registry is never lost: it stays in the registry
\* until the topology has taken it over, and no crash or race between Proxies
\* that import it puts the modulo placement in its place.
LegacyPlacementSurvives ==
    origin.owners = Legacy =>
        IF topology.found THEN topology.bootstrap = Legacy ELSE registry.owners = Legacy

\* No write of the catalog loses another: a reconciliation that crosses an
\* administrator's move leaves every placement as it was published last.
NothingOverwritten ==
    [][ topology.found =>
          /\ topology'.revision \in {topology.revision, topology.revision + 1}
          /\ topology'.bootstrap = topology.bootstrap
          /\ moves' = moves =>
               \A t \in DOMAIN topology.placed \cap DOMAIN topology'.placed :
                  topology'.placed[t] = topology.placed[t] ]_vars

\* A start is not refused over the schema when all DDL went through Proxies.
StartupAccepted == ~refused

\* A schema revision names one schema and only grows.
MonotonicRevision ==
    [][ /\ registry'.revision >= registry.revision
        /\ registry.found /\ registry'.tables # registry.tables =>
             registry'.revision > registry.revision ]_vars
-----------------------------------------------------------------------------
(* The inductive invariant behind the properties of the catalog.           *)

Placements == {Modulo(p) : p \in Proxies} \cup {Legacy, Moved, Nowhere}

Placings == UNION {[S -> Placements] : S \in SUBSET Sharded}

Catalogs ==
    [found : BOOLEAN, revision : Nat, burrows : SUBSET UNION {Configured[p] : p \in Proxies},
     schemaRevision : Nat, fingerprint : SUBSET Sharded, bootstrap : Placements,
     placed : Placings]

Registries ==
    [found : BOOLEAN, revision : Nat, tables : SUBSET Tables, owners : {Legacy, Nowhere}]

Points ==
    {"down", "load", "verify", "seed", "bootstrap", "create", "fetch", "validate", "persist",
     "running"} \cup Refreshing

Locals ==
    [tables : SUBSET Tables, revision : Nat, seen : Catalogs, imported : {Legacy, Nowhere},
     attempts : Nat]

TypeOK ==
    /\ registry \in Registries /\ origin \in Registries /\ topology \in Catalogs
    /\ fleet \in SUBSET Tables
    /\ pc \in [Proxies -> Points] /\ local \in [Proxies -> Locals]
    /\ schema \in [Proxies -> SUBSET Tables] /\ placed \in [Proxies -> Placings]
    /\ pending \in [Proxies -> BOOLEAN]
    /\ {ddls, moves, faults} \subseteq Nat
    /\ refused \in BOOLEAN

\* Until an administrator moves a table, every table is where the bootstrap
\* distribution puts it, in each copy of the catalog.
AsBootstrapped(placements, owners) ==
    moves = 0 => \A t \in DOMAIN placements : placements[t] = owners

\* A catalog a Proxy has read is the one in Nest or an earlier one with the same
\* bootstrap distribution.
PastRead(catalog) ==
    /\ AsBootstrapped(catalog.placed, catalog.bootstrap)
    /\ catalog.found => /\ topology.found
                        /\ catalog.bootstrap = topology.bootstrap
                        /\ catalog.revision <= topology.revision
                        /\ catalog.revision = topology.revision => catalog = topology

\* What New and RefreshSchema have got hold of by the time they reach a point.
Reached(p) ==
    /\ pc[p] = "fetch" => topology.found
    /\ pc[p] \in {"validate", "persist", "swap"} => local[p].seen.found
    /\ pc[p] = "persist" => DOMAIN local[p].seen.placed = Fingerprint(local[p].tables)
    /\ Serving(p) => /\ topology.found
                     /\ AsBootstrapped(placed[p], topology.bootstrap)
                     /\ DOMAIN placed[p] = Fingerprint(schema[p])

\* While there is no catalog, whoever may create it holds the owner map of the
\* v3 registry.
Inherits(p) ==
    origin.owners = Legacy =>
        /\ pc[p] # "seed"
        /\ pc[p] \in {"bootstrap", "create"} => topology.found \/ local[p].imported = Legacy

Own(p) == PastRead(local[p].seen) /\ Reached(p) /\ Inherits(p)

IInv ==
    /\ TypeOK
    /\ AsBootstrapped(topology.placed, topology.bootstrap)
    /\ origin.owners = Legacy => registry.found
    /\ LegacyPlacementSurvives
    /\ \A p \in Proxies : Own(p)
=============================================================================
