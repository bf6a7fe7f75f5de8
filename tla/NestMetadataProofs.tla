------------------------- MODULE NestMetadataProofs -------------------------
(***************************************************************************)
(* Proofs about NestMetadata, for any number of Proxies with whatever      *)
(* configurations, any tables, and any number of DDL statements, moves,    *)
(* failed requests and crashes.                                            *)
(***************************************************************************)
EXTENDS NestMetadata, TLAPS

\* A v3 owner map is told from no owner map.
LEMMA LegacyIsSomewhere == Legacy # Nowhere
BY Zenon DEF Legacy, Nowhere

\* A placement of no table.
LEMMA EmptyPlacing == <<>> \in Placings /\ DOMAIN <<>> = {}
<1>1. <<>> \in [{} -> Placements] /\ DOMAIN <<>> = {}
    OBVIOUS
<1> QED BY <1>1, Zenon DEF Placings

\* No catalog is a catalog record.
LEMMA NoTopologyType == NoTopology \in Catalogs
<1>1. Nowhere \in Placements
    BY Zenon DEF Placements
<1>2. <<>> \in Placings
    BY EmptyPlacing, Zenon DEF Placings
<1> HIDE DEF Placements, Nowhere
<1> QED BY <1>1, <1>2, Zenon DEF NoTopology, Catalogs

\* The local variables start well typed.
LEMMA NothingType == Nothing \in Locals
BY NoTopologyType, Zenon DEF Nothing, Locals

\* The initial states satisfy the inductive invariant.
LEMMA InitIInv == Init => IInv
<1> SUFFICES ASSUME Init PROVE IInv
    BY Zenon
<1> USE DEF Init
<1>1. registry \in Registries /\ origin \in Registries
  <2>1. fleet \in SUBSET Tables
    BY NestAssumption, Zenon
  <2>2. NoRegistry \in Registries
    BY Zenon DEF NoRegistry, Registries
  <2>3. [found |-> TRUE, revision |-> 1, tables |-> fleet, owners |-> Legacy] \in Registries
    BY <2>1, Zenon DEF Registries
  <2> QED BY <2>2, <2>3, Zenon
<1>2. TypeOK
  <2>1. pc \in [Proxies -> Points]
    BY Zenon DEF Points
  <2>2. local \in [Proxies -> Locals] /\ topology \in Catalogs
    BY NothingType, NoTopologyType, Zenon
  <2>3. placed \in [Proxies -> Placings] /\ fleet \in SUBSET Tables
    BY EmptyPlacing, NestAssumption, Zenon
  <2>4. /\ schema = [p \in Proxies |-> {}] /\ pending = [p \in Proxies |-> FALSE]
        /\ ddls = 0 /\ moves = 0 /\ faults = 0 /\ refused = FALSE
    BY Zenon
  <2> HIDE DEF Init
  <2>5. schema \in [Proxies -> SUBSET Tables]
    BY <2>4, Zenon
  <2>6. pending \in [Proxies -> BOOLEAN] /\ refused \in BOOLEAN
    BY <2>4, Zenon
  <2>7. {ddls, moves, faults} \subseteq Nat
    BY <2>4
  <2> QED BY <1>1, <2>1, <2>2, <2>3, <2>5, <2>6, <2>7, Zenon DEF TypeOK, Points, Locals, Placings
<1>3. AsBootstrapped(topology.placed, topology.bootstrap)
    BY EmptyPlacing, Zenon DEF AsBootstrapped, NoTopology
<1>4. (origin.owners = Legacy => registry.found) /\ LegacyPlacementSurvives
    BY LegacyIsSomewhere DEF LegacyPlacementSurvives, NoRegistry, NoTopology
<1>5. ASSUME NEW p \in Proxies PROVE Own(p)
  <2>1. PastRead(local[p].seen)
    BY EmptyPlacing, Zenon DEF PastRead, AsBootstrapped, Nothing, NoTopology
  <2>2. pc[p] = "down"
    BY Zenon
  <2> QED BY <2>1, <2>2, Zenon DEF Own, Reached, Inherits, Serving, Refreshing
<1> QED BY <1>2, <1>3, <1>4, <1>5, Zenon DEF IInv
-----------------------------------------------------------------------------
(* Steps of one Proxy.                                                     *)

\* What a step of Proxy p leaves alone: the other Proxies, and the catalog.
Apart(p) ==
    /\ \A q \in Proxies \ {p} : /\ pc'[q] = pc[q] /\ local'[q] = local[q]
                                /\ schema'[q] = schema[q] /\ placed'[q] = placed[q]
    /\ UNCHANGED <<topology, moves, origin>>

\* A step that leaves the catalog alone preserves the invariant if it does so for
\* its own Proxy, and takes an owner map out of the registry only once the
\* catalog exists.
LEMMA OwnStep ==
    ASSUME IInv, TypeOK', NEW p \in Proxies, Apart(p), Own(p)',
           origin.owners = Legacy =>
               registry'.found /\ (topology.found \/ registry'.owners = Legacy)
    PROVE  IInv'
<1> USE DEF IInv, Apart
<1>1. AsBootstrapped(topology.placed, topology.bootstrap)'
    BY Zenon DEF AsBootstrapped
<1>2. (origin.owners = Legacy => registry.found)' /\ LegacyPlacementSurvives'
    BY LegacyIsSomewhere, Zenon DEF LegacyPlacementSurvives
<1>3. ASSUME NEW q \in Proxies PROVE Own(q)'
  <2>1. CASE q = p
    BY <2>1, Zenon
  <2>2. CASE q # p
    <3>1. /\ pc'[q] = pc[q] /\ local'[q] = local[q] /\ schema'[q] = schema[q]
          /\ placed'[q] = placed[q]
          /\ topology' = topology /\ moves' = moves /\ origin' = origin /\ Own(q)
      BY <2>2, Zenon
    <3> HIDE DEF IInv, Apart
    <3>2. PastRead(local[q].seen)'
      BY <3>1 DEF Own, PastRead, AsBootstrapped
    <3>3. Reached(q)' /\ Inherits(q)'
      BY <3>1, Zenon DEF Own, Reached, Inherits, Serving, AsBootstrapped
    <3> QED BY <3>2, <3>3, Zenon DEF Own
  <2> QED BY <2>1, <2>2, Zenon
<1> HIDE DEF Apart
<1> QED BY <1>1, <1>2, <1>3, Zenon

\* A Proxy that has returned from New or RefreshSchema, to serve only what it
\* served before.
LEMMA Returned ==
    ASSUME IInv, NEW p \in Proxies, UNCHANGED <<topology, moves, origin>>,
           local'[p] = Nothing, pc'[p] \in {"down", "running"},
           pc'[p] = "running" =>
             /\ topology.found /\ AsBootstrapped(placed'[p], topology.bootstrap)
             /\ DOMAIN placed'[p] = Fingerprint(schema'[p])
    PROVE  Own(p)'
<1>1. PastRead(local[p].seen)'
    BY EmptyPlacing DEF PastRead, AsBootstrapped, Nothing, NoTopology
<1>2. Reached(p)'
    BY Zenon DEF Reached, Serving, Refreshing, AsBootstrapped
<1>3. Inherits(p)'
    BY Zenon DEF Inherits
<1> QED BY <1>1, <1>2, <1>3, Zenon DEF Own

\* The catalog in Nest may be read at any time.
LEMMA ReadNow ==
    ASSUME IInv, NEW p \in Proxies, UNCHANGED <<topology, moves>>, local'[p].seen = topology
    PROVE  PastRead(local[p].seen)'
<1>1. topology \in Catalogs
    BY Zenon DEF IInv, TypeOK
<1>2. topology.revision <= topology.revision
    BY <1>1 DEF Catalogs
<1> QED BY <1>2, Zenon DEF PastRead, IInv, AsBootstrapped

\* StartTopology preserves the inductive invariant.
LEMMA StartTopologyIInv == ASSUME IInv, NEW p \in Proxies, StartTopology(p) PROVE IInv'
<1> DEFINE l == [local[p] EXCEPT !.seen = topology]
<1>1. /\ local' = [local EXCEPT ![p] = l] /\ pc' = [pc EXCEPT ![p] = "load"]
      /\ UNCHANGED <<registry, topology, fleet, schema, placed, pending, ddls, moves, faults,
                     origin, refused>>
    BY Zenon DEF StartTopology, Goto, nest, routing, events
<1>2. l \in Locals /\ local'[p] = l /\ pc'[p] = "load" /\ l.seen = topology
    BY <1>1, Zenon DEF IInv, TypeOK, Locals
<1> HIDE DEF l
<1>3. TypeOK'
    BY <1>1, <1>2, Zenon DEF IInv, TypeOK, Points, Locals
<1>4. Apart(p)
    BY <1>1, Zenon DEF Apart, IInv, TypeOK
<1>5. Own(p)'
  <2>1. PastRead(local[p].seen)'
    BY <1>1, <1>2, ReadNow, Zenon
  <2> QED BY <1>1, <1>2, <2>1, Zenon DEF Own, Reached, Inherits, Serving, Refreshing
<1> QED BY <1>1, <1>3, <1>4, <1>5, OwnStep, Zenon DEF IInv, LegacyPlacementSurvives

\* StartLoadSchema preserves the inductive invariant.
LEMMA StartLoadSchemaIInv == ASSUME IInv, NEW p \in Proxies, StartLoadSchema(p) PROVE IInv'
<1> DEFINE l == [local[p] EXCEPT !.tables = fleet]
<1>1. /\ local' = [local EXCEPT ![p] = l] /\ pc' = [pc EXCEPT ![p] = "verify"]
      /\ UNCHANGED <<registry, topology, fleet, schema, placed, pending, ddls, moves, faults,
                     origin, refused>>
    BY Zenon DEF StartLoadSchema, Goto, nest, routing, events
<1>2. l \in Locals /\ local'[p] = l /\ pc'[p] = "verify" /\ l.seen = local[p].seen
    BY <1>1, Zenon DEF IInv, TypeOK, Locals
<1> HIDE DEF l
<1>3. TypeOK'
    BY <1>1, <1>2, Zenon DEF IInv, TypeOK, Points, Locals
<1>4. Apart(p)
    BY <1>1, Zenon DEF Apart, IInv, TypeOK
<1>5. Own(p)'
  <2>1. PastRead(local[p].seen)'
    BY <1>1, <1>2 DEF IInv, Own, PastRead, AsBootstrapped
  <2> QED BY <1>1, <1>2, <2>1, Zenon DEF Own, Reached, Inherits, Serving, Refreshing
<1> QED BY <1>1, <1>3, <1>4, <1>5, OwnStep, Zenon DEF IInv, LegacyPlacementSurvives

\* VerifyRegistry: with a v3 owner map in the registry and no catalog, the Proxy
\* takes the map along; a registry without it means that the catalog exists.
LEMMA VerifyRegistryIInv == ASSUME IInv, NEW p \in Proxies, VerifyRegistry(p) PROVE IInv'
<1> DEFINE n == IF registry.found THEN registry.revision ELSE 1
           l == [local[p] EXCEPT !.imported = registry.owners, !.revision = n]
           x == IF registry.found THEN Accepted(p) ELSE "seed"
<1>0. UNCHANGED <<registry, topology, fleet, schema, placed, pending, ddls, moves, faults, origin>>
    BY Zenon DEF VerifyRegistry, nest, routing, events
<1>1. CASE registry.found /\ registry.tables # local[p].tables
  <2>1. /\ local' = [local EXCEPT ![p] = Nothing] /\ pc' = [pc EXCEPT ![p] = "down"]
        /\ refused' = TRUE
    BY <1>1, Zenon DEF VerifyRegistry, Return, Goto, Set
  <2>2. TypeOK'
    BY <1>0, <2>1, NothingType, Zenon DEF IInv, TypeOK, Points, Locals
  <2>3. Apart(p)
    BY <1>0, <2>1, Zenon DEF Apart, IInv, TypeOK
  <2>4. Own(p)'
    BY <1>0, <2>1, Returned, Zenon DEF IInv, TypeOK
  <2> QED BY <1>0, <2>2, <2>3, <2>4, OwnStep, Zenon DEF IInv, LegacyPlacementSurvives
<1>2. CASE ~(registry.found /\ registry.tables # local[p].tables)
  <2>1. /\ local' = [local EXCEPT ![p] = l] /\ pc' = [pc EXCEPT ![p] = x]
        /\ refused' = refused
    BY <1>2, Zenon DEF VerifyRegistry, Goto
  <2>2. n \in Nat /\ registry.owners \in {Legacy, Nowhere}
    BY Zenon DEF IInv, TypeOK, Registries
  <2>3. l \in Locals /\ l.seen = local[p].seen /\ l.imported = registry.owners
    BY <2>2, Zenon DEF IInv, TypeOK, Locals
  <2>4. x \in Points /\ x \in {"validate", "bootstrap", "seed"}
    BY Zenon DEF Accepted, Points
  <2>5. /\ x = "validate" => local[p].seen.found
        /\ registry.found => x # "seed"
    BY Zenon DEF Accepted
  <2>6. pc'[p] = x /\ local'[p] = l
    BY <2>1, Zenon DEF IInv, TypeOK
  <2> HIDE DEF n, l, x
  <2>7. TypeOK'
    BY <1>0, <2>1, <2>3, <2>4, Zenon DEF IInv, TypeOK, Locals, Points
  <2>8. Apart(p)
    BY <1>0, <2>1, Zenon DEF Apart, IInv, TypeOK
  <2>9. PastRead(local[p].seen)'
    BY <1>0, <2>3, <2>6 DEF IInv, Own, PastRead, AsBootstrapped
  <2>10. Reached(p)'
    BY <1>0, <2>3, <2>4, <2>5, <2>6, Zenon DEF Reached, Serving, Refreshing
  <2>11. Inherits(p)'
    BY <1>0, <2>3, <2>4, <2>5, <2>6, Zenon DEF Inherits, IInv, LegacyPlacementSurvives
  <2> QED BY <1>0, <2>7, <2>8, <2>9, <2>10, <2>11, OwnStep, Zenon DEF IInv, LegacyPlacementSurvives, Own
<1> QED BY <1>1, <1>2, Zenon

\* SeedRegistry: there was no registry, so no owner map to lose.
LEMMA SeedRegistryIInv == ASSUME IInv, NEW p \in Proxies, SeedRegistry(p) PROVE IInv'
<1>1. /\ registry' = Record(p) /\ pc' = [pc EXCEPT ![p] = Accepted(p)] /\ pc[p] = "seed"
      /\ UNCHANGED <<topology, fleet, local, schema, placed, pending, ddls, moves, faults,
                     origin, refused>>
    BY Zenon DEF SeedRegistry, Goto, routing, events
<1>2. registry' \in Registries
    BY <1>1, Zenon DEF Record, Registries, IInv, TypeOK, Locals
<1>3. Accepted(p) \in {"validate", "bootstrap"} /\ (Accepted(p) = "validate" => local[p].seen.found)
    BY Zenon DEF Accepted
<1>4. pc'[p] = Accepted(p) /\ Own(p) /\ origin.owners # Legacy
    BY <1>1, Zenon DEF IInv, TypeOK, Own, Inherits
<1>5. TypeOK'
    BY <1>1, <1>2, <1>3, Zenon DEF IInv, TypeOK, Points
<1>6. Apart(p)
    BY <1>1, Zenon DEF Apart, IInv, TypeOK
<1>7. Own(p)'
    BY <1>1, <1>3, <1>4, Zenon DEF Own, PastRead, Reached, Inherits, Serving, Refreshing, AsBootstrapped
<1> QED BY <1>4, <1>5, <1>6, <1>7, OwnStep, Zenon

\* BootstrapTopology preserves the inductive invariant.
LEMMA BootstrapTopologyIInv == ASSUME IInv, NEW p \in Proxies, BootstrapTopology(p) PROVE IInv'
<1> DEFINE l == [local[p] EXCEPT !.seen = topology]
           x == IF topology.found THEN "validate" ELSE "create"
<1>0. /\ pc[p] = "bootstrap"
      /\ UNCHANGED <<registry, topology, fleet, schema, placed, pending, ddls, moves, faults,
                     origin, refused>>
    BY Zenon DEF BootstrapTopology, nest, routing, events
<1>1. CASE ~(local[p].imported.burrows \subseteq Configured[p])
  <2>1. local' = [local EXCEPT ![p] = Nothing] /\ pc' = [pc EXCEPT ![p] = "down"]
    BY <1>1, Zenon DEF BootstrapTopology, Return, Goto, Set
  <2>2. TypeOK'
    BY <1>0, <2>1, NothingType, Zenon DEF IInv, TypeOK, Points, Locals
  <2>3. Apart(p)
    BY <1>0, <2>1, Zenon DEF Apart, IInv, TypeOK
  <2>4. Own(p)'
    BY <1>0, <2>1, Returned, Zenon DEF IInv, TypeOK
  <2> QED BY <1>0, <2>2, <2>3, <2>4, OwnStep, Zenon DEF IInv, LegacyPlacementSurvives
<1>2. CASE local[p].imported.burrows \subseteq Configured[p]
  <2>1. local' = [local EXCEPT ![p] = l] /\ pc' = [pc EXCEPT ![p] = x]
    BY <1>2, Zenon DEF BootstrapTopology, Goto
  <2>2. /\ l \in Locals /\ l.seen = topology /\ l.imported = local[p].imported
        /\ local'[p] = l /\ pc'[p] = x
    BY <2>1, Zenon DEF IInv, TypeOK, Locals
  <2>3. x \in {"validate", "create"} /\ (x = "validate" => topology.found)
    BY Zenon
  <2> HIDE DEF l, x
  <2>4. TypeOK'
    BY <1>0, <2>1, <2>2, <2>3, Zenon DEF IInv, TypeOK, Points, Locals
  <2>5. Apart(p)
    BY <1>0, <2>1, Zenon DEF Apart, IInv, TypeOK
  <2>6. PastRead(local[p].seen)'
    BY <1>0, <2>2, ReadNow, Zenon
  <2>7. Reached(p)' /\ Inherits(p)'
    BY <1>0, <2>2, <2>3, Zenon DEF IInv, Own, Reached, Inherits, Serving, Refreshing
  <2> QED BY <1>0, <2>4, <2>5, <2>6, <2>7, OwnStep, Zenon DEF IInv, LegacyPlacementSurvives, Own
<1> QED BY <1>1, <1>2, Zenon

-----------------------------------------------------------------------------
(* Writes of the catalog.                                                  *)

\* The catalog a Proxy proposes when there is none.
LEMMA BootstrapType ==
    ASSUME IInv, NEW p \in Proxies
    PROVE  LET c == Bootstrap(p) IN
             /\ c \in Catalogs /\ c.found /\ AsBootstrapped(c.placed, c.bootstrap)
             /\ local[p].imported = Legacy => c.bootstrap = Legacy
<1> DEFINE sharded == Fingerprint(local[p].tables)
           owners == IF local[p].imported = Nowhere THEN Modulo(p) ELSE local[p].imported
           b == [t \in sharded |-> owners]
<1>1. owners \in Placements /\ (local[p].imported = Legacy => owners = Legacy)
    BY LegacyIsSomewhere, Zenon DEF IInv, TypeOK, Locals, Placements
<1>2. sharded \in SUBSET Sharded
    BY Zenon DEF Fingerprint
<1>3. Configured[p] \in SUBSET UNION {Configured[q] : q \in Proxies} /\ local[p].revision \in Nat
    BY Zenon DEF IInv, TypeOK, Locals
<1>4. Bootstrap(p) = [found |-> TRUE, revision |-> 1, burrows |-> Configured[p],
                      schemaRevision |-> local[p].revision, fingerprint |-> sharded,
                      bootstrap |-> owners, placed |-> b]
    BY Zenon DEF Bootstrap
<1>5. /\ b \in Placings
      /\ \A t \in DOMAIN b : b[t] = owners
  <2> HIDE DEF owners, sharded
  <2> QED BY <1>1, <1>2 DEF Placings
<1> HIDE DEF owners, sharded, b
<1>6. Bootstrap(p) \in Catalogs
    BY <1>1, <1>2, <1>3, <1>4, <1>5 DEF Catalogs
<1> QED BY <1>1, <1>4, <1>5, <1>6 DEF AsBootstrapped

\* CreateTopology: the catalog is created once; nobody has read one before.
LEMMA CreateTopologyIInv == ASSUME IInv, NEW p \in Proxies, CreateTopology(p) PROVE IInv'
<1>1. /\ pc[p] = "create" /\ pc' = [pc EXCEPT ![p] = "fetch"]
      /\ topology' = IF topology.found THEN topology ELSE Bootstrap(p)
      /\ UNCHANGED <<registry, fleet, local, schema, placed, pending, ddls, moves, faults,
                     origin, refused>>
    BY Zenon DEF CreateTopology, Goto, routing, events
<1>2. pc'[p] = "fetch" /\ \A q \in Proxies \ {p} : pc'[q] = pc[q]
    BY <1>1, Zenon DEF IInv, TypeOK
<1>3. CASE topology.found
  <2>1. TypeOK'
    BY <1>1, <1>3, Zenon DEF IInv, TypeOK, Points
  <2>2. Apart(p)
    BY <1>1, <1>2, <1>3, Zenon DEF Apart
  <2>3. Own(p)'
    BY <1>1, <1>2, <1>3, Zenon DEF IInv, Own, PastRead, Reached, Inherits, Serving, Refreshing,
                            AsBootstrapped
  <2> QED BY <1>1, <2>1, <2>2, <2>3, OwnStep, Zenon DEF IInv, LegacyPlacementSurvives
<1>4. CASE ~topology.found
  <2>1. /\ topology' = Bootstrap(p) /\ topology' \in Catalogs /\ topology'.found
        /\ AsBootstrapped(topology'.placed, topology'.bootstrap)
        /\ local[p].imported = Legacy => topology'.bootstrap = Legacy
    BY <1>1, <1>4, BootstrapType, Zenon
  <2>2. TypeOK'
    BY <1>1, <2>1, Zenon DEF IInv, TypeOK, Points
  <2>3. AsBootstrapped(topology.placed, topology.bootstrap)'
    BY <1>1, <2>1, Zenon DEF AsBootstrapped
  <2>4. (origin.owners = Legacy => registry.found)' /\ LegacyPlacementSurvives'
    BY <1>1, <1>4, <2>1, Zenon DEF IInv, Own, Inherits, LegacyPlacementSurvives
  <2>5. ASSUME NEW q \in Proxies PROVE Own(q)'
    <3>1. /\ Own(q) /\ ~local[q].seen.found /\ local'[q] = local[q]
          /\ q # p => pc'[q] = pc[q]
      BY <1>1, <1>2, <1>4, Zenon DEF IInv, Own, PastRead
    <3>2. PastRead(local[q].seen)'
      BY <1>1, <3>1, Zenon DEF Own, PastRead, AsBootstrapped
    <3>3. ~Serving(q)' /\ pc'[q] \notin {"validate", "persist", "swap"}
      BY <1>2, <1>4, <3>1, Zenon DEF Own, Reached, Serving, Refreshing
    <3>4. Reached(q)'
      BY <2>1, <3>3, Zenon DEF Reached
    <3>5. Inherits(q)'
      BY <1>1, <1>2, <2>1, <3>1, Zenon DEF Own, Inherits
    <3> QED BY <3>2, <3>4, <3>5, Zenon DEF Own
  <2> QED BY <2>2, <2>3, <2>4, <2>5, Zenon DEF IInv
<1> QED BY <1>3, <1>4, Zenon

\* FetchTopology preserves the inductive invariant.
LEMMA FetchTopologyIInv == ASSUME IInv, NEW p \in Proxies, FetchTopology(p) PROVE IInv'
<1> DEFINE l == [local[p] EXCEPT !.seen = topology]
<1>1. /\ pc[p] = "fetch"
      /\ local' = [local EXCEPT ![p] = l] /\ pc' = [pc EXCEPT ![p] = "validate"]
      /\ UNCHANGED <<registry, topology, fleet, schema, placed, pending, ddls, moves, faults,
                     origin, refused>>
    BY Zenon DEF FetchTopology, Goto, nest, routing, events
<1>2. l \in Locals /\ local'[p] = l /\ pc'[p] = "validate" /\ l.seen = topology
    BY <1>1 DEF IInv, TypeOK, Locals
<1> HIDE DEF l
<1>3. TypeOK'
    BY <1>1, <1>2, Zenon DEF IInv, TypeOK, Points, Locals
<1>4. Apart(p)
    BY <1>1, Zenon DEF Apart, IInv, TypeOK
<1>5. Own(p)'
  <2>1. PastRead(local[p].seen)'
    BY <1>1, <1>2, ReadNow, Zenon
  <2>2. topology.found
    BY <1>1, Zenon DEF IInv, Own, Reached
  <2> QED BY <1>1, <1>2, <2>1, <2>2, Zenon DEF Own, Reached, Inherits, Serving, Refreshing
<1> QED BY <1>1, <1>3, <1>4, <1>5, OwnStep, Zenon DEF IInv, LegacyPlacementSurvives

-----------------------------------------------------------------------------
(* The end of New.                                                         *)

\* Ready, from a point where the catalog read has been validated.
LEMMA ReadyOwn ==
    ASSUME IInv, NEW p \in Proxies, Ready(p), local[p].seen.found,
           DOMAIN local[p].seen.placed = Fingerprint(local[p].tables),
           UNCHANGED <<topology, moves, origin>>
    PROVE  /\ pc' \in [Proxies -> Points] /\ local' \in [Proxies -> Locals]
           /\ schema' \in [Proxies -> SUBSET Tables] /\ placed' \in [Proxies -> Placings]
           /\ Apart(p) /\ Own(p)'
<1>0. /\ local[p] \in Locals /\ pc \in [Proxies -> Points] /\ local \in [Proxies -> Locals]
      /\ schema \in [Proxies -> SUBSET Tables] /\ placed \in [Proxies -> Placings]
    BY Zenon DEF IInv, TypeOK, Points, Locals, Placings
<1>1. /\ local[p].tables \in SUBSET Tables /\ local[p].seen \in Catalogs
      /\ local[p].seen.placed \in Placings
    BY <1>0, Zenon DEF Locals, Catalogs, Placings
<1>2. "down" \in Points /\ "running" \in Points
    BY Zenon DEF Points
<1>3. CASE PrimaryBurrow \in local[p].seen.burrows
  <2>1. /\ schema' = [schema EXCEPT ![p] = local[p].tables]
        /\ placed' = [placed EXCEPT ![p] = local[p].seen.placed]
        /\ pc' = [pc EXCEPT ![p] = "running"] /\ local' = [local EXCEPT ![p] = Nothing]
    BY <1>3, Zenon DEF Ready, Return, Goto, Set
  <2>2. /\ pc' \in [Proxies -> Points] /\ local' \in [Proxies -> Locals]
        /\ schema' \in [Proxies -> SUBSET Tables] /\ placed' \in [Proxies -> Placings]
    BY <1>0, <1>1, <1>2, <2>1, NothingType, Zenon
  <2>3. Apart(p)
    BY <1>0, <2>1, Zenon DEF Apart
  <2>4. /\ pc'[p] = "running" /\ local'[p] = Nothing
        /\ schema'[p] = local[p].tables /\ placed'[p] = local[p].seen.placed
    BY <1>0, <2>1, Zenon
  <2>5. topology.found /\ AsBootstrapped(local[p].seen.placed, topology.bootstrap)
    BY Zenon DEF IInv, Own, PastRead
  <2>6. Own(p)'
    BY <2>4, <2>5, Returned, Zenon
  <2> QED BY <2>2, <2>3, <2>6, Zenon
<1>4. CASE PrimaryBurrow \notin local[p].seen.burrows
  <2>1. /\ schema' = schema /\ placed' = placed
        /\ pc' = [pc EXCEPT ![p] = "down"] /\ local' = [local EXCEPT ![p] = Nothing]
    BY <1>4, Zenon DEF Ready, Return, Goto, Set, routing
  <2>2. /\ pc' \in [Proxies -> Points] /\ local' \in [Proxies -> Locals]
        /\ schema' \in [Proxies -> SUBSET Tables] /\ placed' \in [Proxies -> Placings]
    BY <1>0, <1>1, <1>2, <2>1, NothingType, Zenon
  <2>3. Apart(p)
    BY <1>0, <2>1, Zenon DEF Apart
  <2>4. pc'[p] = "down" /\ local'[p] = Nothing
    BY <1>0, <2>1, Zenon
  <2>5. Own(p)'
    BY <2>4, Returned, Zenon
  <2> QED BY <2>2, <2>3, <2>5
<1> QED BY <1>3, <1>4, Zenon

\* ValidateTopology preserves the inductive invariant.
LEMMA ValidateTopologyIInv == ASSUME IInv, NEW p \in Proxies, ValidateTopology(p) PROVE IInv'
<1> DEFINE catalog == local[p].seen
           valid == ValidateSchema(catalog, local[p].revision, local[p].tables)
<1>0. /\ pc[p] = "validate" /\ refused' = (refused \/ ~valid)
      /\ UNCHANGED <<registry, topology, fleet, pending, ddls, moves, faults, origin>>
    BY Zenon DEF ValidateTopology, nest, events
<1>1. refused' \in BOOLEAN /\ catalog.found
    BY <1>0, Zenon DEF IInv, TypeOK, Own, Reached
<1>2. CASE ~(valid /\ ValidateConfigured(catalog, p))
  <2>1. /\ local' = [local EXCEPT ![p] = Nothing] /\ pc' = [pc EXCEPT ![p] = "down"]
        /\ UNCHANGED <<schema, placed>>
    BY <1>2, Zenon DEF ValidateTopology, Return, Goto, Set, routing
  <2>2. TypeOK'
    BY <1>0, <1>1, <2>1, NothingType, Zenon DEF IInv, TypeOK, Points, Locals
  <2>3. Apart(p)
    BY <1>0, <2>1, Zenon DEF Apart, IInv, TypeOK
  <2>4. Own(p)'
    BY <1>0, <2>1, Returned, Zenon DEF IInv, TypeOK
  <2> QED BY <1>0, <2>2, <2>3, <2>4, OwnStep, Zenon DEF IInv, LegacyPlacementSurvives
<1>3. CASE valid /\ ValidateConfigured(catalog, p) /\ local[p].imported = Nowhere
  <2>1. Ready(p)
    BY <1>3, Zenon DEF ValidateTopology
  <2>2. DOMAIN local[p].seen.placed = Fingerprint(local[p].tables)
    BY <1>3, Zenon DEF ValidateSchema
  <2>3. /\ pc' \in [Proxies -> Points] /\ local' \in [Proxies -> Locals]
        /\ schema' \in [Proxies -> SUBSET Tables] /\ placed' \in [Proxies -> Placings]
        /\ Apart(p) /\ Own(p)'
    BY <1>0, <1>1, <2>1, <2>2, ReadyOwn, Zenon
  <2>4. TypeOK'
    BY <1>0, <1>1, <2>3, Zenon DEF IInv, TypeOK, Points, Locals, Placings
  <2> QED BY <1>0, <2>3, <2>4, OwnStep, Zenon DEF IInv, LegacyPlacementSurvives
<1>4. CASE valid /\ ValidateConfigured(catalog, p) /\ local[p].imported # Nowhere
  <2>1. pc' = [pc EXCEPT ![p] = "persist"] /\ UNCHANGED <<local, schema, placed>>
    BY <1>4, Zenon DEF ValidateTopology, Goto, routing
  <2>2. DOMAIN local[p].seen.placed = Fingerprint(local[p].tables)
    BY <1>4, Zenon DEF ValidateSchema
  <2>3. TypeOK'
    BY <1>0, <1>1, <2>1, Zenon DEF IInv, TypeOK, Points
  <2>4. Apart(p) /\ pc'[p] = "persist"
    BY <1>0, <2>1, Zenon DEF Apart, IInv, TypeOK
  <2>5. Own(p)'
    BY <1>0, <1>1, <2>1, <2>2, <2>4, Zenon
    DEF IInv, Own, PastRead, Reached, Inherits, Serving, Refreshing, AsBootstrapped
  <2> QED BY <1>0, <2>3, <2>4, <2>5, OwnStep, Zenon DEF IInv, LegacyPlacementSurvives
<1> QED BY <1>2, <1>3, <1>4, Zenon

\* PersistRegistry: the owner map leaves the registry when the catalog exists.
LEMMA PersistRegistryIInv == ASSUME IInv, NEW p \in Proxies, PersistRegistry(p) PROVE IInv'
<1>1. /\ pc[p] = "persist" /\ registry' = Record(p) /\ Ready(p)
      /\ UNCHANGED <<topology, fleet, pending, ddls, moves, faults, origin, refused>>
    BY Zenon DEF PersistRegistry, events
<1>2. /\ local[p].seen.found /\ DOMAIN local[p].seen.placed = Fingerprint(local[p].tables)
      /\ topology.found
    BY <1>1, Zenon DEF IInv, Own, Reached, PastRead
<1>3. /\ pc' \in [Proxies -> Points] /\ local' \in [Proxies -> Locals]
      /\ schema' \in [Proxies -> SUBSET Tables] /\ placed' \in [Proxies -> Placings]
      /\ Apart(p) /\ Own(p)'
    BY <1>1, <1>2, ReadyOwn, Zenon
<1>4. registry' \in Registries /\ registry'.found
    BY <1>1, Zenon DEF Record, Registries, IInv, TypeOK, Locals
<1>5. TypeOK'
    BY <1>1, <1>3, <1>4, Zenon DEF IInv, TypeOK, Points, Locals, Placings
<1> QED BY <1>1, <1>2, <1>3, <1>4, <1>5, OwnStep, Zenon

-----------------------------------------------------------------------------
(* RefreshSchema.                                                          *)

\* A refresh goes on from one point to the next while the Proxy serves.
LEMMA Refreshes ==
    ASSUME IInv, NEW p \in Proxies, Serving(p), Serving(p)', UNCHANGED <<topology, moves, origin>>,
           schema'[p] = schema[p], placed'[p] = placed[p],
           PastRead(local[p].seen)', pc'[p] = "swap" => local'[p].seen.found
    PROVE  Own(p)'
<1>1. Own(p)
    BY Zenon DEF IInv
<1>2. Reached(p)'
    BY <1>1, Zenon DEF Own, Reached, Serving, Refreshing, AsBootstrapped
<1>3. Inherits(p)'
    BY Zenon DEF Inherits, Serving, Refreshing
<1> QED BY <1>2, <1>3, Zenon DEF Own

\* CommitDDL preserves the inductive invariant.
LEMMA CommitDDLIInv ==
    ASSUME IInv, NEW p \in Proxies, NEW t \in Tables, CommitDDL(p, t) PROVE IInv'
<1>1. /\ fleet' = (IF t \in fleet THEN fleet \ {t} ELSE fleet \cup {t})
      /\ pending' = [pending EXCEPT ![p] = TRUE] /\ ddls' = ddls + 1
      /\ UNCHANGED <<registry, topology, pc, local, schema, placed, moves, faults, refused, origin>>
    BY Zenon DEF CommitDDL, Set, nest, routing
<1>2. fleet' \in SUBSET Tables /\ ddls' \in Nat
    BY <1>1 DEF IInv, TypeOK
<1>3. TypeOK'
    BY <1>1, <1>2, Zenon DEF IInv, TypeOK
<1>4. Apart(p)
    BY <1>1, Zenon DEF Apart
<1>5. Own(p)'
    BY <1>1, Zenon DEF IInv, Own, PastRead, Reached, Inherits, Serving, AsBootstrapped
<1> QED BY <1>1, <1>3, <1>4, <1>5, OwnStep, Zenon DEF IInv, LegacyPlacementSurvives

\* LoadSchema preserves the inductive invariant.
LEMMA LoadSchemaIInv == ASSUME IInv, NEW p \in Proxies, LoadSchema(p) PROVE IInv'
<1> DEFINE l == [local[p] EXCEPT !.tables = fleet]
<1>0. /\ pc[p] = "running"
      /\ UNCHANGED <<registry, topology, fleet, schema, placed, ddls, moves, faults, origin, refused>>
    BY Zenon DEF LoadSchema, nest, routing, events
<1>1. CASE fleet = schema[p]
  <2>1. pending' = [pending EXCEPT ![p] = FALSE] /\ pc' = pc /\ local' = local
    BY <1>1, Zenon DEF LoadSchema, Set
  <2>2. TypeOK'
    BY <1>0, <2>1, Zenon DEF IInv, TypeOK
  <2>3. Apart(p)
    BY <1>0, <2>1, Zenon DEF Apart
  <2>4. Own(p)'
    BY <1>0, <2>1, Zenon DEF IInv, Own, PastRead, Reached, Inherits, Serving, AsBootstrapped
  <2> QED BY <1>0, <2>2, <2>3, <2>4, OwnStep, Zenon DEF IInv, LegacyPlacementSurvives
<1>2. CASE fleet # schema[p]
  <2>1. /\ local' = [local EXCEPT ![p] = l] /\ pc' = [pc EXCEPT ![p] = "replace"]
        /\ pending' = pending
    BY <1>2, Zenon DEF LoadSchema, Goto
  <2>2. l \in Locals /\ local'[p] = l /\ pc'[p] = "replace" /\ l.seen = local[p].seen
    BY <2>1, Zenon DEF IInv, TypeOK, Locals
  <2> HIDE DEF l
  <2>3. TypeOK'
    BY <1>0, <2>1, <2>2, Zenon DEF IInv, TypeOK, Points, Locals, Refreshing
  <2>4. Apart(p)
    BY <1>0, <2>1, Zenon DEF Apart, IInv, TypeOK
  <2>5. Serving(p) /\ Serving(p)'
    BY <1>0, <2>2, Zenon DEF Serving, Refreshing
  <2>6. PastRead(local[p].seen)'
    BY <1>0, <2>2 DEF IInv, Own, PastRead, AsBootstrapped
  <2>7. Own(p)'
    BY <1>0, <2>2, <2>5, <2>6, Refreshes, Zenon
  <2> QED BY <1>0, <2>3, <2>4, <2>7, OwnStep DEF IInv, LegacyPlacementSurvives
<1> QED BY <1>1, <1>2, Zenon

\* GetRegistry preserves the inductive invariant.
LEMMA GetRegistryIInv == ASSUME IInv, NEW p \in Proxies, GetRegistry(p) PROVE IInv'
<1> DEFINE same == registry.found /\ registry.tables = local[p].tables
           n == IF same THEN registry.revision ELSE registry.revision + 1
           l == [local[p] EXCEPT !.revision = n]
           x == IF same THEN "reconcile" ELSE "put"
<1>1. /\ pc[p] = "replace"
      /\ local' = [local EXCEPT ![p] = l] /\ pc' = [pc EXCEPT ![p] = x]
      /\ UNCHANGED <<registry, topology, fleet, schema, placed, pending, ddls, moves, faults,
                     origin, refused>>
    BY Zenon DEF GetRegistry, Goto, nest, routing, events
<1>2. n \in Nat /\ x \in {"reconcile", "put"}
    BY DEF IInv, TypeOK, Registries
<1> HIDE DEF n, x
<1>3. l \in Locals /\ local'[p] = l /\ pc'[p] = x /\ l.seen = local[p].seen
    BY <1>1, <1>2, Zenon DEF IInv, TypeOK, Locals
<1> HIDE DEF l
<1>4. TypeOK'
    BY <1>1, <1>2, <1>3, Zenon DEF IInv, TypeOK, Points, Locals, Refreshing
<1>5. Apart(p)
    BY <1>1, Zenon DEF Apart, IInv, TypeOK
<1>6. Serving(p) /\ Serving(p)'
    BY <1>1, <1>2, <1>3, Zenon DEF Serving, Refreshing
<1>7. PastRead(local[p].seen)'
    BY <1>1, <1>3 DEF IInv, Own, PastRead, AsBootstrapped
<1>8. Own(p)'
    BY <1>1, <1>2, <1>3, <1>6, <1>7, Refreshes, Zenon
<1> QED BY <1>1, <1>4, <1>5, <1>8, OwnStep, Zenon DEF IInv, LegacyPlacementSurvives

\* PutRegistry: a Proxy that serves has seen the catalog.
LEMMA PutRegistryIInv == ASSUME IInv, NEW p \in Proxies, PutRegistry(p) PROVE IInv'
<1>1. /\ pc[p] = "put" /\ registry' = Record(p) /\ pc' = [pc EXCEPT ![p] = "reconcile"]
      /\ UNCHANGED <<topology, fleet, local, schema, placed, pending, ddls, moves, faults,
                     origin, refused>>
    BY Zenon DEF PutRegistry, Goto, routing, events
<1>2. registry' \in Registries /\ registry'.found
    BY <1>1, Zenon DEF Record, Registries, IInv, TypeOK, Locals
<1>3. TypeOK'
    BY <1>1, <1>2, Zenon DEF IInv, TypeOK, Points, Refreshing
<1>4. Apart(p) /\ pc'[p] = "reconcile"
    BY <1>1, Zenon DEF Apart, IInv, TypeOK
<1>5. Serving(p) /\ Serving(p)'
    BY <1>1, <1>4, Zenon DEF Serving, Refreshing
<1>6. PastRead(local[p].seen)'
    BY <1>1, Zenon DEF IInv, Own, PastRead, AsBootstrapped
<1>7. Own(p)'
    BY <1>1, <1>4, <1>5, <1>6, Refreshes, Zenon
<1>8. topology.found
    BY <1>5, Zenon DEF IInv, Own, Reached
<1> QED BY <1>2, <1>3, <1>4, <1>7, <1>8, OwnStep, Zenon

\* ReadTopology preserves the inductive invariant.
LEMMA ReadTopologyIInv == ASSUME IInv, NEW p \in Proxies, ReadTopology(p) PROVE IInv'
<1> DEFINE l == [local[p] EXCEPT !.seen = topology]
<1>1. /\ pc[p] = "reconcile" /\ topology.found
      /\ local' = [local EXCEPT ![p] = l] /\ pc' = [pc EXCEPT ![p] = "swap"]
      /\ UNCHANGED <<registry, topology, fleet, schema, placed, pending, ddls, moves, faults,
                     origin, refused>>
    BY Zenon DEF ReadTopology, Goto, nest, routing, events
<1>2. l \in Locals /\ local'[p] = l /\ pc'[p] = "swap" /\ l.seen = topology
    BY <1>1 DEF IInv, TypeOK, Locals
<1> HIDE DEF l
<1>3. TypeOK'
    BY <1>1, <1>2, Zenon DEF IInv, TypeOK, Points, Locals, Refreshing
<1>4. Apart(p)
    BY <1>1, Zenon DEF Apart, IInv, TypeOK
<1>5. Serving(p) /\ Serving(p)'
    BY <1>1, <1>2, Zenon DEF Serving, Refreshing
<1>6. PastRead(local[p].seen)'
    BY <1>1, <1>2, ReadNow, Zenon
<1>7. Own(p)'
    BY <1>1, <1>2, <1>5, <1>6, Refreshes, Zenon
<1> QED BY <1>1, <1>3, <1>4, <1>7, OwnStep, Zenon DEF IInv, LegacyPlacementSurvives

\* The catalog is replaced by the next one: whoever has read it, or an earlier
\* one, finds out by its revision.
LEMMA Advance ==
    ASSUME IInv, TypeOK', topology.found, topology'.found,
           topology'.revision = topology.revision + 1, topology'.bootstrap = topology.bootstrap,
           AsBootstrapped(topology.placed, topology.bootstrap)',
           moves' \in {moves, moves + 1},
           UNCHANGED <<registry, origin, local, schema, placed>>,
           \A q \in Proxies : pc'[q] = pc[q] \/ (pc[q] = "swap" /\ pc'[q] = "adopt")
    PROVE  IInv'
<1>1. (origin.owners = Legacy => registry.found)' /\ LegacyPlacementSurvives'
    BY Zenon DEF IInv, LegacyPlacementSurvives
<1>2. moves \in Nat /\ (moves' = 0 => moves = 0) /\ topology.revision \in Nat
    BY DEF IInv, TypeOK, Catalogs
<1>3. ASSUME NEW q \in Proxies PROVE Own(q)'
  <2>1. Own(q) /\ local[q].seen.revision \in Nat
    BY Zenon DEF IInv, TypeOK, Catalogs, Locals
  <2>2. PastRead(local[q].seen)'
    BY <1>2, <2>1 DEF Own, PastRead, AsBootstrapped
  <2>3. Serving(q)' <=> Serving(q)
    BY Zenon DEF Serving, Refreshing
  <2>4. Reached(q)'
    BY <1>2, <2>1, <2>3, Zenon DEF Own, Reached, AsBootstrapped
  <2>5. Inherits(q)'
    BY <2>1, Zenon DEF Own, Inherits
  <2> QED BY <2>2, <2>4, <2>5, Zenon DEF Own
<1> QED BY <1>1, <1>3, Zenon DEF IInv

\* ReconcileSchema's proposal, made from the catalog that is in Nest.
LEMMA ReconciledType ==
    ASSUME IInv, NEW p \in Proxies, local[p].seen = topology
    PROVE  LET c == Reconciled(p) IN
             /\ c \in Catalogs /\ c.found = topology.found
             /\ c.revision = topology.revision + 1 /\ c.bootstrap = topology.bootstrap
             /\ AsBootstrapped(c.placed, c.bootstrap)
             /\ \A t \in DOMAIN topology.placed \cap DOMAIN c.placed :
                  c.placed[t] = topology.placed[t]
<1> DEFINE sharded == Fingerprint(local[p].tables)
           b == [t \in sharded |-> IF t \in DOMAIN topology.placed THEN topology.placed[t]
                                   ELSE topology.bootstrap]
<1>1. /\ topology \in Catalogs /\ topology.bootstrap \in Placements
      /\ local[p].revision \in Nat /\ sharded \in SUBSET Sharded
    BY Zenon DEF IInv, TypeOK, Catalogs, Fingerprint, Locals
<1>2. PICK S \in SUBSET Sharded : topology.placed \in [S -> Placements]
    BY <1>1, Zenon DEF Catalogs, Placings
<1>3. b \in [sharded -> Placements]
  <2> HIDE DEF sharded
  <2> QED BY <1>1, <1>2, Zenon
<1>4. /\ AsBootstrapped(b, topology.bootstrap)
      /\ \A t \in DOMAIN topology.placed \cap DOMAIN b : b[t] = topology.placed[t]
  <2> HIDE DEF sharded
  <2> QED BY Zenon DEF AsBootstrapped, IInv
<1>5. Reconciled(p) = [topology EXCEPT !.revision = topology.revision + 1,
                                       !.schemaRevision = local[p].revision,
                                       !.fingerprint = sharded, !.placed = b]
    BY <1>1, Zenon DEF Reconciled, Catalogs
<1>6. b \in Placings
    BY <1>1, <1>3, Zenon DEF Placings
<1> HIDE DEF b, sharded
<1>7. Reconciled(p) \in Catalogs
  <2> DEFINE n == topology.revision + 1
  <2>1. n \in Nat
    BY <1>1 DEF Catalogs
  <2>2. Reconciled(p) = [topology EXCEPT !.revision = n, !.schemaRevision = local[p].revision,
                                         !.fingerprint = sharded, !.placed = b]
    BY <1>5, Zenon
  <2> HIDE DEF n
  <2> QED BY <1>1, <1>6, <2>1, <2>2, Zenon DEF Catalogs
<1>8. /\ Reconciled(p).placed = b /\ Reconciled(p).bootstrap = topology.bootstrap
      /\ Reconciled(p).revision = topology.revision + 1 /\ Reconciled(p).found = topology.found
    BY <1>1, <1>5, Zenon DEF Catalogs
<1> QED BY <1>4, <1>7, <1>8, Zenon

\* A swap that succeeds starts from the catalog that is in Nest.
LEMMA SwapFindsIt ==
    ASSUME IInv, NEW p \in Proxies, pc[p] = "swap", topology.revision = local[p].seen.revision
    PROVE  local[p].seen = topology /\ topology.found
BY Zenon DEF IInv, Own, Reached, PastRead

\* SwapTopology preserves the inductive invariant.
LEMMA SwapTopologyIInv == ASSUME IInv, NEW p \in Proxies, SwapTopology(p) PROVE IInv'
<1> DEFINE n == local[p].attempts + 1
           l == [local[p] EXCEPT !.attempts = n]
<1>0. /\ pc[p] = "swap"
      /\ UNCHANGED <<registry, fleet, schema, placed, pending, ddls, moves, faults, origin, refused>>
    BY Zenon DEF SwapTopology, routing, events
<1>1. CASE topology.revision = local[p].seen.revision
  <2>1. topology' = Reconciled(p) /\ pc' = [pc EXCEPT ![p] = "adopt"] /\ local' = local
    BY <1>1, Zenon DEF SwapTopology, Goto
  <2>2. local[p].seen = topology /\ topology.found
    BY <1>0, <1>1, SwapFindsIt, Zenon
  <2>3. /\ topology' \in Catalogs /\ topology'.found
        /\ topology'.revision = topology.revision + 1 /\ topology'.bootstrap = topology.bootstrap
        /\ AsBootstrapped(topology'.placed, topology'.bootstrap)
    BY <2>1, <2>2, ReconciledType, Zenon
  <2>4. TypeOK'
    BY <1>0, <2>1, <2>3, Zenon DEF IInv, TypeOK, Points, Refreshing
  <2>5. \A q \in Proxies : pc'[q] = pc[q] \/ (pc[q] = "swap" /\ pc'[q] = "adopt")
    BY <1>0, <2>1, Zenon DEF IInv, TypeOK
  <2>6. AsBootstrapped(topology.placed, topology.bootstrap)'
    BY <1>0, <2>3, Zenon DEF AsBootstrapped
  <2> QED BY <1>0, <2>1, <2>2, <2>3, <2>4, <2>5, <2>6, Advance, Zenon
<1>2. CASE topology.revision # local[p].seen.revision /\ local[p].attempts + 1 < MaxAttempts
  <2>1. /\ topology' = topology /\ pc' = [pc EXCEPT ![p] = "reconcile"]
        /\ local' = [local EXCEPT ![p] = l]
    BY <1>2, Zenon DEF SwapTopology, Goto
  <2>2. l \in Locals /\ local'[p] = l /\ pc'[p] = "reconcile" /\ l.seen = local[p].seen
    <3>1. n \in Nat
      BY DEF IInv, TypeOK, Locals
    <3> HIDE DEF n
    <3> QED BY <2>1, <3>1, Zenon DEF IInv, TypeOK, Locals
  <2> HIDE DEF l
  <2>3. TypeOK'
    BY <1>0, <2>1, <2>2, Zenon DEF IInv, TypeOK, Points, Locals, Refreshing
  <2>4. Apart(p)
    BY <1>0, <2>1, Zenon DEF Apart, IInv, TypeOK
  <2>5. Serving(p) /\ Serving(p)'
    BY <1>0, <2>2, Zenon DEF Serving, Refreshing
  <2>6. PastRead(local[p].seen)'
    BY <1>0, <2>1, <2>2 DEF IInv, Own, PastRead, AsBootstrapped
  <2>7. Own(p)'
    BY <1>0, <2>1, <2>2, <2>5, <2>6, Refreshes, Zenon
  <2> QED BY <1>0, <2>1, <2>3, <2>4, <2>7, OwnStep, Zenon DEF IInv, LegacyPlacementSurvives
<1>3. CASE topology.revision # local[p].seen.revision /\ ~(local[p].attempts + 1 < MaxAttempts)
  <2>1. /\ topology' = topology /\ pc' = [pc EXCEPT ![p] = "running"]
        /\ local' = [local EXCEPT ![p] = Nothing]
    BY <1>3, Zenon DEF SwapTopology, Return, Goto, Set
  <2>2. TypeOK'
    BY <1>0, <2>1, NothingType, Zenon DEF IInv, TypeOK, Points, Locals
  <2>3. Apart(p) /\ local'[p] = Nothing /\ pc'[p] = "running"
    BY <1>0, <2>1, Zenon DEF Apart, IInv, TypeOK
  <2>4. /\ topology.found /\ AsBootstrapped(placed[p], topology.bootstrap)
        /\ DOMAIN placed[p] = Fingerprint(schema[p])
    BY <1>0, Zenon DEF IInv, Own, Reached, Serving, Refreshing
  <2>5. Own(p)'
    BY <1>0, <2>1, <2>3, <2>4, Returned, Zenon
  <2> QED BY <1>0, <2>1, <2>2, <2>3, <2>5, OwnStep, Zenon DEF IInv, LegacyPlacementSurvives
<1> QED BY <1>1, <1>2, <1>3, Zenon

\* AdoptTopology preserves the inductive invariant.
LEMMA AdoptTopologyIInv == ASSUME IInv, NEW p \in Proxies, AdoptTopology(p) PROVE IInv'
<1>0. /\ pc[p] = "adopt"
      /\ pc' = [pc EXCEPT ![p] = "running"] /\ local' = [local EXCEPT ![p] = Nothing]
      /\ UNCHANGED <<registry, topology, fleet, ddls, moves, faults, origin, refused>>
    BY Zenon DEF AdoptTopology, Return, Goto, Set, nest, events
<1>1. /\ topology.found /\ AsBootstrapped(placed[p], topology.bootstrap)
      /\ DOMAIN placed[p] = Fingerprint(schema[p])
      /\ local'[p] = Nothing /\ pc'[p] = "running"
    BY <1>0, Zenon DEF IInv, TypeOK, Own, Reached, Serving, Refreshing
<1>2. CASE ValidateSchema(topology, local[p].revision, local[p].tables)
  <2>1. /\ schema' = [schema EXCEPT ![p] = local[p].tables]
        /\ placed' = [placed EXCEPT ![p] = topology.placed]
        /\ pending' = [pending EXCEPT ![p] = FALSE]
    BY <1>2, Zenon DEF AdoptTopology, Set
  <2>2. topology.placed \in Placings /\ local[p].tables \in SUBSET Tables
    BY Zenon DEF IInv, TypeOK, Catalogs, Locals
  <2>3. TypeOK'
    BY <1>0, <2>1, <2>2, NothingType, Zenon DEF IInv, TypeOK, Points, Locals, Placings
  <2>4. /\ Apart(p) /\ schema'[p] = local[p].tables /\ placed'[p] = topology.placed
    BY <1>0, <2>1, Zenon DEF Apart, IInv, TypeOK
  <2>5. DOMAIN topology.placed = Fingerprint(local[p].tables)
    BY <1>2, Zenon DEF ValidateSchema
  <2>6. Own(p)'
    BY <1>0, <1>1, <2>4, <2>5, Returned, Zenon DEF IInv
  <2> QED BY <1>0, <2>3, <2>4, <2>6, OwnStep, Zenon DEF IInv, LegacyPlacementSurvives
<1>3. CASE ~ValidateSchema(topology, local[p].revision, local[p].tables)
  <2>1. UNCHANGED <<schema, placed, pending>>
    BY <1>3, Zenon DEF AdoptTopology, routing
  <2>2. TypeOK'
    BY <1>0, <2>1, NothingType, Zenon DEF IInv, TypeOK, Points, Locals
  <2>3. Apart(p)
    BY <1>0, <2>1, Zenon DEF Apart, IInv, TypeOK
  <2>4. Own(p)'
    BY <1>0, <1>1, <2>1, Returned, Zenon
  <2> QED BY <1>0, <2>2, <2>3, <2>4, OwnStep, Zenon DEF IInv, LegacyPlacementSurvives
<1> QED BY <1>2, <1>3, Zenon

-----------------------------------------------------------------------------
(* Failures, and the administrator.                                        *)

\* NestFails preserves the inductive invariant.
LEMMA NestFailsIInv == ASSUME IInv, NEW p \in Proxies, NestFails(p) PROVE IInv'
<1> DEFINE x == IF pc[p] \in Refreshing THEN "running" ELSE "down"
<1>1. /\ pc' = [pc EXCEPT ![p] = x] /\ local' = [local EXCEPT ![p] = Nothing]
      /\ faults' = faults + 1
      /\ UNCHANGED <<registry, topology, fleet, schema, placed, pending, ddls, moves, refused, origin>>
    BY Zenon DEF NestFails, Return, Goto, Set, nest, routing
<1>2. x \in {"running", "down"} /\ (x = "running" => Serving(p))
    BY Zenon DEF Serving
<1>3. faults' \in Nat
    BY <1>1 DEF IInv, TypeOK
<1> HIDE DEF x
<1>4. TypeOK'
    BY <1>1, <1>2, <1>3, NothingType, Zenon DEF IInv, TypeOK, Points, Locals
<1>5. Apart(p) /\ local'[p] = Nothing /\ pc'[p] = x
    BY <1>1, Zenon DEF Apart, IInv, TypeOK
<1>6. x = "running" => /\ topology.found /\ AsBootstrapped(placed[p], topology.bootstrap)
                       /\ DOMAIN placed[p] = Fingerprint(schema[p])
    BY <1>2, Zenon DEF IInv, Own, Reached
<1>7. Own(p)'
    BY <1>1, <1>2, <1>5, <1>6, Returned, Zenon
<1> QED BY <1>1, <1>4, <1>5, <1>7, OwnStep, Zenon DEF IInv, LegacyPlacementSurvives

\* Stop and Crash.
LEMMA LeaveIInv ==
    ASSUME IInv, NEW p \in Proxies, Leave(p), faults' \in {faults, faults + 1} PROVE IInv'
<1>1. /\ pc' = [pc EXCEPT ![p] = "down"] /\ local' = [local EXCEPT ![p] = Nothing]
      /\ schema' = [schema EXCEPT ![p] = {}] /\ placed' = [placed EXCEPT ![p] = <<>>]
      /\ pending' = [pending EXCEPT ![p] = FALSE]
      /\ UNCHANGED <<registry, topology, fleet, ddls, moves, refused, origin>>
    BY Zenon DEF Leave, Return, Goto, Set, nest
<1>2. faults' \in Nat
    BY DEF IInv, TypeOK
<1>3. placed' \in [Proxies -> Placings] /\ schema' \in [Proxies -> SUBSET Tables]
  <2>1. placed \in [Proxies -> Placings] /\ schema \in [Proxies -> SUBSET Tables]
    BY Zenon DEF IInv, TypeOK, Placings
  <2>2. placed' \in [Proxies -> Placings]
    BY <1>1, <2>1, EmptyPlacing, Zenon
  <2> QED BY <1>1, <2>1, <2>2, Zenon
<1>4. local' \in [Proxies -> Locals]
    BY <1>1, NothingType, Zenon DEF IInv, TypeOK, Locals
<1>5. TypeOK'
    BY <1>1, <1>2, <1>3, <1>4 DEF IInv, TypeOK, Points, Locals, Placings
<1>6. Apart(p) /\ local'[p] = Nothing /\ pc'[p] = "down"
    BY <1>1, Zenon DEF Apart, IInv, TypeOK
<1>7. Own(p)'
    BY <1>1, <1>6, Returned, Zenon
<1> QED BY <1>1, <1>5, <1>6, <1>7, OwnStep, Zenon DEF IInv, LegacyPlacementSurvives

\* MoveTable preserves the inductive invariant.
LEMMA MoveTableIInv == ASSUME IInv, NEW t \in Tables, MoveTable(t) PROVE IInv'
<1> DEFINE n == topology.revision + 1
           b == [topology.placed EXCEPT ![t] = Moved]
<1>1. /\ topology.found /\ t \in DOMAIN topology.placed
      /\ topology' = [topology EXCEPT !.revision = n, !.placed = b] /\ moves' = moves + 1
      /\ UNCHANGED <<registry, fleet, pc, local, schema, placed, pending, ddls, faults, refused, origin>>
    BY Zenon DEF MoveTable, manager, routing, IInv, TypeOK, Catalogs
<1>2. n \in Nat /\ topology \in Catalogs /\ moves \in Nat /\ moves' \in Nat /\ moves' # 0
    BY <1>1 DEF IInv, TypeOK, Catalogs
<1>3. b \in Placings
  <2>1. PICK S \in SUBSET Sharded : topology.placed \in [S -> Placements]
    BY <1>2, Zenon DEF Catalogs, Placings
  <2>2. b \in [S -> Placements]
    BY <2>1, Zenon DEF Placements
  <2> QED BY <2>2, Zenon DEF Placings
<1> HIDE DEF b
<1>4. topology'.revision = n /\ topology'.found /\ topology'.bootstrap = topology.bootstrap
    BY <1>1, <1>2, Zenon DEF Catalogs
<1>5. topology'.revision = topology.revision + 1
    BY <1>4, Zenon
<1> HIDE DEF n
<1>6. topology' \in Catalogs
    BY <1>1, <1>2, <1>3, Zenon DEF Catalogs
<1>7. TypeOK'
    BY <1>1, <1>2, <1>6, Zenon DEF IInv, TypeOK
<1>8. AsBootstrapped(topology.placed, topology.bootstrap)'
    BY <1>2, Zenon DEF AsBootstrapped
<1> QED BY <1>1, <1>4, <1>5, <1>7, <1>8, Advance, Zenon
-----------------------------------------------------------------------------
(* The theorems.                                                           *)

\* Every step preserves the inductive invariant.
LEMMA NextIInv == IInv /\ [Next]_vars => IInv'
<1> SUFFICES ASSUME IInv, [Next]_vars PROVE IInv'
    BY Zenon
<1>1. CASE UNCHANGED vars
  <2>1. UNCHANGED <<registry, topology, fleet, pc, local, schema, placed, pending, ddls, moves,
                    faults, refused, origin>>
    BY <1>1, Zenon DEF vars, nest, manager, routing, events
  <2>2. TypeOK'
    BY <2>1, Zenon DEF IInv, TypeOK
  <2>3. \A p \in Proxies : Own(p)'
    BY <2>1 DEF IInv, Own, PastRead, Reached, Inherits, Serving, AsBootstrapped
  <2> QED BY <2>1, <2>2, <2>3, Zenon DEF IInv, AsBootstrapped, LegacyPlacementSurvives
<1>2. ASSUME NEW p \in Proxies, Start(p) PROVE IInv'
    BY <1>2, StartTopologyIInv, StartLoadSchemaIInv, VerifyRegistryIInv, SeedRegistryIInv,
       BootstrapTopologyIInv, CreateTopologyIInv, FetchTopologyIInv, ValidateTopologyIInv,
       PersistRegistryIInv, Zenon DEF Start
<1>3. ASSUME NEW p \in Proxies, Refresh(p) PROVE IInv'
    BY <1>3, LoadSchemaIInv, GetRegistryIInv, PutRegistryIInv, ReadTopologyIInv, SwapTopologyIInv,
       AdoptTopologyIInv, Zenon DEF Refresh
<1>4. ASSUME NEW p \in Proxies, NestFails(p) PROVE IInv'
    BY <1>4, NestFailsIInv, Zenon
<1>5. ASSUME NEW p \in Proxies, Stop(p) \/ Crash(p) PROVE IInv'
  <2>1. Leave(p) /\ faults' \in {faults, faults + 1}
    BY <1>5, Zenon DEF Stop, Crash
  <2> QED BY <2>1, LeaveIInv, Zenon
<1>6. ASSUME NEW p \in Proxies, NEW t \in Tables, CommitDDL(p, t) PROVE IInv'
    BY <1>6, CommitDDLIInv, Zenon
<1>7. ASSUME NEW t \in Tables, MoveTable(t) PROVE IInv'
    BY <1>7, MoveTableIInv
<1> QED BY <1>1, <1>2, <1>3, <1>4, <1>5, <1>6, <1>7, Zenon DEF Next

\* IInv is an invariant of Nest and its Proxies.
THEOREM Invariance == Spec => []IInv
<1> QED BY InitIInv, NextIInv, PTL DEF Spec

\* Proxies that serve queries agree where every table's vshards are, whichever of
\* them bootstrapped the catalog (VerifyOrBootstrap), and whatever refreshes,
\* failed requests and crashes crossed since.
THEOREM Agreement == Spec => []PlacementAgreement
<1>1. IInv => PlacementAgreement
    BY Zenon DEF IInv, Own, Reached, AsBootstrapped, PlacementAgreement
<1> QED BY <1>1, Invariance, PTL

\* A serving Proxy routes by a placement for exactly the sharded tables of the
\* schema it routes by (New, RefreshSchema).
THEOREM Completeness == Spec => []ServesWhatItKnows
<1>1. IInv => ServesWhatItKnows
    BY Zenon DEF IInv, Own, Reached, ServesWhatItKnows
<1> QED BY <1>1, Invariance, PTL

\* The owner map of a v3 registry survives the migration, whichever Proxies race
\* to import it and wherever they die (VerifyOrSeedVersioned, VerifyOrBootstrap,
\* PersistVerified).
THEOREM Migration == Spec => []LegacyPlacementSurvives
<1>1. IInv => LegacyPlacementSurvives
    BY Zenon DEF IInv
<1> QED BY <1>1, Invariance, PTL

\* What one write of the catalog may do to it.
KeepsPlacements ==
    topology.found =>
      /\ topology'.revision \in {topology.revision, topology.revision + 1}
      /\ topology'.bootstrap = topology.bootstrap
      /\ moves' = moves =>
           \A t \in DOMAIN topology.placed \cap DOMAIN topology'.placed :
              topology'.placed[t] = topology.placed[t]

\* Every write of the catalog keeps what was published before it: compareAndSwap
\* lets no reconciliation overwrite a catalog it has not read.
THEOREM NoLostWrite == Spec => NothingOverwritten
<1>1. IInv /\ [Next]_vars => [KeepsPlacements]_vars
  <2> SUFFICES ASSUME IInv, Next, topology.found, topology' # topology PROVE KeepsPlacements
      BY Zenon DEF KeepsPlacements
  <2>1. ASSUME NEW p \in Proxies, SwapTopology(p) PROVE KeepsPlacements
    <3>1. /\ pc[p] = "swap" /\ topology.revision = local[p].seen.revision
          /\ topology' = Reconciled(p)
      BY <2>1, Zenon DEF SwapTopology
    <3>2. local[p].seen = topology
      BY <3>1, SwapFindsIt, Zenon
    <3> QED BY <3>1, <3>2, ReconciledType, Zenon DEF KeepsPlacements
  <2>2. ASSUME NEW t \in Tables, MoveTable(t) PROVE KeepsPlacements
    <3>1. /\ topology' = [topology EXCEPT !.revision = topology.revision + 1,
                                          !.placed = [topology.placed EXCEPT ![t] = Moved]]
          /\ moves' = moves + 1
      BY <2>2, Zenon DEF MoveTable, IInv, TypeOK, Catalogs
    <3>2. topology \in Catalogs /\ moves \in Nat
      BY Zenon DEF IInv, TypeOK
    <3>3. /\ topology'.revision = topology.revision + 1 /\ topology'.bootstrap = topology.bootstrap
          /\ moves' # moves
      BY <3>1, <3>2 DEF Catalogs
    <3> QED BY <3>3, Zenon DEF KeepsPlacements
  <2>3. ASSUME NEW p \in Proxies, Start(p) \/ Refresh(p) \/ NestFails(p) \/ Stop(p) \/ Crash(p)
        PROVE  SwapTopology(p)
    <3>1. CASE Start(p)
      BY <3>1, Zenon DEF Start, StartTopology, StartLoadSchema, VerifyRegistry, SeedRegistry,
                  BootstrapTopology, CreateTopology, FetchTopology, ValidateTopology,
                  PersistRegistry, nest
    <3>2. CASE Refresh(p)
      BY <3>2, Zenon DEF Refresh, LoadSchema, GetRegistry, PutRegistry, ReadTopology, AdoptTopology, nest
    <3>3. CASE NestFails(p) \/ Stop(p) \/ Crash(p)
      BY <3>3, Zenon DEF NestFails, Stop, Crash, Leave, nest
    <3> QED BY <2>3, <3>1, <3>2, <3>3, Zenon
  <2>4. ASSUME NEW p \in Proxies, NEW t \in Tables, CommitDDL(p, t) PROVE FALSE
    BY <2>4, Zenon DEF CommitDDL, nest
  <2> QED BY <2>1, <2>2, <2>3, <2>4, Zenon DEF Next
<1>2. [][KeepsPlacements]_vars => NothingOverwritten
    BY PTL DEF NothingOverwritten, KeepsPlacements
<1> QED BY <1>1, <1>2, Invariance, PTL DEF Spec

=============================================================================
