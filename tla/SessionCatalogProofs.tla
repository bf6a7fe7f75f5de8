------------------------ MODULE SessionCatalogProofs ------------------------
(***************************************************************************)
(* Proofs about SessionCatalog, for any names, savepoints and batches of   *)
(* any length.                                                             *)
(*                                                                         *)
(* One statement takes a catalog that the Proxy's list mirrors to one that *)
(* it mirrors again, and the transaction commands keep the snapshots in    *)
(* step with PostgreSQL's savepoints; by induction so does a batch.        *)
(***************************************************************************)
EXTENDS SessionCatalog, TLAPS
-----------------------------------------------------------------------------
(* Statements and catalogs.                                                *)

\* What the parser says of a statement: only tables and views are created, temporary
\* or not, and only DROP names several relations.
LEMMA Parsed ==
    ASSUME NEW st \in Statements
    PROVE  /\ st.kind \in {"create", "index", "view", "rename", "alter", "drop", "discard"}
           /\ st.temp \in BOOLEAN /\ st.drop \in BOOLEAN /\ st.guard \in BOOLEAN
           /\ st.kind \notin {"drop", "discard"} => st.rel \in Rels
           /\ st.kind \in {"index", "rename"} => st.new \in Names
           /\ st.kind = "view" => st.from \in Rels
           /\ st.kind = "drop" => st.names # {}
           /\ st.names \subseteq Rels
           /\ st.temp => st.kind \in {"create", "view"}
           /\ st.drop \/ st.guard \/ st.as => st.kind = "create"
    BY Zenon DEF Statements

\* The fields of a relation, and that its name and kind of storage identify it.
LEMMA Fields ==
    ASSUME NEW cat, Sound(cat), NEW r \in cat
    PROVE  /\ r \in Relations /\ r.name \in Names /\ r.temp \in BOOLEAN /\ r.drop \in BOOLEAN
           /\ r.kind \in {"table", "index", "view"} /\ r.on \subseteq BOOLEAN \X Names
           /\ \A q \in cat : q.temp = r.temp /\ q.name = r.name => q = r
<1>1. r \in Relations /\ \A q \in cat : Id(q) = Id(r) => q = r
    BY Zenon DEF Sound
<1> QED BY <1>1, Zenon DEF Relations, Id

\* What a relation of a sound catalog depends on.
LEMMA Bases ==
    ASSUME NEW cat, Sound(cat), NEW r \in cat, NEW q \in cat
    PROVE  /\ r.drop => r.temp /\ r.kind = "table"
           /\ r.kind = "table" => r.on = {}
           /\ Id(q) \in r.on => r.on = {Id(q)} /\ r.temp = q.temp
           /\ Id(q) \in r.on /\ r.kind = "index" => q.kind = "table"
           /\ r.temp => r.kind # "view"
<1>1. Based(cat, r)
    BY Zenon DEF Sound
<1>2. ASSUME Id(q) \in r.on
      PROVE  /\ r.on = {Id(q)} /\ r.temp = q.temp
             /\ r.kind = "index" => q.kind = "table"
  <2>1. r.kind \in {"index", "view"}
    BY <1>1, <1>2, Fields, Zenon DEF Based
  <2>2. PICK p \in cat : /\ p.temp = r.temp /\ r.on = {Id(p)}
                         /\ r.kind = "index" => p.kind = "table"
    BY <1>1, <2>1, Fields, Zenon DEF Based
  <2>3. p = q
    BY <1>2, <2>2, Zenon DEF Sound
  <2> QED BY <2>2, <2>3, Zenon
<1> QED BY <1>1, <1>2, Zenon DEF Based

\* DROP's search for what depends on a relation: it finds the relations themselves
\* and all that depends on what it finds, and nothing that it need not.
LEMMA DependentsAre ==
    ASSUME NEW cat, NEW S \in SUBSET cat
    PROVE  /\ S \subseteq Dependents(cat, S) /\ Dependents(cat, S) \subseteq cat
           /\ \A r \in cat, q \in Dependents(cat, S) : Id(q) \in r.on => r \in Dependents(cat, S)
           /\ \A T \in SUBSET cat :
                /\ S \subseteq T
                /\ \A r \in cat, q \in T : Id(q) \in r.on => r \in T
                => Dependents(cat, S) \subseteq T
<1>1. S \subseteq Dependents(cat, S) /\ Dependents(cat, S) \subseteq cat
    BY Zenon DEF Dependents
<1>2. ASSUME NEW r \in cat, NEW q \in Dependents(cat, S), Id(q) \in r.on
      PROVE  r \in Dependents(cat, S)
  <2>1. ASSUME NEW T \in SUBSET cat, S \subseteq T, Closed(cat, T) PROVE r \in T
    <3>1. q \in T
      BY <2>1, Zenon DEF Dependents
    <3>2. Id(q) \in r.on \cap {Id(p) : p \in T}
      BY <1>2, <3>1, Zenon
    <3> QED BY <2>1, <3>2, Zenon DEF Closed
  <2> QED BY <2>1, Zenon DEF Dependents
<1>3. ASSUME NEW T \in SUBSET cat, S \subseteq T,
             \A r \in cat, q \in T : Id(q) \in r.on => r \in T
      PROVE  Dependents(cat, S) \subseteq T
  <2>1. Closed(cat, T)
    BY <1>3, Zenon DEF Closed
  <2> QED BY <1>3, <2>1, Zenon DEF Dependents
<1> QED BY <1>1, <1>2, <1>3, Zenon

\* Of the temporary relations only the indexes of a dropped table go with it, and
\* dropping durable relations drops no temporary one, nor the reverse.
LEMMA DependentsOfKind ==
    ASSUME NEW cat, Sound(cat), NEW S \in SUBSET cat
    PROVE  /\ \A r \in cat : r.temp =>
                (r \in Dependents(cat, S) <=>
                   r \in S \/ (r.kind = "index" /\ \E q \in S : Id(q) \in r.on))
           /\ (\A r \in S : r.temp) => \A r \in Dependents(cat, S) : r.temp
           /\ (\A r \in S : ~r.temp) => \A r \in Dependents(cat, S) : ~r.temp
<1> DEFINE With(r) == r \in S \/ (r.kind = "index" /\ \E q \in S : Id(q) \in r.on)
<1>1. ASSUME NEW r \in cat, r.temp, r \in Dependents(cat, S) PROVE With(r)
  <2> DEFINE T == {q \in cat : q.temp => With(q)}
  <2>1. ASSUME NEW p \in cat, NEW q \in T, Id(q) \in p.on, p.temp PROVE With(p)
    <3>1. p.kind = "index" /\ q.temp /\ q.kind = "table"
      BY <2>1, Fields, Bases
    <3>2. q \in S
      BY <3>1, Zenon
    <3> QED BY <2>1, <3>1, <3>2, Zenon
  <2>2. S \subseteq T /\ \A p \in cat, q \in T : Id(q) \in p.on => p \in T
    BY <2>1, Zenon
  <2>3. T \in SUBSET cat
    BY Zenon
  <2>4. \A q \in T : q.temp => With(q)
    BY Zenon
  <2> HIDE DEF T
  <2>5. Dependents(cat, S) \subseteq T
    BY <2>2, <2>3, DependentsAre, Zenon
  <2> QED BY <1>1, <2>4, <2>5, Zenon
<1>2. ASSUME NEW r \in cat, With(r) PROVE r \in Dependents(cat, S)
    BY <1>2, DependentsAre
<1>3. ASSUME NEW b \in BOOLEAN, \A r \in S : r.temp = b
      PROVE  \A r \in Dependents(cat, S) : r.temp = b
  <2> DEFINE T == {q \in cat : q.temp = b}
  <2>1. S \subseteq T /\ \A p \in cat, q \in T : Id(q) \in p.on => p \in T
    BY <1>3, Bases, Zenon
  <2>2. T \in SUBSET cat /\ \A q \in T : q.temp = b
    BY Zenon
  <2> HIDE DEF T
  <2>3. Dependents(cat, S) \subseteq T
    BY <2>1, <2>2, DependentsAre, Zenon
  <2> QED BY <2>2, <2>3, Zenon
<1>4. ASSUME \A r \in S : r.temp PROVE \A r \in Dependents(cat, S) : r.temp
    BY <1>3, <1>4, Fields, Zenon
<1>5. ASSUME \A r \in S : ~r.temp PROVE \A r \in Dependents(cat, S) : ~r.temp
    BY <1>3, <1>5, Fields, Zenon
<1> QED BY <1>1, <1>2, <1>4, <1>5, Zenon

\* What is left after DROP is a sound catalog.
LEMMA DroppedSound ==
    ASSUME NEW cat, Sound(cat), NEW S \in SUBSET cat
    PROVE  Sound(cat \ Dependents(cat, S))
<1> DEFINE left == cat \ Dependents(cat, S)
<1>1. ASSUME NEW r \in left PROVE Based(left, r)
  <2>1. Based(cat, r)
    BY Zenon DEF Sound
  <2>2. \A q \in cat : r.on = {Id(q)} => q \in left
    BY DependentsAre, Zenon
  <2> QED BY <2>1, <2>2, Zenon DEF Based
<1> QED BY <1>1, Zenon DEF Sound

\* A name resolves to at most one relation, a temporary one when the session has one
\* of that name and the name does not say public.
LEMMA FoundIs ==
    ASSUME NEW cat, Sound(cat), NEW rel \in Rels, NEW r \in Found(cat, rel)
    PROVE  /\ r \in cat /\ r.name = rel.name
           /\ r.temp = (rel.schema # "public" /\ HasTemp(cat, rel.name))
           /\ \A q \in Found(cat, rel) : q = r
<1>1. rel.schema \in {"plain", "pg_temp", "public"}
    BY Zenon DEF Rels
<1>2. ASSUME NEW q \in Found(cat, rel)
      PROVE  /\ q \in cat /\ q.name = rel.name
             /\ q.temp = (rel.schema # "public" /\ HasTemp(cat, rel.name))
    BY <1>1, Fields, Zenon DEF Found, HasTemp
<1>3. \A q \in Found(cat, rel) : q = r
    BY <1>2, Fields
<1> QED BY <1>2, <1>3, Zenon

\* A relation is added under a name that is free, or IF NOT EXISTS leaves it alone.
LEMMA AddedIs ==
    ASSUME NEW cat, NEW r, NEW guard \in BOOLEAN, NEW after \in Added(cat, r, guard)
    PROVE  \/ guard /\ after = cat /\ \E q \in cat : q.temp = r.temp /\ q.name = r.name
           \/ after = cat \cup {r} /\ \A q \in cat : ~(q.temp = r.temp /\ q.name = r.name)
    BY Zenon DEF Added, Id

\* Adding a relation whose name is free and whose base exists keeps a catalog sound.
LEMMA AddedSound ==
    ASSUME NEW cat, Sound(cat), NEW r \in Relations, Based(cat, r),
           \A q \in cat : ~(q.temp = r.temp /\ q.name = r.name)
    PROVE  Sound(cat \cup {r})
<1>1. \A q \in cat : Id(q) # Id(r)
    BY Zenon DEF Id
<1>2. ASSUME NEW q, Based(cat, q) PROVE Based(cat \cup {r}, q)
    BY <1>2, Zenon DEF Based
<1> QED BY <1>1, <1>2, Zenon DEF Sound

\* Names of temporary relations: what goes at the end of the transaction is a table,
\* and an index has one table and no index of its own.
LEMMA NamesOfTemporaries ==
    ASSUME NEW cat, Sound(cat)
    PROVE  /\ \A n : HasTemp(cat, n) => n \in Names
           /\ \A n : HasDrop(cat, n) => HasTemp(cat, n)
           /\ \A n, k : IndexOf(cat, n, k) =>
                /\ HasTemp(cat, n) /\ HasTemp(cat, k) /\ ~HasDrop(cat, n)
                /\ \A j : ~IndexOf(cat, k, j)
                /\ \A j : IndexOf(cat, n, j) => j = k
<1>1. \A n : HasTemp(cat, n) => n \in Names
    BY Fields, Zenon DEF HasTemp
<1>2. \A n : HasDrop(cat, n) => HasTemp(cat, n)
    BY Bases, Zenon DEF HasTemp, HasDrop
<1>3. ASSUME NEW n, NEW k, IndexOf(cat, n, k)
      PROVE  /\ HasTemp(cat, n) /\ HasTemp(cat, k) /\ ~HasDrop(cat, n)
             /\ \A j : ~IndexOf(cat, k, j)
             /\ \A j : IndexOf(cat, n, j) => j = k
  <2>1. PICK r \in cat : r.temp /\ r.kind = "index" /\ r.name = n /\ <<TRUE, k>> \in r.on
    BY <1>3, Zenon DEF IndexOf
  <2>2. PICK q \in cat : q.kind = "table" /\ q.temp = r.temp /\ r.on = {Id(q)}
    BY <2>1, Zenon DEF Sound, Based
  <2>3. q.name = k /\ q.temp
    BY <2>1, <2>2, Fields, Zenon DEF Id
  <2>4. ~HasDrop(cat, n)
    BY <2>1, Fields, Bases, Zenon DEF HasDrop
  <2>5. \A j : ~IndexOf(cat, k, j)
    BY <2>2, <2>3, Fields, Zenon DEF IndexOf
  <2>6. ASSUME NEW j, IndexOf(cat, n, j) PROVE j = k
    <3>1. PICK s \in cat : s.temp /\ s.name = n /\ <<TRUE, j>> \in s.on
      BY <2>6, Zenon DEF IndexOf
    <3>2. s = r
      BY <2>1, <3>1, Fields
    <3> QED BY <2>2, <2>3, <3>1, <3>2, Zenon DEF Id
  <2>7. HasTemp(cat, n) /\ HasTemp(cat, k)
    BY <2>1, <2>3, Zenon DEF HasTemp
  <2> QED BY <2>4, <2>5, <2>6, <2>7, Zenon
<1> QED BY <1>1, <1>2, <1>3, Zenon
-----------------------------------------------------------------------------
(* The Proxy's list by names: it always holds a name plain and with        *)
(* pg_temp, and the table of an index with pg_temp.                        *)

Keyed(R, D, P) ==
    [relations |-> {x \in TempRels : x.name \in R},
     drops     |-> {x \in TempRels : x.name \in D},
     parents   |-> {p \in TempRels \X TempRels : p[2].schema = "pg_temp" /\ <<p[1].name, p[2].name>> \in P}]

TempNames(cat)  == {n \in Names : HasTemp(cat, n)}
DropNames(cat)  == {n \in Names : HasDrop(cat, n)}
IndexPairs(cat) == {p \in Names \X Names : IndexOf(cat, p[1], p[2])}

\* What such a list holds.
LEMMA KeyedHas ==
    ASSUME NEW R, NEW D, NEW P
    PROVE  /\ Keyed(R, D, P) \in Lists
           /\ \A x : x \in Keyed(R, D, P).relations <=> x \in TempRels /\ x.name \in R
           /\ \A x : x \in Keyed(R, D, P).drops <=> x \in TempRels /\ x.name \in D
           /\ \A x, y : <<x, y>> \in Keyed(R, D, P).parents <=>
                x \in TempRels /\ y \in TempRels /\ y.schema = "pg_temp" /\ <<x.name, y.name>> \in P
    BY Zenon DEF Keyed, Lists

\* A list that holds just that is such a list.
LEMMA KeyedIf ==
    ASSUME NEW t \in Lists, NEW R, NEW D, NEW P,
           \A x \in TempRels : x \in t.relations <=> x.name \in R,
           \A x \in TempRels : x \in t.drops <=> x.name \in D,
           \A x, y \in TempRels : <<x, y>> \in t.parents <=> y.schema = "pg_temp" /\ <<x.name, y.name>> \in P
    PROVE  t = Keyed(R, D, P)
<1> DEFINE parents == {p \in TempRels \X TempRels : p[2].schema = "pg_temp" /\ <<p[1].name, p[2].name>> \in P}
<1>1. /\ t.relations \subseteq TempRels /\ t.drops \subseteq TempRels
      /\ t.parents \subseteq TempRels \X TempRels
      /\ t = [relations |-> t.relations, drops |-> t.drops, parents |-> t.parents]
    BY Zenon DEF Lists
<1>2. t.relations = {x \in TempRels : x.name \in R} /\ t.drops = {x \in TempRels : x.name \in D}
    BY <1>1, Zenon
<1>3. \A x, y \in TempRels : <<x, y>> \in parents <=> y.schema = "pg_temp" /\ <<x.name, y.name>> \in P
    BY Zenon
<1>4. parents \subseteq TempRels \X TempRels
    BY Zenon
<1>5. t.parents = parents
  <2> HIDE DEF parents
  <2>1. ASSUME NEW p \in TempRels \X TempRels PROVE p \in t.parents <=> p \in parents
    <3>1. PICK x, y \in TempRels : p = <<x, y>>
      OBVIOUS
    <3> QED BY <1>3, <3>1, Zenon
  <2> QED BY <1>1, <1>4, <2>1, Zenon
<1> QED BY <1>1, <1>2, <1>5, Zenon DEF Keyed

\* The keys of a name (temporaryNameKeys, temporaryNameCanonical).
LEMMA Keys ==
    ASSUME NEW rel \in Rels
    PROVE  /\ rel.name \in Names
           /\ rel.schema # "public" =>
                /\ NameKeys(rel) \subseteq TempRels /\ Canonical(rel) \in TempRels
                /\ \A x \in TempRels : x \in NameKeys(rel) <=> x.name = rel.name
                /\ \A x \in TempRels : x = Canonical(rel) <=> x.schema = "pg_temp" /\ x.name = rel.name
           /\ rel.schema = "public" =>
                \A x \in TempRels : x \notin NameKeys(rel) /\ x # Canonical(rel)
<1>1. rel.name \in Names /\ rel.schema \in {"plain", "pg_temp", "public"}
    BY Zenon DEF Rels
<1>2. \A x \in TempRels : /\ x.schema \in {"plain", "pg_temp"} /\ x.name \in Names
                          /\ x = Rel(x.schema, x.name)
    BY DEF TempRels, Rel
<1>3. \A n \in Names : Rel("plain", n) \in TempRels /\ Rel("pg_temp", n) \in TempRels
    BY Zenon DEF TempRels, Rel
<1>4. \A s, n : Rel(s, n).schema = s /\ Rel(s, n).name = n
    BY Zenon DEF Rel
<1>5. CASE rel.schema = "public"
    BY <1>1, <1>2, <1>5, Zenon DEF NameKeys, Canonical
<1>6. CASE rel.schema # "public"
    BY <1>1, <1>2, <1>3, <1>4, <1>6 DEF NameKeys, Canonical
<1> QED BY <1>1, <1>5, <1>6, Zenon

\* The Proxy finds a name on its list (relationSetContains, temporaryNameSetContains)
\* when the name does not say public and is on it.
LEMMA TrackedIff ==
    ASSUME NEW R, NEW D, NEW P, NEW rel \in Rels
    PROVE  /\ Tracked(Keyed(R, D, P).relations, rel) <=> rel.schema # "public" /\ rel.name \in R
           /\ TrackedName(Keyed(R, D, P).relations, rel) <=> rel.schema # "public" /\ rel.name \in R
<1>1. rel.name \in Names /\ rel.schema \in {"plain", "pg_temp", "public"} /\ rel = Rel(rel.schema, rel.name)
    BY Zenon DEF Rels, Rel
<1>2. \A n \in Names : Rel("plain", n) \in TempRels /\ Rel("pg_temp", n) \in TempRels
    BY DEF TempRels, Rel
<1>3. \A s, n : Rel(s, n).schema = s /\ Rel(s, n).name = n
    BY DEF Rel
<1>4. \A n : Rel("public", n) \notin TempRels
    BY Zenon DEF TempRels, Rel
<1>5. \A x : x \in Keyed(R, D, P).relations <=> x \in TempRels /\ x.name \in R
    BY KeyedHas, Zenon
<1>6. CASE rel.schema = "public"
    BY <1>1, <1>4, <1>5, <1>6, Zenon DEF Tracked, TrackedName, NameKeys
<1>7. CASE rel.schema # "public"
    BY <1>1, <1>2, <1>3, <1>5, <1>7 DEF Tracked, TrackedName, NameKeys
<1> QED BY <1>6, <1>7, Zenon

\* A list mirrors a catalog when its names are the catalog's.
LEMMA MirrorsIff ==
    ASSUME NEW t, NEW cat
    PROVE  Mirrors(t, cat) <=> t = Keyed(TempNames(cat), DropNames(cat), IndexPairs(cat))
<1>1. \A x \in TempRels : x.name \in Names
    BY Zenon DEF TempRels
<1>2. {rel \in TempRels : HasTemp(cat, rel.name)} = {x \in TempRels : x.name \in TempNames(cat)}
    BY <1>1, Zenon DEF TempNames
<1>3. {rel \in TempRels : HasDrop(cat, rel.name)} = {x \in TempRels : x.name \in DropNames(cat)}
    BY <1>1 DEF DropNames
<1>4. \A p \in TempRels \X TempRels :
        IndexOf(cat, p[1].name, p[2].name) <=> <<p[1].name, p[2].name>> \in IndexPairs(cat)
    BY <1>1, Zenon DEF IndexPairs
<1>5. {p \in TempRels \X TempRels : p[2].schema = "pg_temp" /\ IndexOf(cat, p[1].name, p[2].name)}
      = {p \in TempRels \X TempRels : p[2].schema = "pg_temp" /\ <<p[1].name, p[2].name>> \in IndexPairs(cat)}
    BY <1>4, Zenon
<1> QED BY <1>2, <1>3, <1>5, Zenon DEF Mirrors, Keyed

\* A created temporary table (rememberTemporaryRelation).
Extended(R, D, P, n, drop, v) ==
    IF drop /\ ~v THEN Keyed(R, D, P) ELSE Keyed(R \cup {n}, IF drop THEN D \cup {n} ELSE D, P)

\* rememberTemporaryRelation puts a created temporary table on the list under both keys.
LEMMA KeyedRelation ==
    ASSUME NEW R, NEW D, NEW P, NEW v, NEW st, st.rel \in Rels, st.rel.schema # "public"
    PROVE  RememberRelation(Keyed(R, D, P), st, v) = Extended(R, D, P, st.rel.name, st.drop, v)
<1> USE DEF Extended
<1> DEFINE t == Keyed(R, D, P)
           u == [t EXCEPT !.relations = @ \cup NameKeys(st.rel),
                          !.drops = IF st.drop THEN @ \cup NameKeys(st.rel) ELSE @]
<1>1. /\ t \in Lists
      /\ \A x : x \in t.relations <=> x \in TempRels /\ x.name \in R
      /\ \A x : x \in t.drops <=> x \in TempRels /\ x.name \in D
      /\ \A x, y : <<x, y>> \in t.parents <=>
           x \in TempRels /\ y \in TempRels /\ y.schema = "pg_temp" /\ <<x.name, y.name>> \in P
    BY KeyedHas, Zenon
<1>2. /\ NameKeys(st.rel) \subseteq TempRels
      /\ \A x \in TempRels : x \in NameKeys(st.rel) <=> x.name = st.rel.name
    BY Keys, Zenon
<1> HIDE DEF t
<1>3. u \in Lists
    BY <1>1, <1>2, Zenon DEF Lists
<1>4. u = Keyed(R \cup {st.rel.name}, IF st.drop THEN D \cup {st.rel.name} ELSE D, P)
  <2>1. \A x \in TempRels : x \in u.relations <=> x.name \in R \cup {st.rel.name}
    BY <1>1, <1>2, Zenon DEF Lists
  <2>2. \A x \in TempRels : x \in u.drops <=> x.name \in (IF st.drop THEN D \cup {st.rel.name} ELSE D)
    BY <1>1, <1>2, Zenon DEF Lists
  <2>3. \A x, y \in TempRels : <<x, y>> \in u.parents <=> y.schema = "pg_temp" /\ <<x.name, y.name>> \in P
    BY <1>1, Zenon DEF Lists
  <2> HIDE DEF u
  <2> QED BY <1>3, <2>1, <2>2, <2>3, KeyedIf
<1> QED BY <1>4, Zenon DEF RememberRelation, t

\* A created temporary index (rememberTemporaryIndex).
LEMMA KeyedIndex ==
    ASSUME NEW R, NEW D, NEW P \in SUBSET (Names \X Names), NEW st,
           st.rel \in Rels, st.rel.schema # "public", st.new \in Names
    PROVE  RememberIndex(Keyed(R, D, P), st)
           = Keyed(R \cup {st.new}, D, {p \in P : p[1] # st.new} \cup {<<st.new, st.rel.name>>})
<1> DEFINE t == Keyed(R, D, P)
           keys == NameKeys(Rel("plain", st.new))
           u == [t EXCEPT !.relations = @ \cup keys,
                          !.parents = {p \in @ : p[1] \notin keys} \cup (keys \X {Canonical(st.rel)})]
           Q == {p \in P : p[1] # st.new} \cup {<<st.new, st.rel.name>>}
<1>1. /\ t \in Lists
      /\ \A x : x \in t.relations <=> x \in TempRels /\ x.name \in R
      /\ \A x : x \in t.drops <=> x \in TempRels /\ x.name \in D
      /\ \A x, y : <<x, y>> \in t.parents <=>
           x \in TempRels /\ y \in TempRels /\ y.schema = "pg_temp" /\ <<x.name, y.name>> \in P
    BY KeyedHas, Zenon
<1>2. /\ Canonical(st.rel) \in TempRels
      /\ \A x \in TempRels : x = Canonical(st.rel) <=> x.schema = "pg_temp" /\ x.name = st.rel.name
    BY Keys, Zenon
<1>3. keys \subseteq TempRels /\ \A x \in TempRels : x \in keys <=> x.name = st.new
  <2>1. Rel("plain", st.new) \in Rels /\ Rel("plain", st.new).schema # "public"
        /\ Rel("plain", st.new).name = st.new
    BY Zenon DEF Rel, Rels
  <2> QED BY <2>1, Keys, Zenon
<1>4. RememberIndex(t, st) = u
    BY ZenonT(30) DEF RememberIndex
<1> HIDE DEF t, keys
<1>5. u \in Lists
    BY <1>1, <1>2, <1>3, ZenonT(30) DEF Lists
<1>6. \A x \in TempRels : x \in u.relations <=> x.name \in R \cup {st.new}
    BY <1>1, <1>3, Zenon DEF Lists
<1>7. \A x \in TempRels : x \in u.drops <=> x.name \in D
    BY <1>1, Zenon DEF Lists
<1>8. \A x, y \in TempRels : <<x, y>> \in u.parents <=> y.schema = "pg_temp" /\ <<x.name, y.name>> \in Q
  <2>1. u.parents = {p \in t.parents : p[1] \notin keys} \cup (keys \X {Canonical(st.rel)})
    BY <1>1, Zenon DEF Lists
  <2> HIDE DEF u
  <2> QED BY <1>1, <1>2, <1>3, <2>1, Zenon
<1> HIDE DEF u, Q
<1>9. u = Keyed(R \cup {st.new}, D, Q)
    BY <1>5, <1>6, <1>7, <1>8, KeyedIf
<1> QED BY <1>4, <1>9, Zenon DEF t, Q

\* What a rename makes of the tables of the indexes: an index takes its table along,
\* a table its indexes.
Moved(P, n, m) ==
    IF \E k \in Names : <<n, k>> \in P
    THEN {p \in P : p[1] # n} \cup ({m} \X {k \in Names : <<n, k>> \in P})
    ELSE {p \in P : p[2] # n} \cup ({k \in Names : <<k, n>> \in P} \X {m})

MovedDrops(D, P, n, m) ==
    IF n \in D /\ ~\E k \in Names : <<n, k>> \in P THEN (D \ {n}) \cup {m} ELSE D

\* A renamed temporary relation (renameTemporaryRelation).
LEMMA KeyedRename ==
    ASSUME NEW R, NEW D, NEW P \in SUBSET (Names \X Names), NEW st,
           st.rel \in Rels, st.rel.schema # "public", st.new \in Names
    PROVE  RenameRelation(Keyed(R, D, P), st)
           = Keyed((R \ {st.rel.name}) \cup {st.new}, MovedDrops(D, P, st.rel.name, st.new),
                   Moved(P, st.rel.name, st.new))
<1> DEFINE n == st.rel.name  m == st.new
           t == Keyed(R, D, P)
           renamed == [st.rel EXCEPT !.name = st.new]
           old == NameKeys(st.rel)
           new == NameKeys(renamed)
           own == {p \in t.parents : p[1] \in old}
           follow(p) == IF p[2] = Canonical(st.rel) THEN <<p[1], Canonical(renamed)>> ELSE p
           u == [t EXCEPT !.relations = (@ \ old) \cup new,
                          !.parents = (@ \ own) \cup (new \X {p[2] : p \in own})]
           w == [relations |-> (t.relations \ old) \cup new,
                 drops     |-> IF t.drops \cap old # {} THEN (t.drops \ old) \cup new ELSE t.drops,
                 parents   |-> {follow(p) : p \in t.parents}]
<1>1. /\ t \in Lists
      /\ \A x : x \in t.relations <=> x \in TempRels /\ x.name \in R
      /\ \A x : x \in t.drops <=> x \in TempRels /\ x.name \in D
      /\ \A x, y : <<x, y>> \in t.parents <=>
           x \in TempRels /\ y \in TempRels /\ y.schema = "pg_temp" /\ <<x.name, y.name>> \in P
    BY KeyedHas
<1>2. /\ n \in Names /\ Canonical(st.rel) \in TempRels
      /\ \A x \in TempRels : x = Canonical(st.rel) <=> x.schema = "pg_temp" /\ x.name = n
      /\ old \subseteq TempRels /\ \A x \in TempRels : x \in old <=> x.name = n
    BY Keys, Zenon
<1>3. /\ Canonical(renamed) \in TempRels
      /\ \A x \in TempRels : x = Canonical(renamed) <=> x.schema = "pg_temp" /\ x.name = m
      /\ new \subseteq TempRels /\ \A x \in TempRels : x \in new <=> x.name = m
  <2>1. renamed \in Rels /\ renamed.schema # "public" /\ renamed.name = m
    BY Zenon DEF Rels
  <2> QED BY <2>1, Keys, ZenonT(30)
<1>4. RenameRelation(t, st) = IF own # {} THEN u ELSE w
    BY Zenon DEF RenameRelation
<1>5. \A k \in Names : \E x \in TempRels : x.schema = "pg_temp" /\ x.name = k
  <2>1. \A k \in Names : Rel("pg_temp", k) \in TempRels /\ Rel("pg_temp", k).schema = "pg_temp"
                         /\ Rel("pg_temp", k).name = k
    BY Zenon DEF Rel, TempRels
  <2> QED BY <2>1, Zenon
<1>6. \A x \in TempRels : x.name \in Names
    BY Zenon DEF TempRels
<1>7. t.parents \subseteq TempRels \X TempRels
    BY <1>1, Zenon DEF Lists
<1> HIDE DEF t, old, new, renamed
<1>8. own # {} <=> \E k \in Names : <<n, k>> \in P
  <2>1. ASSUME own # {} PROVE \E k \in Names : <<n, k>> \in P
    <3>1. PICK x, y \in TempRels : <<x, y>> \in t.parents /\ x \in old
      BY <1>7, <2>1
    <3> QED BY <1>1, <1>2, <1>6, <3>1
  <2>2. ASSUME NEW k \in Names, <<n, k>> \in P PROVE own # {}
    <3>1. PICK x \in TempRels : x.name = n
      BY <1>2, <1>5, Zenon
    <3>2. PICK y \in TempRels : y.schema = "pg_temp" /\ y.name = k
      BY <1>5, Zenon
    <3>3. <<x, y>> \in own
      BY <1>1, <1>2, <2>2, <3>1, <3>2, Zenon
    <3> QED BY <3>3, Zenon
  <2> QED BY <2>1, <2>2, Zenon
<1>9. CASE own # {}
  <2>1. u.relations = (t.relations \ old) \cup new /\ u.drops = t.drops
        /\ u.parents = (t.parents \ own) \cup (new \X {p[2] : p \in own})
    BY <1>1, Zenon DEF Lists
  <2>2. u \in Lists
    <3>1. own \subseteq TempRels \X TempRels
      BY <1>7, Zenon
    <3>2. (t.parents \ own) \cup (new \X {p[2] : p \in own}) \subseteq TempRels \X TempRels
      BY <1>3, <1>7, <3>1, Zenon
    <3> HIDE DEF own
    <3> QED BY <1>1, <1>3, <3>2, Zenon DEF Lists
  <2>3. \A y \in TempRels :
          y \in {p[2] : p \in own} <=> y.schema = "pg_temp" /\ y.name \in {k \in Names : <<n, k>> \in P}
    <3>1. ASSUME NEW y \in TempRels, y \in {p[2] : p \in own}
          PROVE  y.schema = "pg_temp" /\ y.name \in {k \in Names : <<n, k>> \in P}
      <4>1. PICK x \in TempRels : <<x, y>> \in t.parents /\ x \in old
        BY <1>7, <3>1
      <4> QED BY <1>1, <1>2, <1>6, <4>1, Zenon
    <3>2. ASSUME NEW y \in TempRels, y.schema = "pg_temp", y.name \in {k \in Names : <<n, k>> \in P}
          PROVE  y \in {p[2] : p \in own}
      <4>1. PICK x \in TempRels : x.name = n
        BY <1>2, <1>5, Zenon
      <4>2. <<x, y>> \in own
        BY <1>1, <1>2, <3>2, <4>1, Zenon
      <4> QED BY <4>2
    <3> QED BY <3>1, <3>2, Zenon
  <2>4. \A x, y \in TempRels :
          <<x, y>> \in u.parents <=>
            y.schema = "pg_temp" /\ <<x.name, y.name>> \in
              {p \in P : p[1] # n} \cup ({m} \X {k \in Names : <<n, k>> \in P})
    <3> DEFINE tables == {p[2] : p \in own}
    <3>1. \A x, y \in TempRels : <<x, y>> \in own <=> <<x, y>> \in t.parents /\ x \in old
      BY Zenon
    <3>2. \A y \in TempRels :
            y \in tables <=> y.schema = "pg_temp" /\ y.name \in {k \in Names : <<n, k>> \in P}
      BY <2>3, Zenon
    <3>3. u.parents = (t.parents \ own) \cup (new \X tables)
      BY <2>1, Zenon
    <3> HIDE DEF u, own, tables
    <3> QED BY <1>1, <1>2, <1>3, <3>1, <3>2, <3>3, Zenon
  <2>5. /\ \A x \in TempRels : x \in u.relations <=> x.name \in (R \ {n}) \cup {m}
        /\ \A x \in TempRels : x \in u.drops <=> x.name \in D
    BY <1>1, <1>2, <1>3, <2>1, Zenon
  <2>6. Moved(P, n, m) = {p \in P : p[1] # n} \cup ({m} \X {k \in Names : <<n, k>> \in P})
        /\ MovedDrops(D, P, n, m) = D
    BY <1>8, <1>9, Zenon DEF Moved, MovedDrops
  <2> DEFINE A == (R \ {n}) \cup {m}  E == MovedDrops(D, P, n, m)  Q == Moved(P, n, m)
  <2>7. u = Keyed(A, E, Q)
    <3>1. /\ \A x, y \in TempRels : <<x, y>> \in u.parents <=> y.schema = "pg_temp" /\ <<x.name, y.name>> \in Q
          /\ \A x \in TempRels : x \in u.relations <=> x.name \in A
          /\ \A x \in TempRels : x \in u.drops <=> x.name \in E
      BY <2>4, <2>5, <2>6, Zenon
    <3> HIDE DEF u, own, A, E, Q
    <3> QED BY ONLY <2>2, <3>1, KeyedIf, ZenonT(30)
  <2> QED BY <1>4, <1>9, <2>7, Zenon DEF t
<1>10. CASE own = {}
  <2>1. w.relations = (t.relations \ old) \cup new
        /\ w.drops = (IF t.drops \cap old # {} THEN (t.drops \ old) \cup new ELSE t.drops)
        /\ w.parents = {follow(p) : p \in t.parents}
    BY Zenon
  <2>2. \A p \in t.parents : follow(p) \in TempRels \X TempRels
    BY <1>3, <1>7, Zenon
  <2>3. w \in Lists
    <3>1. (t.relations \ old) \cup new \subseteq TempRels
          /\ (IF t.drops \cap old # {} THEN (t.drops \ old) \cup new ELSE t.drops) \subseteq TempRels
      BY <1>1, <1>3, Zenon DEF Lists
    <3>2. {follow(p) : p \in t.parents} \subseteq TempRels \X TempRels
      BY <2>2, ZenonT(30)
    <3> HIDE DEF follow
    <3> QED BY <3>1, <3>2, Zenon DEF Lists
  <2>4. t.drops \cap old # {} <=> n \in D
    BY <1>1, <1>2, <1>5, Zenon
  <2>5. \A x, y \in TempRels :
          <<x, y>> \in w.parents <=>
            y.schema = "pg_temp" /\ <<x.name, y.name>> \in
              {p \in P : p[2] # n} \cup ({k \in Names : <<k, n>> \in P} \X {m})
    <3>1. ASSUME NEW x \in TempRels, NEW y \in TempRels, <<x, y>> \in w.parents
          PROVE  y.schema = "pg_temp" /\ <<x.name, y.name>> \in
                   {p \in P : p[2] # n} \cup ({k \in Names : <<k, n>> \in P} \X {m})
      <4>1. PICK p \in t.parents : <<x, y>> = follow(p)
        BY <2>1, <3>1, Zenon
      <4>2. PICK z \in TempRels : p = <<p[1], z>> /\ p[2] = z
        BY <1>7
      <4>3. x = p[1] /\ y = IF z = Canonical(st.rel) THEN Canonical(renamed) ELSE z
        BY <4>1, <4>2
      <4> QED BY <1>1, <1>2, <1>3, <1>6, <4>2, <4>3
    <3>2. ASSUME NEW x \in TempRels, NEW y \in TempRels, y.schema = "pg_temp",
                 <<x.name, y.name>> \in {p \in P : p[2] # n} \cup ({k \in Names : <<k, n>> \in P} \X {m})
          PROVE  <<x, y>> \in w.parents
      <4>1. CASE <<x.name, y.name>> \in P /\ y.name # n
        <5>1. <<x, y>> \in t.parents /\ y # Canonical(st.rel)
          BY <1>1, <1>2, <3>2, <4>1, Zenon
        <5>2. follow(<<x, y>>) = <<x, y>>
          BY <5>1, Zenon
        <5> QED BY <2>1, <5>1, <5>2, Zenon
      <4>2. CASE <<x.name, n>> \in P /\ y.name = m
        <5>1. <<x, Canonical(st.rel)>> \in t.parents
          BY <1>1, <1>2, <4>2, Zenon
        <5>2. follow(<<x, Canonical(st.rel)>>) = <<x, y>>
          BY <1>3, <3>2, <4>2, Zenon
        <5> QED BY <2>1, <5>1, <5>2, Zenon
      <4> QED BY <3>2, <4>1, <4>2, Zenon
    <3> QED BY <3>1, <3>2, Zenon
  <2>6. /\ \A x \in TempRels : x \in w.relations <=> x.name \in (R \ {n}) \cup {m}
        /\ \A x \in TempRels : x \in w.drops <=> x.name \in (IF n \in D THEN (D \ {n}) \cup {m} ELSE D)
    BY <1>1, <1>2, <1>3, <2>1, <2>4, Zenon
  <2>7. Moved(P, n, m) = {p \in P : p[2] # n} \cup ({k \in Names : <<k, n>> \in P} \X {m})
        /\ MovedDrops(D, P, n, m) = (IF n \in D THEN (D \ {n}) \cup {m} ELSE D)
    BY <1>8, <1>10, Zenon DEF Moved, MovedDrops
  <2> DEFINE A == (R \ {n}) \cup {m}  E == MovedDrops(D, P, n, m)  Q == Moved(P, n, m)
  <2>8. w = Keyed(A, E, Q)
    <3> HIDE DEF w
    <3>1. /\ \A x, y \in TempRels : <<x, y>> \in w.parents <=> y.schema = "pg_temp" /\ <<x.name, y.name>> \in Q
          /\ \A x \in TempRels : x \in w.relations <=> x.name \in A
          /\ \A x \in TempRels : x \in w.drops <=> x.name \in E
      BY <2>5, <2>6, <2>7, Zenon
    <3> HIDE DEF own, A, E, Q
    <3> QED BY ONLY <2>3, <3>1, KeyedIf, ZenonT(30)
  <2> QED BY <1>4, <1>10, <2>8 DEF t
<1> QED BY <1>9, <1>10, Zenon

\* What is left when the names in H go, and the indexes of those in G.
Without(R, P, H, G) == {n \in R : n \notin H /\ ~\E k \in G : <<n, k>> \in P}
Between(P, H, G)    == {p \in P : p[1] \notin H /\ p[2] \notin G}

Removed(t, keys, tables, drops) ==
    LET kept == {p \in t.parents : p[1] \notin keys}
        with == {p \in kept : p[2] \in tables}
    IN  [relations |-> (t.relations \ keys) \ {p[1] : p \in with}, drops |-> drops, parents |-> kept \ with]

\* Taking keys off the list together with the indexes of their tables.
LEMMA KeyedRemoval ==
    ASSUME NEW R, NEW D, NEW P \in SUBSET (Names \X Names),
           NEW H, NEW G, NEW keys, NEW tables, NEW drops, NEW E,
           \A x \in TempRels : x \in keys <=> x.name \in H,
           \A x \in TempRels : x \in tables <=> x.schema = "pg_temp" /\ x.name \in G,
           drops \subseteq TempRels, \A x \in TempRels : x \in drops <=> x.name \in E
    PROVE  Removed(Keyed(R, D, P), keys, tables, drops) = Keyed(Without(R, P, H, G), E, Between(P, H, G))
<1> DEFINE t    == Keyed(R, D, P)
           kept == {p \in t.parents : p[1] \notin keys}
           with == {p \in kept : p[2] \in tables}
           gone == {p[1] : p \in with}
           u    == [relations |-> (t.relations \ keys) \ gone, drops |-> drops, parents |-> kept \ with]
<1>1. /\ t \in Lists
      /\ \A x : x \in t.relations <=> x \in TempRels /\ x.name \in R
      /\ \A x, y : <<x, y>> \in t.parents <=>
           x \in TempRels /\ y \in TempRels /\ y.schema = "pg_temp" /\ <<x.name, y.name>> \in P
    BY KeyedHas, Zenon
<1> HIDE DEF t
<1>2. t.parents \subseteq TempRels \X TempRels /\ t.relations \subseteq TempRels
    BY <1>1, Zenon DEF Lists
<1>3. \A k \in Names : \E x \in TempRels : x.schema = "pg_temp" /\ x.name = k
  <2>1. \A k \in Names : Rel("pg_temp", k) \in TempRels /\ Rel("pg_temp", k).schema = "pg_temp"
                         /\ Rel("pg_temp", k).name = k
    BY Zenon DEF Rel, TempRels
  <2> QED BY <2>1, Zenon
<1>4. \A x, y \in TempRels : <<x, y>> \in with <=> <<x, y>> \in t.parents /\ x.name \notin H /\ y.name \in G
    BY <1>1, Zenon
<1>5. \A x, y \in TempRels :
        <<x, y>> \in kept \ with <=> <<x, y>> \in t.parents /\ x.name \notin H /\ y.name \notin G
    BY <1>1, Zenon
<1>6. \A x \in TempRels :
        x \in gone <=> x.name \notin H /\ \E k \in G : <<x.name, k>> \in P
  <2>1. ASSUME NEW x \in TempRels, x \in gone
        PROVE  x.name \notin H /\ \E k \in G : <<x.name, k>> \in P
    <3>1. PICK y \in TempRels : <<x, y>> \in with
      BY <1>2, <2>1
    <3> QED BY <1>1, <1>4, <3>1, Zenon
  <2>2. ASSUME NEW x \in TempRels, x.name \notin H, NEW k \in G, <<x.name, k>> \in P
        PROVE  x \in gone
    <3>1. PICK y \in TempRels : y.schema = "pg_temp" /\ y.name = k
      BY <1>3, <2>2, Zenon
    <3>2. <<x, y>> \in with
      BY <1>1, <1>4, <2>2, <3>1, Zenon
    <3> QED BY <3>2
  <2> QED BY <2>1, <2>2, Zenon
<1>7. kept \ with \subseteq TempRels \X TempRels
    BY <1>2, Zenon
<1> HIDE DEF kept, with, gone
<1>8. u \in Lists
    BY <1>2, <1>7, Zenon DEF Lists
<1>9. \A x \in TempRels : x \in u.relations <=> x.name \in Without(R, P, H, G)
    BY <1>1, <1>6, Zenon DEF Without
<1>10. \A x, y \in TempRels :
         <<x, y>> \in u.parents <=> y.schema = "pg_temp" /\ <<x.name, y.name>> \in Between(P, H, G)
    BY <1>1, <1>5, Zenon DEF Between
<1>11. \A x \in TempRels : x \in u.drops <=> x.name \in E
    BY Zenon
<1> DEFINE A == Without(R, P, H, G)  Q == Between(P, H, G)
<1>12. u = Keyed(A, E, Q)
  <2> HIDE DEF u, A, Q
  <2> QED BY <1>8, <1>9, <1>10, <1>11, KeyedIf DEF A, Q
<1> QED BY <1>12, Zenon DEF Removed, u, gone, with, kept, t

\* The names a DROP finds among the temporary relations.
Hits(names) == {rel.name : rel \in {q \in names : q.schema # "public"}}

\* Dropped names (forgetTemporaryName).
LEMMA KeyedForget ==
    ASSUME NEW R, NEW D, NEW P \in SUBSET (Names \X Names), NEW names \in SUBSET Rels, NEW cascade,
           NEW G, (cascade /\ G = Hits(names)) \/ (~cascade /\ G = {})
    PROVE  Forget(Keyed(R, D, P), names, cascade)
           = Keyed(Without(R, P, Hits(names), G), D \ Hits(names), Between(P, Hits(names), G))
<1> DEFINE t      == Keyed(R, D, P)
           H      == Hits(names)
           keys   == UNION {NameKeys(rel) : rel \in names}
           tables == IF cascade THEN {Canonical(rel) : rel \in names} ELSE {}
           drops  == t.drops \ keys
           E      == D \ H
<1>1. \A x \in TempRels : x \in keys <=> x.name \in H
    BY Keys DEF Hits
<1>2. \A x \in TempRels : x \in tables <=> x.schema = "pg_temp" /\ x.name \in G
    BY Keys DEF Hits
<1>3. drops \subseteq TempRels /\ \A x \in TempRels : x \in drops <=> x.name \in E
    BY <1>1, KeyedHas, Zenon
<1>4. Forget(t, names, cascade) = Removed(t, keys, tables, drops)
    BY Zenon DEF Forget, Removed
<1> HIDE DEF H, keys, tables, drops, E
<1>5. Removed(Keyed(R, D, P), keys, tables, drops) = Keyed(Without(R, P, H, G), E, Between(P, H, G))
    BY <1>1, <1>2, <1>3, KeyedRemoval
<1> QED BY <1>4, <1>5, Zenon DEF H, E

\* The end of the transaction (applyTemporaryOnCommitDrop).
LEMMA KeyedApply ==
    ASSUME NEW R, NEW D, NEW P \in SUBSET (Names \X Names)
    PROVE  ApplyOnCommitDrop(Keyed(R, D, P)) = Keyed(Without(R, P, D, D), {}, Between(P, D, D))
<1> DEFINE t      == Keyed(R, D, P)
           tables == {Canonical(key) : key \in t.drops}
<1>1. t.drops \subseteq TempRels /\ \A x \in TempRels : x \in t.drops <=> x.name \in D
    BY KeyedHas, Zenon
<1>2. \A x \in TempRels : x \in Rels /\ x.schema # "public"
    BY Zenon DEF TempRels, Rels
<1>3. \A x \in TempRels : x \in tables <=> x.schema = "pg_temp" /\ x.name \in D
  <2>1. ASSUME NEW x \in TempRels, x \in tables PROVE x.schema = "pg_temp" /\ x.name \in D
    <3> HIDE DEF t
    <3>1. PICK key \in t.drops : x = Canonical(key)
      BY <2>1, Zenon
    <3> QED BY <1>1, <1>2, <3>1, Keys, Zenon
  <2>2. ASSUME NEW x \in TempRels, x.schema = "pg_temp", x.name \in D PROVE x \in tables
    <3> HIDE DEF t
    <3>1. x \in t.drops /\ x = Canonical(x)
      BY <1>1, <1>2, <2>2, Keys, Zenon
    <3> QED BY <3>1, Zenon
  <2> QED BY <2>1, <2>2, Zenon
<1> DEFINE keys == t.drops
<1>4. ApplyOnCommitDrop(t) = Removed(t, keys, tables, {})
    BY Zenon DEF ApplyOnCommitDrop, Removed
<1>5. \A x \in TempRels : x \in keys <=> x.name \in D
    BY <1>1, Zenon
<1> HIDE DEF tables, keys
<1>6. Removed(Keyed(R, D, P), keys, tables, {}) = Keyed(Without(R, P, D, D), {}, Between(P, D, D))
    BY <1>3, <1>5, KeyedRemoval
<1> QED BY <1>4, <1>6, Zenon

\* DISCARD forgets everything.
LEMMA KeyedNothing == NoTemporaries = Keyed({}, {}, {})
    BY Zenon DEF NoTemporaries, Keyed
-----------------------------------------------------------------------------
(* What a statement does to PostgreSQL's names.                            *)

Durables(cat) == {r \in cat : ~r.temp}

ListOf(cat) == Keyed(TempNames(cat), DropNames(cat), IndexPairs(cat))

\* The schema registry knows the names of durable tables only.
LEMMA DurablesDecide ==
    ASSUME NEW cat, NEW after, Durables(after) = Durables(cat)
    PROVE  Durable(after) = Durable(cat)
<1>1. \A c : {q \in c : ~q.temp /\ q.kind = "table"} = {q \in Durables(c) : q.kind = "table"}
    BY Zenon DEF Durables
<1> QED BY <1>1, Zenon DEF Durable

\* CREATE TEMP TABLE.
LEMMA AddTable ==
    ASSUME NEW cat, Sound(cat), NEW n \in Names, NEW d \in BOOLEAN, ~HasTemp(cat, n)
    PROVE  LET after == cat \cup {Relation(n, TRUE, "table", {}, d)}
           IN  /\ Sound(after) /\ Durables(after) = Durables(cat)
               /\ TempNames(after) = TempNames(cat) \cup {n}
               /\ DropNames(after) = (IF d THEN DropNames(cat) \cup {n} ELSE DropNames(cat))
               /\ IndexPairs(after) = IndexPairs(cat)
<1> DEFINE r == Relation(n, TRUE, "table", {}, d)
           after == cat \cup {r}
<1>1. r \in Relations /\ r.name = n /\ r.temp = TRUE /\ r.kind = "table" /\ r.on = {} /\ r.drop = d
    BY Zenon DEF Relation, Relations
<1> HIDE DEF r
<1>2. Sound(after)
  <2>1. Based(cat, r)
    BY <1>1, Zenon DEF Based
  <2>2. \A q \in cat : ~(q.temp = r.temp /\ q.name = r.name)
    BY <1>1, Zenon DEF HasTemp
  <2> QED BY <1>1, <2>1, <2>2, AddedSound, Zenon
<1>3. Durables(after) = Durables(cat)
    BY <1>1, Zenon DEF Durables
<1>4. TempNames(after) = TempNames(cat) \cup {n}
    BY <1>1, Zenon DEF TempNames, HasTemp
<1>5. DropNames(after) = IF d THEN DropNames(cat) \cup {n} ELSE DropNames(cat)
    BY <1>1, Zenon DEF DropNames, HasDrop
<1>6. IndexPairs(after) = IndexPairs(cat)
    BY <1>1, Zenon DEF IndexPairs, IndexOf
<1> QED BY <1>2, <1>3, <1>4, <1>5, <1>6, Zenon DEF r

\* A catalog after DDL on temporary relations: sound, with the durable relations of
\* before and the temporary names, those to go and the indexes R, D and P.
Becomes(cat, after, R, D, P) ==
    /\ Sound(after) /\ Durables(after) = Durables(cat)
    /\ TempNames(after) = R /\ DropNames(after) = D /\ IndexPairs(after) = P

\* CREATE INDEX on a temporary table.
LEMMA AddIndex ==
    ASSUME NEW cat, Sound(cat), NEW b \in cat, b.temp, b.kind = "table", NEW n \in Names, ~HasTemp(cat, n)
    PROVE  Becomes(cat, cat \cup {Relation(n, TRUE, "index", {Id(b)}, FALSE)}, TempNames(cat) \cup {n},
                   DropNames(cat), IndexPairs(cat) \cup {<<n, b.name>>})
<1> DEFINE r == Relation(n, TRUE, "index", {Id(b)}, FALSE)
           after == cat \cup {r}
<1>1. b.name \in Names /\ b.temp = TRUE
    BY Fields, Zenon
<1>2. /\ r \in Relations /\ r.name = n /\ r.temp = TRUE /\ r.kind = "index" /\ r.on = {<<TRUE, b.name>>}
      /\ r.drop = FALSE
  <2> DEFINE on == {Id(b)}
  <2>1. on = {<<TRUE, b.name>>} /\ on \in SUBSET (BOOLEAN \X Names)
    <3>1. Id(b) = <<TRUE, b.name>>
      BY <1>1, Zenon DEF Id
    <3>2. b.temp \in BOOLEAN /\ b.name \in Names
      BY Fields, Zenon
    <3>3. \A x \in BOOLEAN, y \in Names : {<<x, y>>} \in SUBSET (BOOLEAN \X Names)
      OBVIOUS
    <3> QED BY <3>1, <3>2, <3>3, Zenon DEF Id
  <2> HIDE DEF on
  <2>2. Relation(n, TRUE, "index", on, FALSE) \in Relations
    BY <2>1, Zenon DEF Relation, Relations
  <2>3. r = Relation(n, TRUE, "index", on, FALSE)
    BY Zenon DEF on
  <2> QED BY <2>1, <2>2, <2>3, Zenon DEF Relation
<1> HIDE DEF r
<1>3. Sound(after)
  <2>1. Based(cat, r)
    BY <1>1, <1>2, Zenon DEF Based, Id
  <2>2. \A q \in cat : ~(q.temp = r.temp /\ q.name = r.name)
    BY <1>2, Zenon DEF HasTemp
  <2> QED BY <1>2, <2>1, <2>2, AddedSound, Zenon
<1>4. Durables(after) = Durables(cat)
    BY <1>2, Zenon DEF Durables
<1>5. TempNames(after) = TempNames(cat) \cup {n}
    BY <1>2, Zenon DEF TempNames, HasTemp
<1>6. DropNames(after) = DropNames(cat)
    BY <1>2, Zenon DEF DropNames, HasDrop
<1>7. IndexPairs(after) = IndexPairs(cat) \cup {<<n, b.name>>}
  <2>1. \A m, k \in Names : IndexOf(after, m, k) <=> IndexOf(cat, m, k) \/ (m = n /\ k = b.name)
    BY <1>1, <1>2, Zenon DEF IndexOf
  <2> QED BY <1>1, <2>1 DEF IndexPairs
<1> QED BY <1>3, <1>4, <1>5, <1>6, <1>7, Zenon DEF r, Becomes

\* Durable DDL leaves the names of temporary relations alone.
LEMMA SameTemporaries ==
    ASSUME NEW cat, Sound(cat), NEW after, Sound(after),
           \A r : r.temp => (r \in after <=> r \in cat)
    PROVE  /\ TempNames(after) = TempNames(cat) /\ DropNames(after) = DropNames(cat)
           /\ IndexPairs(after) = IndexPairs(cat)
<1>1. \A r \in cat : r.drop => r.temp
    BY Bases, Zenon
<1>2. \A r \in after : r.drop => r.temp
    BY Bases, Zenon
<1>3. TempNames(after) = TempNames(cat)
    BY Zenon DEF TempNames, HasTemp
<1>4. DropNames(after) = DropNames(cat)
    BY <1>1, <1>2, Zenon DEF DropNames, HasDrop
<1>5. IndexPairs(after) = IndexPairs(cat)
    BY Zenon DEF IndexPairs, IndexOf
<1> QED BY <1>3, <1>4, <1>5, Zenon

\* DROP of temporary relations takes their indexes along and nothing else.
LEMMA DropTemporaries ==
    ASSUME NEW cat, Sound(cat), NEW S, S \subseteq cat, \A r \in S : r.temp, NEW H, H = {r.name : r \in S}
    PROVE  Becomes(cat, cat \ Dependents(cat, S), Without(TempNames(cat), IndexPairs(cat), H, H),
                   DropNames(cat) \ H, Between(IndexPairs(cat), H, H))
<1> DEFINE after == cat \ Dependents(cat, S)
<1>1. Sound(after)
    BY DroppedSound, Zenon
<1>2. Durables(after) = Durables(cat)
    BY DependentsOfKind, Zenon DEF Durables
<1>3. ASSUME NEW r \in cat, r.temp
      PROVE  r \in after <=> r.name \notin H /\ ~\E k \in H : <<r.name, k>> \in IndexPairs(cat)
  <2>1. r \in S <=> r.name \in H
    BY <1>3, Fields
  <2>2. ASSUME NEW q \in S, r.kind = "index", Id(q) \in r.on
        PROVE  <<r.name, q.name>> \in IndexPairs(cat)
    <3>1. Id(q) = <<TRUE, q.name>> /\ q.name \in Names /\ r.name \in Names
      BY Fields, Zenon DEF Id
    <3> QED BY <1>3, <2>2, <3>1, Zenon DEF IndexPairs, IndexOf
  <2>3. ASSUME NEW q \in S, <<r.name, q.name>> \in IndexPairs(cat)
        PROVE  r.kind = "index" /\ Id(q) \in r.on
    <3>1. PICK p \in cat : p.temp /\ p.kind = "index" /\ p.name = r.name /\ <<TRUE, q.name>> \in p.on
      BY <2>3, Zenon DEF IndexPairs, IndexOf
    <3>2. p = r
      BY <1>3, <3>1, Fields, Zenon
    <3>3. Id(q) = <<TRUE, q.name>>
      BY Fields, Zenon DEF Id
    <3> QED BY <3>1, <3>2, <3>3, Zenon
  <2>4. r \in Dependents(cat, S) <=> r \in S \/ (r.kind = "index" /\ \E q \in S : Id(q) \in r.on)
    BY <1>3, DependentsOfKind, Zenon
  <2> QED BY <2>1, <2>2, <2>3, <2>4, Zenon
<1>4. \A r \in after : r \in cat
    BY Zenon
<1> HIDE DEF after
<1>5. TempNames(after) = Without(TempNames(cat), IndexPairs(cat), H, H)
    BY <1>3, <1>4, Zenon DEF TempNames, HasTemp, Without
<1>6. DropNames(after) = DropNames(cat) \ H
  <2>1. \A n \in Names : HasDrop(cat, n) => ~\E k : <<n, k>> \in IndexPairs(cat)
    BY NamesOfTemporaries, Zenon DEF IndexPairs
  <2>2. \A r \in cat : r.drop => r.temp
    BY Bases, Zenon
  <2> QED BY <1>3, <1>4, <2>1, <2>2, Zenon DEF DropNames, HasDrop
<1>7. IndexPairs(after) = Between(IndexPairs(cat), H, H)
  <2>1. ASSUME NEW n \in Names, NEW k \in Names
        PROVE  IndexOf(after, n, k) <=> IndexOf(cat, n, k) /\ n \notin H /\ k \notin H
    <3>1. \A j : <<n, j>> \in IndexPairs(cat) /\ IndexOf(cat, n, k) => j = k
      BY NamesOfTemporaries, Zenon DEF IndexPairs
    <3>2. IndexOf(cat, n, k) => <<n, k>> \in IndexPairs(cat)
      BY Zenon DEF IndexPairs
    <3> QED BY <1>3, <1>4, <3>1, <3>2, Zenon DEF IndexOf
  <2> QED BY <2>1, Zenon DEF IndexPairs, Between
<1> QED BY <1>1, <1>2, <1>5, <1>6, <1>7, Zenon DEF after, Becomes

\* A relation after ALTER ... RENAME of r to m: the others follow its new name.
Following(r, m, q) ==
    IF q = r THEN [r EXCEPT !.name = m]
    ELSE [q EXCEPT !.on = {IF d = Id(r) THEN <<r.temp, m>> ELSE d : d \in @}]

\* Only names change, the renamed relation's and what others call it.
LEMMA FollowingIs ==
    ASSUME NEW cat, Sound(cat), NEW r \in cat, NEW m \in Names, NEW q \in cat
    PROVE  /\ Following(r, m, q) \in Relations
           /\ Following(r, m, q).name = (IF q = r THEN m ELSE q.name)
           /\ Following(r, m, q).temp = q.temp /\ Following(r, m, q).kind = q.kind
           /\ Following(r, m, q).drop = q.drop
           /\ q.on = {} => Following(r, m, q).on = {}
           /\ \A p \in cat : q.on = {Id(p)} => Following(r, m, q).on = {Id(Following(r, m, p))}
           /\ q # r /\ Id(r) \notin q.on => Following(r, m, q) = q
<1>1. \A p \in cat : /\ p \in Relations /\ p.name \in Names /\ p.temp \in BOOLEAN
                     /\ p.on \in SUBSET (BOOLEAN \X Names)
    BY Fields, Zenon
<1> DEFINE on(p) == {IF d = Id(r) THEN <<r.temp, m>> ELSE d : d \in p.on}
<1>2. \A p \in cat : on(p) \in SUBSET (BOOLEAN \X Names)
  <2>1. <<r.temp, m>> \in BOOLEAN \X Names
    BY <1>1, Zenon
  <2> QED BY <1>1, <2>1, Zenon
<1>3. Following(r, m, r) = [r EXCEPT !.name = m] /\ \A p \in cat : p # r => Following(r, m, p) = [p EXCEPT !.on = on(p)]
    BY Zenon DEF Following
<1>4. /\ Following(r, m, r) \in Relations /\ Following(r, m, r).name = m
      /\ Following(r, m, r).temp = r.temp /\ Following(r, m, r).kind = r.kind
      /\ Following(r, m, r).drop = r.drop /\ Following(r, m, r).on = r.on
    BY <1>1, <1>3 DEF Relations
<1>5. ASSUME NEW p \in cat, p # r
      PROVE  /\ Following(r, m, p) \in Relations /\ Following(r, m, p).name = p.name
             /\ Following(r, m, p).temp = p.temp /\ Following(r, m, p).kind = p.kind
             /\ Following(r, m, p).drop = p.drop /\ Following(r, m, p).on = on(p)
  <2> DEFINE after == on(p)
  <2>1. p \in Relations /\ after \in SUBSET (BOOLEAN \X Names) /\ Following(r, m, p) = [p EXCEPT !.on = after]
    BY <1>1, <1>2, <1>3, <1>5, Zenon
  <2> HIDE DEF after
  <2>2. /\ Following(r, m, p) \in Relations /\ Following(r, m, p).name = p.name
        /\ Following(r, m, p).temp = p.temp /\ Following(r, m, p).kind = p.kind
        /\ Following(r, m, p).drop = p.drop /\ Following(r, m, p).on = after
    BY <2>1, Zenon DEF Relations
  <2> QED BY <2>2, Zenon DEF after
<1>6. \A p \in cat : Id(Following(r, m, p)) = IF p = r THEN <<r.temp, m>> ELSE Id(p)
    BY <1>4, <1>5, Zenon DEF Id
<1>7. \A p \in cat : Id(p) = Id(r) => p = r
    BY Zenon DEF Sound
<1>8. q.on = {} => Following(r, m, q).on = {}
    BY <1>4, <1>5, Zenon
<1>9. ASSUME NEW p \in cat, q.on = {Id(p)} PROVE Following(r, m, q).on = {Id(Following(r, m, p))}
  <2>1. CASE q # r
    <3>1. on(q) = {IF Id(p) = Id(r) THEN <<r.temp, m>> ELSE Id(p)}
      BY <1>9, Zenon
    <3>2. Id(Following(r, m, p)) = IF Id(p) = Id(r) THEN <<r.temp, m>> ELSE Id(p)
      BY <1>6, <1>7, Zenon
    <3> QED BY <1>5, <2>1, <3>1, <3>2, Zenon
  <2>2. CASE q = r
    <3>1. p # r
      <4>1. Based(cat, r)
        BY Zenon DEF Sound
      <4>2. r.kind # "table"
        BY <1>9, <2>2, <4>1, Zenon DEF Based
      <4>3. CASE r.kind = "index"
        BY <1>9, <2>2, <4>3, Bases, Zenon
      <4>4. CASE r.kind = "view"
        BY <1>7, <1>9, <2>2, <4>1, <4>4 DEF Based, Sound
      <4> QED BY <4>2, <4>3, <4>4, Fields, Zenon
    <3> QED BY <1>4, <1>6, <1>9, <2>2, <3>1, Zenon
  <2> QED BY <2>1, <2>2, Zenon
<1>10. ASSUME q # r, Id(r) \notin q.on PROVE Following(r, m, q) = q
  <2>1. on(q) = q.on
    BY <1>10, Zenon
  <2>2. Following(r, m, q) = [q EXCEPT !.on = q.on]
    BY <1>3, <1>10, <2>1, Zenon
  <2> QED BY <1>1, <2>2, Zenon DEF Relations
<1> QED BY <1>4, <1>5, <1>8, <1>9, <1>10, Zenon

\* The catalog after r is renamed to m, which was free.
RenamedTo(cat, r, m, after) ==
    /\ after = {Following(r, m, q) : q \in cat}
    /\ \A q \in cat : ~(q.temp = r.temp /\ q.name = m)

\* What RENAME leaves.
LEMMA RenamedIs ==
    ASSUME NEW cat, Sound(cat), NEW st, st.new \in Names, st.rel \in Rels, NEW after \in RunRename(cat, st)
    PROVE  \E r \in Found(cat, st.rel) : RenamedTo(cat, r, st.new, after)
<1> DEFINE m == st.new
           moved(r) == [r EXCEPT !.name = m]
           follow(r, q) == [q EXCEPT !.on = {IF d = Id(r) THEN Id(moved(r)) ELSE d : d \in @}]
<1>1. PICK r \in Found(cat, st.rel) :
        after \in IF Id(moved(r)) \in {Id(q) : q \in cat} THEN {}
                  ELSE {{follow(r, q) : q \in cat \ {r}} \cup {moved(r)}}
    BY Zenon DEF RunRename
<1>2. r \in cat /\ r \in Relations
    BY FoundIs, Fields, Zenon
<1>3. Id(moved(r)) = <<r.temp, m>>
    BY <1>2, Zenon DEF Id, Relations
<1>4. /\ after = {follow(r, q) : q \in cat \ {r}} \cup {moved(r)}
      /\ \A q \in cat : Id(moved(r)) # Id(q)
    BY <1>1, Zenon
<1>5. Following(r, m, r) = moved(r) /\ \A q \in cat \ {r} : Following(r, m, q) = follow(r, q)
    BY <1>3, Zenon DEF Following
<1>6. after = {Following(r, m, q) : q \in cat}
  <2> HIDE DEF moved, follow
  <2> QED BY <1>2, <1>4, <1>5, Zenon
<1>7. \A q \in cat : ~(q.temp = r.temp /\ q.name = m)
    BY <1>3, <1>4, Zenon DEF Id
<1> QED BY <1>6, <1>7, Zenon DEF RenamedTo

\* RENAME to a name that is free keeps a catalog sound.
LEMMA RenamedSound ==
    ASSUME NEW cat, Sound(cat), NEW r \in cat, NEW m \in Names,
           \A q \in cat : ~(q.temp = r.temp /\ q.name = m)
    PROVE  Sound({Following(r, m, q) : q \in cat})
<1> DEFINE g(q)  == Following(r, m, q)
           after == {g(q) : q \in cat}
<1>1. \A q \in cat : /\ g(q) \in Relations /\ g(q).name = (IF q = r THEN m ELSE q.name)
                     /\ g(q).temp = q.temp /\ g(q).kind = q.kind /\ g(q).drop = q.drop
                     /\ q.on = {} => g(q).on = {}
                     /\ \A p \in cat : q.on = {Id(p)} => g(q).on = {Id(g(p))}
    BY FollowingIs
<1> HIDE DEF g
<1>2. \A q, p \in cat : Id(g(q)) = Id(g(p)) => q = p
    BY <1>1, Fields DEF Id
<1>3. ASSUME NEW q \in cat PROVE Based(after, g(q))
  <2>1. Based(cat, q)
    BY Zenon DEF Sound
  <2>2. g(q).drop => g(q).temp /\ g(q).kind = "table"
    BY <1>1, <2>1, Zenon DEF Based
  <2>3. g(q).kind = "table" => g(q).on = {}
    BY <1>1, <2>1, Zenon DEF Based
  <2>4. g(q).kind = "index" =>
          \E p \in after : p.kind = "table" /\ p.temp = g(q).temp /\ g(q).on = {Id(p)}
    BY <1>1, <2>1 DEF Based
  <2>5. ASSUME g(q).kind = "view"
        PROVE  ~g(q).temp /\ \E p \in after \ {g(q)} : p.kind # "index" /\ ~p.temp /\ g(q).on = {Id(p)}
    <3>1. PICK p \in cat \ {q} : p.kind # "index" /\ ~p.temp /\ q.on = {Id(p)}
      BY <1>1, <2>1, <2>5, Zenon DEF Based
    <3>2. g(p) \in after \ {g(q)}
      BY <1>2, <3>1, Zenon
    <3> QED BY <1>1, <2>1, <2>5, <3>1, <3>2 DEF Based
  <2> QED BY <2>2, <2>3, <2>4, <2>5, Zenon DEF Based
<1>4. after \subseteq Relations
    BY <1>1
<1>5. \A x, y \in after : Id(x) = Id(y) => x = y
    BY <1>2, Zenon
<1> QED BY <1>3, <1>4, <1>5, Zenon DEF Sound, g

\* Durable DDL leaves the temporary relations alone.
SameTemps(cat, after) == \A r : r.temp => (r \in after <=> r \in cat)

\* RENAME of a durable relation is durable DDL.
LEMMA RenameDurable ==
    ASSUME NEW cat, Sound(cat), NEW r \in cat, ~r.temp, NEW m \in Names
    PROVE  SameTemps(cat, {Following(r, m, q) : q \in cat})
<1>1. ASSUME NEW q \in cat, q.temp PROVE Following(r, m, q) = q
  <2>1. q # r /\ Id(r) \notin q.on
    BY <1>1, Bases, Fields, Zenon
  <2> QED BY <2>1, FollowingIs
<1>2. \A q \in cat : Following(r, m, q).temp = q.temp
    BY FollowingIs
<1> QED BY <1>1, <1>2, Zenon DEF SameTemps

\* RENAME of a temporary relation.
LEMMA RenameTemporary ==
    ASSUME NEW cat, Sound(cat), NEW r \in cat, r.temp, NEW m \in Names,
           \A q \in cat : ~(q.temp = r.temp /\ q.name = m)
    PROVE  Becomes(cat, {Following(r, m, q) : q \in cat}, (TempNames(cat) \ {r.name}) \cup {m},
                   MovedDrops(DropNames(cat), IndexPairs(cat), r.name, m), Moved(IndexPairs(cat), r.name, m))
<1> DEFINE g(q)  == Following(r, m, q)
           after == {g(q) : q \in cat}
           n == r.name
           P == IndexPairs(cat)
<1>1. \A q \in cat : /\ g(q).name = (IF q = r THEN m ELSE q.name)
                     /\ g(q).temp = q.temp /\ g(q).kind = q.kind /\ g(q).drop = q.drop
                     /\ \A p \in cat : q.on = {Id(p)} => g(q).on = {Id(g(p))}
    BY FollowingIs
<1>2. ASSUME NEW q \in cat, ~q.temp PROVE g(q) = q
  <2>1. q # r /\ Id(r) \notin q.on
    BY <1>2, Bases, Fields
  <2> QED BY <2>1, FollowingIs
<1> HIDE DEF g
<1>3. Durables(after) = Durables(cat)
    BY <1>1, <1>2 DEF Durables
<1>4. /\ n \in Names /\ \A q \in cat : q.temp /\ q.name = n => q = r
      /\ \A q \in cat : q.name \in Names
    BY Fields, Zenon
<1>5. TempNames(after) = (TempNames(cat) \ {n}) \cup {m}
  <2>1. ASSUME NEW x \in Names PROVE HasTemp(after, x) <=> (HasTemp(cat, x) /\ x # n) \/ x = m
    <3>1. HasTemp(after, x) <=> \E q \in cat : q.temp /\ g(q).name = x
      BY <1>1 DEF HasTemp
    <3> QED BY <1>1, <1>4, <3>1 DEF HasTemp
  <2> QED BY <2>1, Zenon DEF TempNames
<1>6. \A q \in cat : q.drop => q.temp
    BY Bases, Zenon
<1>7. r.kind = "index" <=> \E k \in Names : <<n, k>> \in P
  <2>1. ASSUME r.kind = "index" PROVE \E k \in Names : <<n, k>> \in P
    <3>1. PICK p \in cat : p.kind = "table" /\ p.temp = r.temp /\ r.on = {Id(p)}
      BY <2>1, Zenon DEF Sound, Based
    <3>2. Id(p) = <<TRUE, p.name>>
      BY <3>1, Fields, Zenon DEF Id
    <3>3. IndexOf(cat, n, p.name)
      BY <2>1, <3>1, <3>2, Zenon DEF IndexOf
    <3> QED BY <1>4, <3>3, Zenon DEF IndexPairs
  <2>2. ASSUME NEW k \in Names, <<n, k>> \in P PROVE r.kind = "index"
    BY <1>4, <2>2, Zenon DEF IndexPairs, IndexOf
  <2> QED BY <2>1, <2>2, Zenon
<1>8. DropNames(after) = MovedDrops(DropNames(cat), P, n, m)
  <2>1. \A x \in Names : HasDrop(after, x) <=> \E q \in cat : q.drop /\ g(q).name = x
    BY <1>1 DEF HasDrop
  <2>2. HasDrop(cat, n) <=> r.drop
    BY <1>4, <1>6, Zenon DEF HasDrop
  <2>3. r.drop => r.kind # "index"
    BY Bases, Zenon
  <2>4. ASSUME NEW x \in Names
        PROVE  HasDrop(after, x) <=> (HasDrop(cat, x) /\ x # n) \/ (r.drop /\ x = m)
    BY <1>1, <1>4, <1>6, <2>1 DEF HasDrop
  <2>5. r.drop => DropNames(after) = (DropNames(cat) \ {n}) \cup {m}
    BY <2>4, Zenon DEF DropNames
  <2>6. ~r.drop => DropNames(after) = DropNames(cat)
    BY <2>2, <2>4, Zenon DEF DropNames
  <2>7. n \in DropNames(cat) <=> r.drop
    BY <1>4, <2>2, Zenon DEF DropNames
  <2> QED BY <1>7, <2>3, <2>5, <2>6, <2>7, Zenon DEF MovedDrops
<1>9. \A q \in cat : q.temp /\ q.kind = "index" => \E p \in cat : p.temp /\ p.kind = "table" /\ q.on = {Id(p)}
    BY Zenon DEF Sound, Based
<1>10. \A p \in cat : p.temp => Id(p) = <<TRUE, p.name>> /\ Id(g(p)) = <<TRUE, g(p).name>>
    BY <1>1, Fields, Zenon DEF Id
<1>11. ASSUME NEW x, NEW k
       PROVE  IndexOf(cat, x, k) <=>
                \E q, p \in cat : q.temp /\ q.kind = "index" /\ p.temp /\ p.kind = "table" /\ q.on = {Id(p)}
                                  /\ q.name = x /\ p.name = k
  <2>1. ASSUME IndexOf(cat, x, k)
        PROVE  \E q, p \in cat : q.temp /\ q.kind = "index" /\ p.temp /\ p.kind = "table" /\ q.on = {Id(p)}
                                  /\ q.name = x /\ p.name = k
    <3>1. PICK q \in cat : q.temp /\ q.kind = "index" /\ q.name = x /\ <<TRUE, k>> \in q.on
      BY <2>1, Zenon DEF IndexOf
    <3>2. PICK p \in cat : p.temp /\ p.kind = "table" /\ q.on = {Id(p)}
      BY <1>9, <3>1, Zenon
    <3>3. <<TRUE, k>> = <<TRUE, p.name>>
      BY <1>10, <3>1, <3>2, Zenon
    <3>4. p.name = k
      BY <3>3, Zenon
    <3> QED BY <3>1, <3>2, <3>4, Zenon
  <2>2. ASSUME NEW q \in cat, NEW p \in cat, q.temp, q.kind = "index", p.temp, p.kind = "table",
               q.on = {Id(p)}, q.name = x, p.name = k
        PROVE  IndexOf(cat, x, k)
    <3>1. <<TRUE, k>> \in q.on
      BY <1>10, <2>2, Zenon
    <3> QED BY <2>2, <3>1, Zenon DEF IndexOf
  <2> QED BY <2>1, <2>2, Zenon
<1>12. ASSUME NEW x, NEW k
       PROVE  IndexOf(after, x, k) <=>
                \E q, p \in cat : q.temp /\ q.kind = "index" /\ p.temp /\ p.kind = "table" /\ q.on = {Id(p)}
                                  /\ g(q).name = x /\ g(p).name = k
  <2>1. ASSUME IndexOf(after, x, k)
        PROVE  \E q, p \in cat : q.temp /\ q.kind = "index" /\ p.temp /\ p.kind = "table" /\ q.on = {Id(p)}
                                  /\ g(q).name = x /\ g(p).name = k
    <3>1. PICK q \in cat : g(q).temp /\ g(q).kind = "index" /\ g(q).name = x /\ <<TRUE, k>> \in g(q).on
      BY <2>1, Zenon DEF IndexOf
    <3>2. q.temp /\ q.kind = "index"
      BY <1>1, <3>1, Zenon
    <3>3. PICK p \in cat : p.temp /\ p.kind = "table" /\ q.on = {Id(p)}
      BY <1>9, <3>2, Zenon
    <3>4. g(q).on = {Id(g(p))}
      BY <1>1, <3>3, Zenon
    <3>5. <<TRUE, k>> = <<TRUE, g(p).name>>
      BY <1>10, <3>1, <3>3, <3>4, Zenon
    <3>6. g(p).name = k
      BY <3>5, Zenon
    <3> QED BY <3>1, <3>2, <3>3, <3>6, Zenon
  <2>2. ASSUME NEW q \in cat, NEW p \in cat, q.temp, q.kind = "index", p.temp, p.kind = "table",
               q.on = {Id(p)}, g(q).name = x, g(p).name = k
        PROVE  IndexOf(after, x, k)
    <3>1. g(q).on = {Id(g(p))}
      BY <1>1, <2>2, Zenon
    <3>2. <<TRUE, k>> \in g(q).on
      BY <1>10, <2>2, <3>1, Zenon
    <3>3. g(q) \in after /\ g(q).temp /\ g(q).kind = "index"
      BY <1>1, <2>2, Zenon
    <3> QED BY <2>2, <3>2, <3>3, Zenon DEF IndexOf
  <2> QED BY <2>1, <2>2, Zenon
<1>13. IndexPairs(after) = Moved(P, n, m)
  <2>1. \A x, k \in Names : <<x, k>> \in P <=> IndexOf(cat, x, k)
    BY Zenon DEF IndexPairs
  <2>2. /\ \A x, k \in Names : <<x, k>> \in IndexPairs(after) <=> IndexOf(after, x, k)
        /\ IndexPairs(after) \subseteq Names \X Names
    BY Zenon DEF IndexPairs
  <2>3. P \subseteq Names \X Names
    BY Zenon DEF IndexPairs
  <2> DEFINE Pair(q, p) == q.temp /\ q.kind = "index" /\ p.temp /\ p.kind = "table" /\ q.on = {Id(p)}
  <2>4. /\ \A x, k : IndexOf(cat, x, k) <=> \E q, p \in cat : Pair(q, p) /\ q.name = x /\ p.name = k
        /\ \A x, k : IndexOf(after, x, k) <=>
             \E q, p \in cat : Pair(q, p) /\ g(q).name = x /\ g(p).name = k
    BY <1>11, <1>12, Zenon
  <2>5. /\ \A q \in cat : g(q).name = IF q = r THEN m ELSE q.name
        /\ \A q, p \in cat : Pair(q, p) => /\ (q.name = n <=> q = r) /\ (p.name = n <=> p = r)
                                            /\ IF r.kind = "index" THEN p # r ELSE q # r
    BY <1>1, <1>4, Zenon
  <2> HIDE DEF P, after, Pair
  <2>6. CASE r.kind = "index"
    <3>1. ASSUME NEW x \in Names, NEW k \in Names
          PROVE  IndexOf(after, x, k) <=> (IndexOf(cat, x, k) /\ x # n) \/ (x = m /\ IndexOf(cat, n, k))
      BY <2>6, <2>4, <2>5
    <3>2. Moved(P, n, m) = {p \in P : p[1] # n} \cup ({m} \X {k \in Names : <<n, k>> \in P})
      BY <1>7, <2>6, Zenon DEF Moved
    <3>3. \A x, k \in Names : <<x, k>> \in IndexPairs(after) <=> <<x, k>> \in Moved(P, n, m)
      BY <1>4, <2>1, <2>2, <3>1, <3>2, Zenon
    <3> QED BY <2>2, <2>3, <3>2, <3>3
  <2>7. CASE r.kind # "index"
    <3>1. ASSUME NEW x \in Names, NEW k \in Names
          PROVE  IndexOf(after, x, k) <=> (IndexOf(cat, x, k) /\ k # n) \/ (k = m /\ IndexOf(cat, x, n))
      BY <2>7, <2>4, <2>5
    <3>2. Moved(P, n, m) = {p \in P : p[2] # n} \cup ({k \in Names : <<k, n>> \in P} \X {m})
      BY <1>7, <2>7, Zenon DEF Moved
    <3>3. \A x, k \in Names : <<x, k>> \in IndexPairs(after) <=> <<x, k>> \in Moved(P, n, m)
      BY <1>4, <2>1, <2>2, <3>1, <3>2, Zenon
    <3> QED BY <2>2, <2>3, <3>2, <3>3
  <2> QED BY <2>6, <2>7, Zenon
<1>14. Sound(after)
    BY RenamedSound, Zenon DEF g
<1> QED BY <1>3, <1>5, <1>8, <1>13, <1>14, Zenon DEF g, Becomes
-----------------------------------------------------------------------------
(* A statement in a transaction, and one whose ON COMMIT DROP comes at the *)
(* end of its batch: the order of the two makes no difference to the list. *)

Paired(R, D, P) ==
    /\ R \subseteq Names /\ D \subseteq R /\ P \subseteq R \X R
    /\ \A n, k : <<n, k>> \in P =>
         n \notin D /\ (\A j : <<k, j>> \notin P) /\ (\A j : <<n, j>> \in P => j = k)

\* What a sound catalog's names satisfy.
LEMMA CatalogPaired ==
    ASSUME NEW cat, Sound(cat)
    PROVE  /\ Paired(TempNames(cat), DropNames(cat), IndexPairs(cat))
           /\ IndexPairs(cat) \subseteq Names \X Names
<1>1. TempNames(cat) \subseteq Names /\ IndexPairs(cat) \subseteq Names \X Names
    BY Zenon DEF TempNames, IndexPairs
<1>2. DropNames(cat) \subseteq TempNames(cat)
    BY NamesOfTemporaries, Zenon DEF TempNames, DropNames
<1>3. \A n, k : <<n, k>> \in IndexPairs(cat) <=> n \in Names /\ k \in Names /\ IndexOf(cat, n, k)
    BY Zenon DEF IndexPairs
<1>4. ASSUME NEW n, NEW k, <<n, k>> \in IndexPairs(cat)
      PROVE  /\ n \in TempNames(cat) /\ k \in TempNames(cat) /\ n \notin DropNames(cat)
             /\ \A j : <<k, j>> \notin IndexPairs(cat)
             /\ \A j : <<n, j>> \in IndexPairs(cat) => j = k
    BY <1>3, <1>4, NamesOfTemporaries, Zenon DEF TempNames, DropNames
<1>5. ASSUME NEW p \in IndexPairs(cat) PROVE p \in TempNames(cat) \X TempNames(cat)
  <2>1. PICK n, k \in Names : p = <<n, k>>
    BY <1>1
  <2> QED BY <1>4, <2>1, Zenon
<1> QED BY <1>1, <1>2, <1>4, <1>5, Zenon DEF Paired

\* Creating a table under a free name.
LEMMA CreateCommutes ==
    ASSUME NEW R, NEW D, NEW P, Paired(R, D, P), NEW n \in Names, n \notin R
    PROVE  /\ Without(R \cup {n}, P, D, D) = Without(R, P, D, D) \cup {n}
           /\ Without(R \cup {n}, P, D \cup {n}, D \cup {n}) = Without(R, P, D, D)
           /\ Between(P, D \cup {n}, D \cup {n}) = Between(P, D, D)
<1>1. \A k : <<n, k>> \notin P /\ <<k, n>> \notin P
    BY Zenon DEF Paired
<1>2. n \notin D
    BY Zenon DEF Paired
<1>3. \A p \in P : p[1] # n /\ p[2] # n
    BY Zenon DEF Paired
<1>4. Without(R \cup {n}, P, D, D) = Without(R, P, D, D) \cup {n}
    BY <1>1, <1>2, Zenon DEF Without
<1>5. Without(R \cup {n}, P, D \cup {n}, D \cup {n}) = Without(R, P, D, D)
    BY <1>1, <1>2, Zenon DEF Without
<1>6. Between(P, D \cup {n}, D \cup {n}) = Between(P, D, D)
    BY <1>3, Zenon DEF Between
<1> QED BY <1>4, <1>5, <1>6, Zenon

\* An index m on b, and the end of the batch's transaction.
IndexSettles(R, D, P, m, b) ==
    /\ b \in D =>
         /\ Without(R \cup {m}, P \cup {<<m, b>>}, D, D) = Without(R, P, D, D)
         /\ Between(P \cup {<<m, b>>}, D, D) = Between(P, D, D)
    /\ b \notin D =>
         /\ Without(R \cup {m}, P \cup {<<m, b>>}, D, D) = Without(R, P, D, D) \cup {m}
         /\ Between(P \cup {<<m, b>>}, D, D) = Between(P, D, D) \cup {<<m, b>>}

\* Creating an index m on the table b: it stays if its table does.
LEMMA IndexCommutes ==
    ASSUME NEW R, NEW D, NEW P, Paired(R, D, P), NEW m \in Names, m \notin R, NEW b \in R
    PROVE  IndexSettles(R, D, P, m, b)
<1> USE DEF IndexSettles
<1> DEFINE Q == P \cup {<<m, b>>}
<1>1. m \notin D /\ m # b /\ \A k : <<m, k>> \notin P /\ <<k, m>> \notin P
    BY Zenon DEF Paired
<1>2. \A x, k : <<x, k>> \in Q <=> <<x, k>> \in P \/ (x = m /\ k = b)
    BY Zenon
<1> HIDE DEF Q
<1>3. CASE b \in D
  <2>1. Without(R \cup {m}, Q, D, D) = Without(R, P, D, D)
    BY <1>1, <1>2, <1>3, Zenon DEF Without
  <2>2. Between(Q, D, D) = Between(P, D, D)
    BY <1>3 DEF Between, Q
  <2> QED BY <1>3, <2>1, <2>2, Zenon DEF Q
<1>4. CASE b \notin D
  <2>1. Without(R \cup {m}, Q, D, D) = Without(R, P, D, D) \cup {m}
    BY <1>1, <1>2, <1>4, Zenon DEF Without
  <2>2. Between(Q, D, D) = Between(P, D, D) \cup {<<m, b>>}
    BY <1>1, <1>4 DEF Between, Q
  <2> QED BY <1>4, <2>1, <2>2, Zenon DEF Q
<1> QED BY <1>3, <1>4, Zenon

\* Names dropped, and the end of the batch's transaction.
DropSettles(R, D, P, H, G) ==
    /\ Without(Without(R, P, H, G), Between(P, H, G), D \ H, D \ H)
       = Without(Without(R, P, D, D), Between(P, D, D), H, G)
    /\ Between(Between(P, H, G), D \ H, D \ H) = Between(Between(P, D, D), H, G)

\* Dropping the names in H, with the indexes of those in G.
LEMMA DropCommutes ==
    ASSUME NEW R, NEW D, NEW P, NEW H, NEW G, \A n, k : <<n, k>> \in P /\ k \in H => k \in G,
           G \subseteq H, \A p \in P : p = <<p[1], p[2]>>
    PROVE  DropSettles(R, D, P, H, G)
<1> USE DEF DropSettles
<1>1. \A X, Y, x, k : <<x, k>> \in Between(P, X, Y) <=> <<x, k>> \in P /\ x \notin X /\ k \notin Y
    BY Zenon DEF Between
<1>2. Without(Without(R, P, H, G), Between(P, H, G), D \ H, D \ H)
      = Without(Without(R, P, D, D), Between(P, D, D), H, G)
  <2>1. ASSUME NEW x \in R, x \notin H, x \notin D
        PROVE  (\E k \in G : <<x, k>> \in P) \/ (\E k \in D \ H : <<x, k>> \in Between(P, H, G))
               <=> (\E k \in D : <<x, k>> \in P) \/ (\E k \in G : <<x, k>> \in Between(P, D, D))
    <3>1. (\E k \in D \ H : <<x, k>> \in Between(P, H, G)) <=> \E k \in D \ H : <<x, k>> \in P /\ k \notin G
      BY <1>1, <2>1, Zenon
    <3>2. (\E k \in G : <<x, k>> \in Between(P, D, D)) <=> \E k \in G : <<x, k>> \in P /\ k \notin D
      BY <1>1, <2>1, Zenon
    <3> QED BY <3>1, <3>2, Zenon
  <2> DEFINE Q1 == Between(P, H, G)  Q2 == Between(P, D, D)
  <2> HIDE DEF Q1, Q2
  <2>2. \A x : x \in Without(Without(R, P, H, G), Q1, D \ H, D \ H)
               <=> /\ x \in R /\ x \notin H /\ x \notin D
                   /\ ~((\E k \in G : <<x, k>> \in P) \/ (\E k \in D \ H : <<x, k>> \in Q1))
    BY Zenon DEF Without
  <2>3. \A x : x \in Without(Without(R, P, D, D), Q2, H, G)
               <=> /\ x \in R /\ x \notin H /\ x \notin D
                   /\ ~((\E k \in D : <<x, k>> \in P) \/ (\E k \in G : <<x, k>> \in Q2))
    BY Zenon DEF Without
  <2>4. \A x : x \in Without(Without(R, P, H, G), Q1, D \ H, D \ H)
               <=> x \in Without(Without(R, P, D, D), Q2, H, G)
    BY <2>1, <2>2, <2>3, ZenonT(30) DEF Q1, Q2
  <2>5. Without(Without(R, P, H, G), Q1, D \ H, D \ H) = Without(Without(R, P, D, D), Q2, H, G)
    BY <2>4, Zenon
  <2> QED BY <2>5, Zenon DEF Q1, Q2
<1>3. Between(Between(P, H, G), D \ H, D \ H) = Between(Between(P, D, D), H, G)
    BY DEF Between
<1> QED BY <1>2, <1>3, Zenon

\* A relation renamed, and the end of the batch's transaction.
RenameSettles(R, D, P, n, m) ==
    /\ n \in Without(R, P, D, D) =>
         /\ Without((R \ {n}) \cup {m}, Moved(P, n, m), MovedDrops(D, P, n, m), MovedDrops(D, P, n, m))
            = (Without(R, P, D, D) \ {n}) \cup {m}
         /\ Between(Moved(P, n, m), MovedDrops(D, P, n, m), MovedDrops(D, P, n, m))
            = Moved(Between(P, D, D), n, m)
    /\ n \notin Without(R, P, D, D) =>
         /\ Without((R \ {n}) \cup {m}, Moved(P, n, m), MovedDrops(D, P, n, m), MovedDrops(D, P, n, m))
            = Without(R, P, D, D)
         /\ Between(Moved(P, n, m), MovedDrops(D, P, n, m), MovedDrops(D, P, n, m)) = Between(P, D, D)

\* Renaming n to m, a free name.
LEMMA RenameCommutes ==
    ASSUME NEW R, NEW D, NEW P, Paired(R, D, P), NEW n \in R, NEW m \in Names, m \notin R
    PROVE  RenameSettles(R, D, P, n, m)
<1> USE DEF RenameSettles
<1> DEFINE W  == Without(R, P, D, D)
           B  == Between(P, D, D)
           D2 == MovedDrops(D, P, n, m)
           P2 == Moved(P, n, m)
           R2 == (R \ {n}) \cup {m}
<1>1. /\ R \subseteq Names /\ D \subseteq R /\ P \subseteq R \X R /\ n \in Names /\ n # m /\ m \notin D
      /\ \A x, k : <<x, k>> \in P => x \in R /\ k \in R /\ x \notin D
      /\ \A x, k, j : <<x, k>> \in P => <<k, j>> \notin P
      /\ \A x, k, j : <<x, k>> \in P /\ <<x, j>> \in P => j = k
    BY Zenon DEF Paired
<1> DEFINE Doom(x)  == \E k \in D : <<x, k>> \in P
           Doom2(x) == \E k \in D2 : <<x, k>> \in P2
<1>2. \A x : x \in W <=> x \in R /\ x \notin D /\ ~Doom(x)
    BY Zenon DEF Without
<1>3. B \subseteq R \X R /\ \A x, k : <<x, k>> \in B <=> <<x, k>> \in P /\ x \notin D /\ k \notin D
    BY <1>1, Zenon DEF Between
<1>4. \A x : x \in Without(R2, P2, D2, D2) <=> x \in R2 /\ x \notin D2 /\ ~Doom2(x)
    BY Zenon DEF Without
<1>5. ASSUME NEW Q \in SUBSET (R \X R) PROVE Moved(Q, n, m) \subseteq Names \X Names
  <2>1. Q \subseteq Names \X Names
    BY <1>1, Zenon
  <2>2. \A p \in Q : p \in Names \X Names
    BY <2>1, Zenon
  <2>3. {m} \X {k \in Names : <<n, k>> \in Q} \subseteq Names \X Names
    BY Zenon
  <2>4. {k \in Names : <<k, n>> \in Q} \X {m} \subseteq Names \X Names
    BY Zenon
  <2> QED BY <2>2, <2>3, <2>4, Zenon DEF Moved
<1>6. P2 \subseteq Names \X Names
    BY <1>5, <1>1, Zenon
<1>7. Between(P2, D2, D2) \subseteq Names \X Names
      /\ \A x, k : <<x, k>> \in Between(P2, D2, D2) <=> <<x, k>> \in P2 /\ x \notin D2 /\ k \notin D2
    BY <1>6, Zenon DEF Between
<1> DEFINE C == Between(P2, D2, D2)  V == Without(R2, P2, D2, D2)
<1>8. CASE \E k \in Names : <<n, k>> \in P
  <2>1. PICK b \in Names : <<n, b>> \in P
    BY <1>8, Zenon
  <2>2. D2 = D
    BY <1>8, Zenon DEF MovedDrops
  <2>3. \A x, k : <<x, k>> \in P2 <=> (<<x, k>> \in P /\ x # n) \/ (x = m /\ k = b)
    BY <1>1, <1>8, <2>1, Zenon DEF Moved
  <2>4. n \in W <=> b \notin D
    BY <1>1, <1>2, <2>1, Zenon
  <2>5. b # n /\ b \in R /\ \A x : <<x, n>> \notin P
    BY <1>1, <2>1, Zenon
  <2>6. CASE b \notin D
    <3>1. \A x : x \in V <=> x \in (W \ {n}) \cup {m}
      <4>1. ASSUME NEW x \in R \ {n} PROVE Doom2(x) <=> Doom(x)
        <5> HIDE DEF D2, P2
        <5>1. x # n /\ x # m
          BY Zenon
        <5>2. \A k : <<x, k>> \in P2 <=> <<x, k>> \in P
          BY <2>3, <5>1, Zenon
        <5> QED BY <2>2, <5>2, Zenon
      <4>2. ~Doom2(m)
        <5> HIDE DEF D2, P2
        <5>1. \A k : <<m, k>> \in P2 => k = b
          BY <1>1, <2>3
        <5> QED BY <2>2, <2>6, <5>1, Zenon
      <4> HIDE DEF W, D2, P2, Doom, Doom2
      <4> QED BY <1>1, <1>2, <1>4, <2>2, <2>6, <4>1, <4>2, Zenon
    <3>2. <<n, b>> \in B
      BY <1>1, <1>3, <2>1, <2>6, Zenon
    <3>3. \A x, k : <<x, k>> \in Moved(B, n, m) <=> (<<x, k>> \in B /\ x # n) \/ (x = m /\ k = b)
      <4> HIDE DEF B
      <4>1. \A k : <<n, k>> \in B => k = b
        BY <1>1, <1>3, <2>1, Zenon
      <4> QED BY <2>1, <3>2, <4>1, Zenon DEF Moved
    <3>4. Moved(B, n, m) \subseteq Names \X Names
      BY <1>5, <1>3, Zenon
    <3>5. \A x, k : <<x, k>> \in C <=> <<x, k>> \in Moved(B, n, m)
      <4> HIDE DEF B, D2, P2
      <4> QED BY <1>1, <1>3, <1>7, <2>2, <2>3, <2>6, <3>3, ZenonT(30)
    <3>6. V = (W \ {n}) \cup {m}
      <4> HIDE DEF V, W
      <4> QED BY <3>1, Zenon
    <3>7. C = Moved(B, n, m)
      <4>1. C \subseteq Names \X Names
        BY <1>7, Zenon
      <4> HIDE DEF C, B
      <4> QED BY <3>4, <3>5, <4>1
    <3> QED BY <2>4, <2>6, <3>6, <3>7, Zenon
  <2>7. CASE b \in D
    <3>1. \A x : x \in V <=> x \in W
      <4>1. ASSUME NEW x \in R \ {n} PROVE Doom2(x) <=> Doom(x)
        <5> HIDE DEF D2, P2
        <5>1. x # n /\ x # m
          OBVIOUS
        <5>2. \A k : <<x, k>> \in P2 <=> <<x, k>> \in P
          BY <2>3, <5>1, Zenon
        <5> QED BY <2>2, <5>2, Zenon
      <4>2. Doom2(m) /\ Doom(n)
        <5> HIDE DEF D2, P2
        <5> QED BY <1>1, <2>1, <2>2, <2>3, <2>7, Zenon
      <4> HIDE DEF W, D2, P2, Doom, Doom2
      <4> QED BY <1>1, <1>2, <1>4, <2>2, <2>7, <4>1, <4>2, ZenonT(30)
    <3>2. \A x, k : <<x, k>> \in C <=> <<x, k>> \in B
      <4> HIDE DEF B, D2, P2
      <4> QED BY <1>1, <1>3, <1>7, <2>1, <2>2, <2>3, <2>7, Zenon
    <3>3. V = W
      <4> HIDE DEF V, W
      <4> QED BY <3>1, Zenon
    <3>4. C = B
      <4>1. C \subseteq Names \X Names /\ B \subseteq Names \X Names
        BY <1>1, <1>3, <1>7, Zenon
      <4> HIDE DEF C, B
      <4> QED BY <3>2, <4>1
    <3> QED BY <2>4, <2>7, <3>3, <3>4, Zenon
  <2> QED BY <2>6, <2>7, Zenon
<1>9. CASE ~\E k \in Names : <<n, k>> \in P
  <2>1. D2 = IF n \in D THEN (D \ {n}) \cup {m} ELSE D
    BY <1>9, Zenon DEF MovedDrops
  <2>2. \A x, k : <<x, k>> \in P2 <=> (<<x, k>> \in P /\ k # n) \/ (k = m /\ <<x, n>> \in P)
    BY <1>1, <1>9, Zenon DEF Moved
  <2>3. \A k : <<n, k>> \notin P
    BY <1>1, <1>9, Zenon
  <2>4. n \in W <=> n \notin D
    BY <1>2, <2>3, Zenon
  <2>5. CASE n \notin D
    <3>1. \A x : x \in V <=> x \in (W \ {n}) \cup {m}
      <4>1. ASSUME NEW x \in R \ {n} PROVE Doom2(x) <=> Doom(x)
        <5> HIDE DEF D2, P2
        <5>1. D2 = D /\ \A k \in D : k # n /\ k # m
          BY <1>1, <2>1, <2>5, Zenon
        <5>2. ASSUME NEW k \in D PROVE <<x, k>> \in P2 <=> <<x, k>> \in P
          <6>1. k # n /\ k # m
            BY <5>1, Zenon
          <6>2. <<x, k>> \in P2 <=> (<<x, k>> \in P /\ k # n) \/ (k = m /\ <<x, n>> \in P)
            BY <2>2, Zenon
          <6> QED BY <6>1, <6>2, Zenon
        <5> QED BY <5>1, <5>2, Zenon
      <4>2. ~Doom2(m)
        <5> HIDE DEF D2, P2
        <5> QED BY <1>1, <2>1, <2>2, <2>3, <2>5, Zenon
      <4> HIDE DEF W, D2, P2, Doom, Doom2
      <4> QED BY <1>1, <1>2, <1>4, <2>1, <2>5, <4>1, <4>2, Zenon
    <3>2. \A x, k : <<x, k>> \in Moved(B, n, m) <=> (<<x, k>> \in B /\ k # n) \/ (k = m /\ <<x, n>> \in B)
      <4> HIDE DEF B
      <4>1. ~\E k \in Names : <<n, k>> \in B
        BY <1>3, <2>3, Zenon
      <4> QED BY <1>1, <1>3, <4>1, Zenon DEF Moved
    <3>3. Moved(B, n, m) \subseteq Names \X Names
      BY <1>5, <1>3, Zenon
    <3>4. \A x, k : <<x, k>> \in C <=> <<x, k>> \in Moved(B, n, m)
      <4> HIDE DEF B, D2, P2
      <4>1. D2 = D /\ n \notin D2 /\ m \notin D2
        BY <1>1, <2>1, <2>5, Zenon
      <4>2. \A x, k : <<x, k>> \in C <=> <<x, k>> \in P2 /\ x \notin D /\ k \notin D
        BY <1>7, <4>1, Zenon
      <4>3. \A x, k : <<x, k>> \in B <=> <<x, k>> \in P /\ x \notin D /\ k \notin D
        BY <1>3, Zenon
      <4> DEFINE M == Moved(B, n, m)
      <4> HIDE DEF C, M
      <4>4. ASSUME NEW x, NEW k PROVE <<x, k>> \in C <=> <<x, k>> \in M
        <5>1. <<x, k>> \in M <=> (<<x, k>> \in B /\ k # n) \/ (k = m /\ <<x, n>> \in B)
          BY <3>2, Zenon DEF M
        <5>2. <<x, k>> \in C <=>
                ((<<x, k>> \in P /\ k # n) \/ (k = m /\ <<x, n>> \in P)) /\ x \notin D /\ k \notin D
          BY <2>2, <4>2, Zenon
        <5>3. m \notin D /\ n \notin D
          BY <4>1, Zenon
        <5> QED BY <4>3, <5>1, <5>2, <5>3, Zenon
      <4> QED BY <4>4, Zenon DEF M
    <3>5. V = (W \ {n}) \cup {m}
      <4> HIDE DEF V, W
      <4> QED BY <3>1, Zenon
    <3>6. C = Moved(B, n, m)
      <4>1. C \subseteq Names \X Names
        BY <1>7, Zenon
      <4> HIDE DEF C, B
      <4> QED BY <3>3, <3>4, <4>1
    <3> QED BY <2>4, <2>5, <3>5, <3>6, Zenon
  <2>6. CASE n \in D
    <3>1. \A x : x \in V <=> x \in W
      <4>1. \A x \in R \ {n} : Doom2(x) <=> Doom(x)
        <5> HIDE DEF D2, P2
        <5> QED BY <1>1, <2>1, <2>2, <2>3, <2>6, Zenon
      <4>2. m \in D2
        <5> HIDE DEF D2, P2
        <5> QED BY <1>1, <2>1, <2>2, <2>3, <2>6, Zenon
      <4> HIDE DEF W, D2, P2, Doom, Doom2
      <4> QED BY <1>1, <1>2, <1>4, <2>1, <2>6, <4>1, <4>2, Zenon
    <3>2. \A x, k : <<x, k>> \in C <=> <<x, k>> \in B
      <4> HIDE DEF B, D2, P2
      <4> QED BY <1>1, <1>3, <1>7, <2>1, <2>2, <2>6, Zenon
    <3>3. V = W
      <4> HIDE DEF V, W
      <4> QED BY <3>1, Zenon
    <3>4. C = B
      <4>1. C \subseteq Names \X Names /\ B \subseteq Names \X Names
        BY <1>1, <1>3, <1>7, Zenon
      <4> HIDE DEF C, B
      <4> QED BY <3>2, <4>1
    <3> QED BY <2>4, <2>6, <3>3, <3>4, Zenon
  <2> QED BY <2>5, <2>6, Zenon
<1> QED BY <1>8, <1>9, Zenon
-----------------------------------------------------------------------------
(* One statement.                                                          *)

\* What an orderly client sends, and the Proxy does not refuse.
Calm(cat, st) ==
    /\ st \in Statements
    /\ st.kind \in {"create", "view"} /\ st.rel.schema = "pg_temp" => st.temp
    /\ st.kind \in {"create", "view"} /\ ~st.temp /\ st.rel.schema = "plain" => st.rel.name \notin TempNames(cat)
    /\ ~st.again /\ ~(st.guard /\ st.drop)
    /\ ~(st.kind = "view" /\ st.temp)
    /\ Counts(ListOf(cat), st) # {"temporary", "durable"}

\* The list follows the catalog, in a transaction and, but for IF NOT EXISTS of what
\* is about to go, outside one.
ListFollows(cat, st, after) ==
    /\ Sound(after)
    /\ Remember(ListOf(cat), st, TRUE) = ListOf(after)
    /\ (st.guard => DropNames(cat) = {}) =>
         Remember(ApplyOnCommitDrop(ListOf(cat)), st, FALSE) = ApplyOnCommitDrop(ListOf(after))
    /\ TempNames(after) \subseteq
         TempNames(cat) \cup {st.new} \cup (IF st.temp THEN {st.rel.name} ELSE {})
    /\ DropNames(cat) = {} /\ ~st.drop => DropNames(after) = {}

\* The statement is temporary, or it is durable, and the Proxy knows which.
KindFollows(cat, st, after) ==
    /\ \/ /\ Counts(ListOf(cat), st) = {"temporary"}
          /\ Durables(after) = Durables(cat) /\ Touched(cat, st) \subseteq {"temp"}
       \/ /\ Counts(ListOf(cat), st) = {"durable"}
          /\ Touched(cat, st) = {"durable"} /\ st.kind # "discard" /\ ~st.temp
    /\ Durable(after) # Durable(cat) => st.kind \in {"create", "rename", "drop"}

Follows(cat, st, after) == ListFollows(cat, st, after) /\ KindFollows(cat, st, after)

\* The list at the end of the batch's transaction.
LEMMA ListApplied ==
    ASSUME NEW cat, Sound(cat)
    PROVE  ApplyOnCommitDrop(ListOf(cat))
           = Keyed(Without(TempNames(cat), IndexPairs(cat), DropNames(cat), DropNames(cat)), {},
                   Between(IndexPairs(cat), DropNames(cat), DropNames(cat)))
    BY CatalogPaired, KeyedApply, Zenon DEF ListOf

\* A statement the list has nothing to do with.
LEMMA ListUnchanged ==
    ASSUME NEW cat, Sound(cat), NEW st, NEW after, Sound(after), SameTemps(cat, after),
           Remember(ListOf(cat), st, TRUE) = ListOf(cat),
           Remember(ApplyOnCommitDrop(ListOf(cat)), st, FALSE) = ApplyOnCommitDrop(ListOf(cat))
    PROVE  ListFollows(cat, st, after)
<1>1. /\ TempNames(after) = TempNames(cat) /\ DropNames(after) = DropNames(cat)
      /\ IndexPairs(after) = IndexPairs(cat)
    BY SameTemporaries, Zenon DEF SameTemps
<1>2. ListOf(after) = ListOf(cat)
    BY <1>1, Zenon DEF ListOf
<1> QED BY <1>1, <1>2, Zenon DEF ListFollows

\* Which namespaces a statement touches.
LEMMA TouchedTemp ==
    ASSUME NEW cat, NEW st, st.kind # "alter", st.guard => st.temp,
           \A a \in Run(cat, st) : Durables(a) = Durables(cat)
    PROVE  Touched(cat, st) \subseteq {"temp"}
<1>1. CASE st.guard
    BY <1>1, Zenon DEF Touched
<1>2. CASE ~st.guard
  <2>1. \A a \in Run(cat, st) : \A r \in (cat \ a) \cup (a \ cat) : r.temp
    BY Zenon DEF Durables
  <2>2. Touched(cat, st) = UNION {{IF r.temp THEN "temp" ELSE "durable" : r \in (cat \ a) \cup (a \ cat)} :
                                  a \in Run(cat, st)}
    BY <1>2, Zenon DEF Touched
  <2> QED BY <2>1, <2>2
<1> QED BY <1>1, <1>2, Zenon

\* The durable namespace, likewise.
LEMMA TouchedDurable ==
    ASSUME NEW cat, NEW st, st.kind # "alter", ~st.temp, st.guard => st.rel.schema # "pg_temp", Run(cat, st) # {},
           \A a \in Run(cat, st) : SameTemps(cat, a) /\ (a = cat => st.guard)
    PROVE  Touched(cat, st) = {"durable"}
<1>1. CASE st.guard
    BY <1>1, Zenon DEF Touched
<1>2. CASE ~st.guard
  <2>1. \A a \in Run(cat, st) : \A r \in (cat \ a) \cup (a \ cat) : ~r.temp
    BY Zenon DEF SameTemps
  <2>2. Touched(cat, st) = UNION {{IF r.temp THEN "temp" ELSE "durable" : r \in (cat \ a) \cup (a \ cat)} :
                                  a \in Run(cat, st)}
    BY <1>2, Zenon DEF Touched
  <2>3. PICK a \in Run(cat, st) : a # cat
    BY <1>2, Zenon
  <2>4. PICK r : r \in (cat \ a) \cup (a \ cat)
    BY <2>3, Zenon
  <2>5. "durable" \in Touched(cat, st)
    BY <2>1, <2>2, <2>4
  <2>6. Touched(cat, st) \subseteq {"durable"}
    BY <2>1, <2>2
  <2> QED BY <2>5, <2>6, Zenon
<1> QED BY <1>1, <1>2, Zenon

\* Whether a statement's name is on the Proxy's list, in and outside a transaction.
LEMMA OnList ==
    ASSUME NEW cat, Sound(cat), NEW rel \in Rels
    PROVE  /\ Tracked(ListOf(cat).relations, rel) <=> rel.schema # "public" /\ rel.name \in TempNames(cat)
           /\ TrackedName(ListOf(cat).relations, rel) <=> rel.schema # "public" /\ rel.name \in TempNames(cat)
           /\ Tracked(ApplyOnCommitDrop(ListOf(cat)).relations, rel) <=>
                /\ rel.schema # "public"
                /\ rel.name \in Without(TempNames(cat), IndexPairs(cat), DropNames(cat), DropNames(cat))
           /\ rel.name \in TempNames(cat) <=> HasTemp(cat, rel.name)
<1>1. rel.name \in Names
    BY Zenon DEF Rels
<1> QED BY <1>1, TrackedIff, ListApplied, Zenon DEF ListOf, TempNames

\* CREATE TEMP TABLE (rememberTemporaryRelation).
LEMMA CreateTempFollows ==
    ASSUME NEW cat, Sound(cat), NEW st, Calm(cat, st), st.kind = "create", st.temp,
           NEW after \in Run(cat, st)
    PROVE  Follows(cat, st, after)
<1> DEFINE n == st.rel.name  R == TempNames(cat)  D == DropNames(cat)  P == IndexPairs(cat)
<1>1. /\ st \in Statements /\ st.rel \in Rels /\ n \in Names /\ st.drop \in BOOLEAN /\ st.guard \in BOOLEAN
      /\ st.guard => ~st.drop
    BY Parsed, Keys, Zenon DEF Calm
<1>2. st.rel.schema # "public"
    BY Zenon DEF Run, RunCreate
<1>3. \A a \in Run(cat, st) : a \in Added(cat, Relation(n, TRUE, "table", {}, st.drop), st.guard)
    BY Zenon DEF Run, RunCreate
<1>4. ASSUME NEW a \in Run(cat, st)
      PROVE  \/ st.guard /\ a = cat /\ n \in R
             \/ a = cat \cup {Relation(n, TRUE, "table", {}, st.drop)} /\ n \notin R /\ ~HasTemp(cat, n)
  <2>1. \A q \in cat : q.temp \in BOOLEAN
    BY Fields, Zenon
  <2>2. Relation(n, TRUE, "table", {}, st.drop).temp = TRUE /\ Relation(n, TRUE, "table", {}, st.drop).name = n
    BY Zenon DEF Relation
  <2> DEFINE r == Relation(n, TRUE, "table", {}, st.drop)
  <2>3. \/ st.guard /\ a = cat /\ \E q \in cat : q.temp = r.temp /\ q.name = r.name
        \/ a = cat \cup {r} /\ \A q \in cat : ~(q.temp = r.temp /\ q.name = r.name)
    <3>1. a \in Added(cat, r, st.guard)
      BY <1>3, Zenon
    <3> HIDE DEF r
    <3> QED BY <1>1, <3>1, AddedIs
  <2>4. (\E q \in cat : q.temp = r.temp /\ q.name = r.name) <=> HasTemp(cat, n)
    <3> HIDE DEF r
    <3> QED BY <2>1, <2>2, Zenon DEF r, HasTemp
  <2>5. HasTemp(cat, n) <=> n \in R
    BY <1>1, Zenon DEF TempNames
  <2> HIDE DEF r, n, R
  <2> QED BY <2>3, <2>4, <2>5, Zenon DEF r
<1>5. \A t, v : Remember(t, st, v) = RememberRelation(t, st, v)
    BY Zenon DEF Remember
<1>6. Paired(R, D, P) /\ P \subseteq Names \X Names
    BY CatalogPaired, Zenon
<1>7. ListOf(cat) = Keyed(R, D, P)
    BY Zenon DEF ListOf
<1>8. ApplyOnCommitDrop(ListOf(cat)) = Keyed(Without(R, P, D, D), {}, Between(P, D, D))
    BY ListApplied, Zenon
<1>9. ASSUME NEW a \in Run(cat, st), a # cat
      PROVE  /\ Sound(a) /\ Durables(a) = Durables(cat) /\ TempNames(a) = R \cup {n}
             /\ DropNames(a) = (IF st.drop THEN D \cup {n} ELSE D) /\ IndexPairs(a) = P
  <2>1. a = cat \cup {Relation(n, TRUE, "table", {}, st.drop)} /\ n \notin R /\ ~HasTemp(cat, n)
    BY <1>4, <1>9, Zenon
  <2> HIDE DEF n
  <2> DEFINE b == cat \cup {Relation(n, TRUE, "table", {}, st.drop)}
  <2>2. /\ Sound(b) /\ Durables(b) = Durables(cat) /\ TempNames(b) = TempNames(cat) \cup {n}
        /\ DropNames(b) = (IF st.drop THEN DropNames(cat) \cup {n} ELSE DropNames(cat))
        /\ IndexPairs(b) = IndexPairs(cat)
    BY <1>1, <2>1, AddTable, ZenonT(30)
  <2> QED BY <2>1, <2>2, Zenon
<1>10. Counts(ListOf(cat), st) = {"temporary"}
    BY Zenon DEF Counts, Target
<1>11. KindFollows(cat, st, after)
  <2>1. Touched(cat, st) \subseteq {"temp"}
    <3>1. \A a \in Run(cat, st) : Durables(a) = Durables(cat)
      BY <1>9, Zenon
    <3> QED BY <3>1, TouchedTemp, Zenon
  <2>2. Durables(after) = Durables(cat) /\ Durable(after) = Durable(cat)
    BY <1>9, DurablesDecide, Zenon
  <2> QED BY <1>10, <2>1, <2>2, Zenon DEF KindFollows
<1>12. \A A, E, Q : \A v \in BOOLEAN :
         RememberRelation(Keyed(A, E, Q), st, v)
         = IF st.drop /\ ~v THEN Keyed(A, E, Q) ELSE Keyed(A \cup {n}, IF st.drop THEN E \cup {n} ELSE E, Q)
  <2>1. \A A, E, Q, v : RememberRelation(Keyed(A, E, Q), st, v) = Extended(A, E, Q, n, st.drop, v)
    BY <1>1, <1>2, KeyedRelation, Zenon
  <2> QED BY <2>1, Zenon DEF Extended
<1>13. ListFollows(cat, st, after)
  <2> HIDE DEF n, R, D, P
  <2>1. CASE st.guard /\ after = cat /\ n \in R
    <3>1. Remember(ListOf(cat), st, TRUE) = ListOf(after)
      <4>1. R \cup {n} = R
        BY <2>1, Zenon
      <4>2. RememberRelation(Keyed(R, D, P), st, TRUE) = Keyed(R \cup {n}, D, P)
        BY <1>1, <1>12, <2>1, Zenon
      <4> QED BY <1>5, <1>7, <2>1, <4>1, <4>2, Zenon
    <3>2. ASSUME D = {}
          PROVE  Remember(ApplyOnCommitDrop(ListOf(cat)), st, FALSE) = ApplyOnCommitDrop(ListOf(after))
      <4> DEFINE W == Without(R, P, D, D)  B == Between(P, D, D)
      <4>1. n \in W
        BY <2>1, <3>2, Zenon DEF Without
      <4> HIDE DEF W, B
      <4>2. W \cup {n} = W
        BY <4>1, Zenon
      <4>3. RememberRelation(Keyed(W, {}, B), st, FALSE) = Keyed(W \cup {n}, {}, B)
        BY <1>1, <1>12, <2>1, Zenon
      <4> QED BY <1>5, <1>8, <2>1, <4>2, <4>3, Zenon DEF W, B
    <3> QED BY <2>1, <3>1, <3>2, Zenon DEF ListFollows, R, D
  <2>2. CASE after # cat /\ n \notin R
    <3>1. /\ Sound(after) /\ TempNames(after) = R \cup {n}
          /\ DropNames(after) = (IF st.drop THEN D \cup {n} ELSE D) /\ IndexPairs(after) = P
      BY <1>9, <2>2, Zenon
    <3>2. Remember(ListOf(cat), st, TRUE) = ListOf(after)
      <4>1. RememberRelation(Keyed(R, D, P), st, TRUE) = Keyed(R \cup {n}, IF st.drop THEN D \cup {n} ELSE D, P)
        BY <1>1, <1>12, ZenonT(30)
      <4> QED BY <1>5, <1>7, <3>1, <4>1, Zenon DEF ListOf
    <3>3. Remember(ApplyOnCommitDrop(ListOf(cat)), st, FALSE) = ApplyOnCommitDrop(ListOf(after))
      <4> DEFINE W == Without(R, P, D, D)  B == Between(P, D, D)  E == DropNames(after)
      <4>1. ApplyOnCommitDrop(ListOf(after)) = Keyed(Without(R \cup {n}, P, E, E), {}, Between(P, E, E))
        BY <3>1, ListApplied, Zenon
      <4>2. /\ Without(R \cup {n}, P, D, D) = W \cup {n}
            /\ Without(R \cup {n}, P, D \cup {n}, D \cup {n}) = W
            /\ Between(P, D \cup {n}, D \cup {n}) = B
        <5>1. n \in Names
          BY <1>1, Zenon DEF n
        <5>2. Paired(R, D, P) /\ n \notin R
          BY <1>6, <2>2, Zenon
        <5> QED BY ONLY <5>1, <5>2, CreateCommutes DEF W, B
      <4>3. RememberRelation(Keyed(W, {}, B), st, FALSE)
            = IF st.drop THEN Keyed(W, {}, B) ELSE Keyed(W \cup {n}, {}, B)
        <5> HIDE DEF W, B
        <5>1. RememberRelation(Keyed(W, {}, B), st, FALSE)
              = IF st.drop /\ ~FALSE THEN Keyed(W, {}, B)
                ELSE Keyed(W \cup {n}, IF st.drop THEN {} \cup {n} ELSE {}, B)
          BY <1>12, Zenon
        <5> QED BY <1>1, <5>1, Zenon
      <4>4. CASE st.drop
        <5>1. E = D \cup {n}
          BY <3>1, <4>4, Zenon
        <5> QED BY <1>5, <1>8, <4>1, <4>2, <4>3, <4>4, <5>1, Zenon
      <4>5. CASE ~st.drop
        <5>1. E = D
          BY <3>1, <4>5, Zenon
        <5> QED BY <1>5, <1>8, <4>1, <4>2, <4>3, <4>5, <5>1, Zenon
      <4> QED BY <1>1, <4>4, <4>5, Zenon
    <3>4. /\ TempNames(after) \subseteq TempNames(cat) \cup {st.new} \cup (IF st.temp THEN {st.rel.name} ELSE {})
          /\ DropNames(cat) = {} /\ ~st.drop => DropNames(after) = {}
      BY <3>1, Zenon DEF R, D, n
    <3> QED BY <3>1, <3>2, <3>3, <3>4, Zenon DEF ListFollows
  <2>3. n \in TempNames(cat \cup {Relation(n, TRUE, "table", {}, st.drop)})
    BY <1>1, Zenon DEF TempNames, HasTemp, Relation, n
  <2> QED BY <1>4, <2>1, <2>2, <2>3, Zenon DEF R
<1> QED BY <1>11, <1>13, Zenon DEF Follows

\* CREATE TABLE of a durable table.
LEMMA CreateDurableFollows ==
    ASSUME NEW cat, Sound(cat), NEW st, Calm(cat, st), st.kind = "create", ~st.temp,
           NEW after \in Run(cat, st)
    PROVE  Follows(cat, st, after)
<1> DEFINE n == st.rel.name
           r == Relation(n, FALSE, "table", {}, FALSE)
<1>1. /\ st \in Statements /\ st.rel \in Rels /\ n \in Names /\ st.drop \in BOOLEAN /\ st.guard \in BOOLEAN
      /\ st.rel.schema \in {"plain", "public"} /\ (st.rel.schema = "plain" => n \notin TempNames(cat))
  <2>1. st \in Statements /\ st.rel \in Rels /\ n \in Names /\ st.drop \in BOOLEAN /\ st.guard \in BOOLEAN
    BY Parsed, Keys, Zenon DEF Calm
  <2>2. st.rel.schema \in {"plain", "pg_temp", "public"}
    BY <2>1, Zenon DEF Rels
  <2> QED BY <2>1, <2>2, Zenon DEF Calm
<1>2. r \in Relations /\ r.temp = FALSE /\ r.name = n /\ r.kind = "table" /\ r.on = {} /\ r.drop = FALSE
    BY <1>1, Zenon DEF Relation, Relations
<1>3. \A a \in Run(cat, st) : a \in Added(cat, r, st.guard)
    BY <1>1, Zenon DEF Run, RunCreate
<1> HIDE DEF r
<1>4. ASSUME NEW a \in Run(cat, st)
      PROVE  Sound(a) /\ SameTemps(cat, a) /\ (a = cat => st.guard)
  <2>1. CASE a = cat /\ st.guard
    BY <2>1, Zenon DEF SameTemps
  <2>2. CASE a = cat \cup {r} /\ \A q \in cat : ~(q.temp = r.temp /\ q.name = r.name)
    <3>1. Based(cat, r)
      BY <1>2, Zenon DEF Based
    <3> QED BY <1>2, <2>2, <3>1, AddedSound, Zenon DEF SameTemps
  <2> QED BY <1>1, <1>3, <2>1, <2>2, AddedIs
<1>5. Counts(ListOf(cat), st) = {"durable"}
  <2>1. ~Tracked(ListOf(cat).relations, st.rel)
    BY <1>1, OnList, Zenon
  <2> QED BY <1>1, <2>1, Zenon DEF Counts, Target, RangeVars
<1>6. \A t, v : Remember(t, st, v) = t
    BY Zenon DEF Remember
<1>7. Touched(cat, st) = {"durable"}
    BY <1>1, <1>4, TouchedDurable, Zenon
<1>8. ListFollows(cat, st, after)
    BY <1>4, <1>6, ListUnchanged, Zenon
<1>9. KindFollows(cat, st, after)
    BY <1>5, <1>7, Zenon DEF KindFollows
<1> QED BY <1>8, <1>9, Zenon DEF Follows

\* An index takes a name that no index has.
LEMMA KeyedNewIndex ==
    ASSUME NEW R, NEW D, NEW P, P \subseteq Names \X Names, NEW st,
           st.rel \in Rels, st.rel.schema # "public", st.new \in Names, \A k : <<st.new, k>> \notin P
    PROVE  RememberIndex(Keyed(R, D, P), st) = Keyed(R \cup {st.new}, D, P \cup {<<st.new, st.rel.name>>})
<1>1. {p \in P : p[1] # st.new} = P
    OBVIOUS
<1> QED BY <1>1, KeyedIndex

\* The catalog with an index on a table of the statement's name.
Indexed(cat, st, a) ==
    \E b \in cat :
      /\ b.kind = "table" /\ b.name = st.rel.name /\ b.temp \in BOOLEAN
      /\ b.temp = (st.rel.schema # "public" /\ HasTemp(cat, st.rel.name))
      /\ a = cat \cup {Relation(st.new, b.temp, "index", {Id(b)}, FALSE)}
      /\ \A q \in cat : ~(q.temp = b.temp /\ q.name = st.new)

\* CREATE INDEX: what PostgreSQL adds.
LEMMA IndexRuns ==
    ASSUME NEW cat, Sound(cat), NEW st \in Statements, st.kind = "index", ~st.again,
           NEW a \in Run(cat, st)
    PROVE  Indexed(cat, st, a)
<1>1. st.rel \in Rels
    BY Parsed, Zenon
<1>2. PICK b \in Found(cat, st.rel) :
        b.kind = "table" /\ a \in Added(cat, Relation(st.new, b.temp, "index", {Id(b)}, FALSE), FALSE)
  <2>1. PICK b \in Found(cat, st.rel) :
          b.kind = "table" /\ a \in Added(cat, Relation(st.new, b.temp, "index", {Id(b)}, FALSE), st.again)
    BY Zenon DEF Run, RunIndex
  <2>2. st.again = FALSE
    BY Zenon DEF Statements
  <2> QED BY <2>1, <2>2, Zenon
<1>3. /\ b \in cat /\ b.name = st.rel.name /\ b.temp \in BOOLEAN
      /\ b.temp = (st.rel.schema # "public" /\ HasTemp(cat, st.rel.name))
    BY <1>1, FoundIs, Fields
<1> DEFINE r == Relation(st.new, b.temp, "index", {Id(b)}, FALSE)
<1>4. r.temp = b.temp /\ r.name = st.new
    BY Zenon DEF Relation
<1>5. a \in Added(cat, r, FALSE)
    BY <1>2, Zenon
<1> HIDE DEF r
<1>6. a = cat \cup {r} /\ \A q \in cat : ~(q.temp = r.temp /\ q.name = r.name)
    BY <1>5, AddedIs, Zenon
<1> QED BY <1>2, <1>3, <1>4, <1>6, Zenon DEF r, Indexed

\* CREATE INDEX on a temporary table (rememberTemporaryIndex).
LEMMA IndexTempFollows ==
    ASSUME NEW cat, Sound(cat), NEW st, Calm(cat, st), st.kind = "index",
           st.rel.schema # "public", HasTemp(cat, st.rel.name), NEW after \in Run(cat, st)
    PROVE  Follows(cat, st, after)
<1> DEFINE n == st.rel.name  m == st.new  R == TempNames(cat)  D == DropNames(cat)  P == IndexPairs(cat)
<1>1. st \in Statements /\ st.rel \in Rels /\ n \in Names /\ m \in Names /\ ~st.guard /\ ~st.again /\ ~st.temp /\ ~st.drop
    BY Parsed, Keys, Zenon DEF Calm
<1>2. ASSUME NEW a \in Run(cat, st)
      PROVE  /\ Sound(a) /\ Durables(a) = Durables(cat) /\ TempNames(a) = R \cup {m} /\ DropNames(a) = D
             /\ IndexPairs(a) = P \cup {<<m, n>>} /\ m \notin R /\ \A k : <<n, k>> \notin P
  <2>1. PICK b \in cat :
             /\ b.kind = "table" /\ b.name = st.rel.name /\ b.temp \in BOOLEAN
             /\ b.temp = (st.rel.schema # "public" /\ HasTemp(cat, st.rel.name))
             /\ a = cat \cup {Relation(st.new, b.temp, "index", {Id(b)}, FALSE)}
             /\ \A q \in cat : ~(q.temp = b.temp /\ q.name = st.new)
    <3>1. Indexed(cat, st, a)
      BY <1>1, IndexRuns, Zenon
    <3> QED BY <3>1, Zenon DEF Indexed
  <2>2. b.temp = TRUE
    BY <2>1, Zenon
  <2>3. ~HasTemp(cat, m)
    BY <2>1, <2>2, Fields, Zenon DEF HasTemp
  <2>4. a = cat \cup {Relation(m, TRUE, "index", {Id(b)}, FALSE)}
    BY <2>1, <2>2, Zenon
  <2> HIDE DEF m
  <2>5. Becomes(cat, a, TempNames(cat) \cup {m}, DropNames(cat), IndexPairs(cat) \cup {<<m, b.name>>})
    <3>1. b.temp /\ b.kind = "table" /\ m \in Names /\ ~HasTemp(cat, m)
      BY <1>1, <2>1, <2>2, <2>3, Zenon DEF m
    <3>2. Becomes(cat, cat \cup {Relation(m, TRUE, "index", {Id(b)}, FALSE)}, TempNames(cat) \cup {m},
                  DropNames(cat), IndexPairs(cat) \cup {<<m, b.name>>})
      BY ONLY Sound(cat), b \in cat, <3>1, AddIndex, Zenon
    <3> QED BY <2>4, <3>2, Zenon
  <2>6. \A k : <<n, k>> \notin P
    <3>1. \A r \in cat : r.temp /\ r.name = n => r = b
      BY <2>1, <2>2, Fields DEF n
    <3> QED BY <2>1, <3>1, Zenon DEF IndexPairs, IndexOf
  <2>7. m \notin R
    BY <2>3, Zenon DEF TempNames
  <2> QED BY <2>1, <2>5, <2>6, <2>7, Zenon DEF Becomes
<1>3. n \in R
    BY <1>1, Zenon DEF TempNames
<1>4. Paired(R, D, P) /\ P \subseteq Names \X Names
    BY CatalogPaired, Zenon
<1>5. ListOf(cat) = Keyed(R, D, P) /\ ListOf(after) = Keyed(R \cup {m}, D, P \cup {<<m, n>>})
    BY <1>2, Zenon DEF ListOf
<1>6. KindFollows(cat, st, after)
  <2>1. Touched(cat, st) \subseteq {"temp"}
    BY <1>1, <1>2, TouchedTemp, Zenon
  <2>2. Tracked(ListOf(cat).relations, st.rel)
    BY <1>1, <1>3, OnList, Zenon
  <2>3. Counts(ListOf(cat), st) = {"temporary"}
    BY <1>1, <2>2, Zenon DEF Counts, Target, RangeVars
  <2> QED BY <1>2, <2>1, <2>3, DurablesDecide, Zenon DEF KindFollows
<1>7. ListFollows(cat, st, after)
  <2>1. Tracked(ListOf(cat).relations, st.rel) /\ (Tracked(ApplyOnCommitDrop(ListOf(cat)).relations, st.rel)
                                                   <=> n \in Without(R, P, D, D))
    BY <1>1, <1>3, OnList, Zenon
  <2>2. n \in Without(R, P, D, D) <=> n \notin D
    BY <1>2, <1>3, Zenon DEF Without
  <2>3. \A t, v : Remember(t, st, v) = IF Tracked(t.relations, st.rel) THEN RememberIndex(t, st) ELSE t
    BY Zenon DEF Remember
  <2>4. m \notin R /\ (\A k : <<m, k>> \notin P) /\ (\A k : <<m, k>> \notin Between(P, D, D))
        /\ Between(P, D, D) \subseteq Names \X Names
    BY <1>2, <1>4, Zenon DEF Paired, Between
  <2>5. Remember(ListOf(cat), st, TRUE) = ListOf(after)
    <3>1. RememberIndex(Keyed(R, D, P), st) = Keyed(R \cup {m}, D, P \cup {<<m, n>>})
      <4> HIDE DEF R, D, P
      <4> QED BY <1>1, <1>4, <2>4, KeyedNewIndex
    <3> QED BY <1>5, <2>1, <2>3, <3>1, Zenon
  <2>6. Remember(ApplyOnCommitDrop(ListOf(cat)), st, FALSE) = ApplyOnCommitDrop(ListOf(after))
    <3> DEFINE W == Without(R, P, D, D)  B == Between(P, D, D)  Q == P \cup {<<m, n>>}
    <3>1. ApplyOnCommitDrop(ListOf(cat)) = Keyed(W, {}, B)
      BY ListApplied, Zenon
    <3>2. ApplyOnCommitDrop(ListOf(after)) = Keyed(Without(R \cup {m}, Q, D, D), {}, Between(Q, D, D))
      BY <1>2, ListApplied, Zenon
    <3>3. /\ n \in D => Without(R \cup {m}, Q, D, D) = W /\ Between(Q, D, D) = B
          /\ n \notin D =>
               Without(R \cup {m}, Q, D, D) = W \cup {m} /\ Between(Q, D, D) = B \cup {<<m, n>>}
      <4> HIDE DEF R, D, P, m, n
      <4>1. Paired(R, D, P) /\ m \in Names /\ m \notin R /\ n \in R
        BY <1>1, <1>3, <1>4, <2>4, Zenon DEF m
      <4>2. IndexSettles(R, D, P, m, n)
        BY ONLY <4>1, IndexCommutes, Zenon
      <4> QED BY <4>2, Zenon DEF IndexSettles
    <3>4. RememberIndex(Keyed(W, {}, B), st) = Keyed(W \cup {m}, {}, B \cup {<<m, n>>})
      <4> HIDE DEF W, B
      <4> QED BY <1>1, <2>4, KeyedNewIndex DEF B
    <3> HIDE DEF R, D, P, m, n, W, B, Q
    <3>5. CASE n \in D
      BY <2>1, <2>2, <2>3, <3>1, <3>2, <3>3, <3>5, Zenon DEF W
    <3>6. CASE n \notin D
      BY <2>1, <2>2, <2>3, <3>1, <3>2, <3>3, <3>4, <3>6, Zenon DEF W
    <3> QED BY <3>5, <3>6, Zenon
  <2> QED BY <1>2, <2>5, <2>6, Zenon DEF ListFollows
<1> QED BY <1>6, <1>7, Zenon DEF Follows

\* A catalog after durable DDL that makes or drops no table.
Aside(cat, a) == Sound(a) /\ SameTemps(cat, a) /\ a # cat /\ Durable(a) = Durable(cat)

\* A durable index or view is added: the temporary relations and the durable tables
\* are those of before.
LEMMA AddDurable ==
    ASSUME NEW cat, Sound(cat), NEW n \in Names, NEW kind, NEW b \in cat, b.temp = FALSE,
           (kind = "index" /\ b.kind = "table") \/ (kind = "view" /\ b.kind # "index"),
           \A q \in cat : ~(q.temp = FALSE /\ q.name = n),
           NEW a, a = cat \cup {Relation(n, FALSE, kind, {Id(b)}, FALSE)}
    PROVE  Aside(cat, a)
<1> DEFINE r == Relation(n, FALSE, kind, {Id(b)}, FALSE)
<1>1. r \in Relations /\ r.temp = FALSE /\ r.name = n /\ r.kind = kind /\ r.on = {Id(b)} /\ r.drop = FALSE
  <2> DEFINE on == {Id(b)}
  <2>1. on \in SUBSET (BOOLEAN \X Names)
    <3>1. b.temp \in BOOLEAN /\ b.name \in Names
      BY Fields, Zenon
    <3>2. \A x \in BOOLEAN, y \in Names : {<<x, y>>} \in SUBSET (BOOLEAN \X Names)
      OBVIOUS
    <3> QED BY <3>1, <3>2, Zenon DEF Id
  <2> HIDE DEF on
  <2>2. Relation(n, FALSE, kind, on, FALSE) \in Relations
    BY <2>1, Zenon DEF Relation, Relations
  <2>3. r = Relation(n, FALSE, kind, on, FALSE)
    BY Zenon DEF on
  <2>4. on = {Id(b)}
    BY Zenon DEF on
  <2> HIDE DEF r
  <2> QED BY <2>2, <2>3, <2>4, Zenon DEF Relation
<1>2. a = cat \cup {r}
    BY Zenon
<1> HIDE DEF r
<1>3. \A q \in cat : ~(q.temp = r.temp /\ q.name = r.name)
    BY <1>1, Zenon
<1>4. r \notin cat
    BY <1>3, Zenon
<1>5. Based(cat, r)
  <2>1. b \in cat \ {r} /\ ~b.temp /\ b.temp = r.temp
    BY <1>1, <1>4, Zenon
  <2>2. CASE kind = "index" /\ b.kind = "table"
    BY <1>1, <2>1, <2>2, Zenon DEF Based
  <2>3. CASE kind = "view" /\ b.kind # "index"
    BY <1>1, <2>1, <2>3, Zenon DEF Based
  <2> QED BY <2>2, <2>3, Zenon
<1>6. Sound(a)
  <2>1. r \in Relations
    BY <1>1, Zenon
  <2>2. Sound(cat \cup {r})
    BY ONLY Sound(cat), <1>3, <1>5, <2>1, AddedSound, Zenon
  <2> QED BY <1>2, <2>2, Zenon
<1>7. SameTemps(cat, a)
    BY <1>1, <1>2, Zenon DEF SameTemps
<1>8. {q \in a : ~q.temp /\ q.kind = "table"} = {q \in cat : ~q.temp /\ q.kind = "table"}
    BY <1>1, <1>2, Zenon
<1> QED BY <1>2, <1>4, <1>6, <1>7, <1>8, Zenon DEF Durable, Aside

\* CREATE INDEX on a durable table.
LEMMA IndexDurableFollows ==
    ASSUME NEW cat, Sound(cat), NEW st, Calm(cat, st), st.kind = "index",
           ~(st.rel.schema # "public" /\ HasTemp(cat, st.rel.name)), NEW after \in Run(cat, st)
    PROVE  Follows(cat, st, after)
<1>1. st \in Statements /\ st.rel \in Rels /\ st.new \in Names /\ ~st.guard /\ ~st.again /\ ~st.temp /\ ~st.drop
    BY Parsed, Zenon DEF Calm
<1>2. ASSUME NEW a \in Run(cat, st)
      PROVE  Aside(cat, a)
  <2>1. PICK b \in cat :
             /\ b.kind = "table" /\ b.name = st.rel.name /\ b.temp \in BOOLEAN
             /\ b.temp = (st.rel.schema # "public" /\ HasTemp(cat, st.rel.name))
             /\ a = cat \cup {Relation(st.new, b.temp, "index", {Id(b)}, FALSE)}
             /\ \A q \in cat : ~(q.temp = b.temp /\ q.name = st.new)
    <3>1. Indexed(cat, st, a)
      BY <1>1, IndexRuns, Zenon
    <3> QED BY <3>1, Zenon DEF Indexed
  <2>2. b.temp = FALSE
    BY <2>1, Zenon
  <2>3. /\ a = cat \cup {Relation(st.new, FALSE, "index", {Id(b)}, FALSE)}
        /\ \A q \in cat : ~(q.temp = FALSE /\ q.name = st.new)
    BY <2>1, <2>2, Zenon
  <2>4. st.new \in Names /\ b.kind = "table"
    BY <1>1, <2>1, Zenon
  <2> QED BY ONLY Sound(cat), b \in cat, <2>2, <2>3, <2>4, AddDurable, Zenon
<1>3. ~Tracked(ListOf(cat).relations, st.rel) /\ ~Tracked(ApplyOnCommitDrop(ListOf(cat)).relations, st.rel)
  <2>1. \A x : x \in Without(TempNames(cat), IndexPairs(cat), DropNames(cat), DropNames(cat)) => x \in TempNames(cat)
    BY Zenon DEF Without
  <2> QED BY <1>1, <2>1, OnList, Zenon
<1>4. \A t, v : ~Tracked(t.relations, st.rel) => Remember(t, st, v) = t
    BY Zenon DEF Remember
<1>5. ListFollows(cat, st, after)
    BY <1>2, <1>3, <1>4, ListUnchanged, Zenon DEF Aside
<1>6. Touched(cat, st) = {"durable"}
    BY <1>1, <1>2, TouchedDurable, Zenon DEF Aside
<1>7. Counts(ListOf(cat), st) = {"durable"}
    BY <1>1, <1>3, Zenon DEF Counts, Target, RangeVars
<1>8. KindFollows(cat, st, after)
    BY <1>1, <1>2, <1>6, <1>7, Zenon DEF KindFollows, Aside
<1> QED BY <1>5, <1>8, Zenon DEF Follows

\* CREATE VIEW: the Proxy refuses a durable view over a temporary relation as a mix of
\* the two kinds, so what runs is durable.
LEMMA ViewFollows ==
    ASSUME NEW cat, Sound(cat), NEW st, Calm(cat, st), st.kind = "view", NEW after \in Run(cat, st)
    PROVE  Follows(cat, st, after)
<1>1. /\ st \in Statements /\ st.rel \in Rels /\ st.from \in Rels /\ ~st.guard /\ ~st.again /\ ~st.temp /\ ~st.drop
      /\ st.rel.name \in Names /\ st.rel.schema # "pg_temp"
      /\ st.rel.schema = "public" \/ st.rel.name \notin TempNames(cat)
  <2>1. st \in Statements /\ st.rel \in Rels /\ st.from \in Rels /\ ~st.guard /\ ~st.again /\ ~st.temp /\ ~st.drop
    BY Parsed, Zenon DEF Calm
  <2>2. st.rel.schema \in {"plain", "pg_temp", "public"} /\ st.rel.name \in Names
    BY <2>1, Zenon DEF Rels
  <2> QED BY <2>1, <2>2, Zenon DEF Calm
<1>2. ~Tracked(ListOf(cat).relations, st.rel)
    BY <1>1, OnList, Zenon
<1>3. ~Tracked(ListOf(cat).relations, st.from) /\ Counts(ListOf(cat), st) = {"durable"}
  <2>1. Counts(ListOf(cat), st)
        = (IF Tracked(ListOf(cat).relations, st.from) THEN {"temporary"} ELSE {}) \cup {"durable"}
    BY <1>1, <1>2, Zenon DEF Counts, Target, RangeVars
  <2>2. Counts(ListOf(cat), st) # {"temporary", "durable"}
    BY Zenon DEF Calm
  <2> QED BY <2>1, <2>2, Zenon
<1>4. ~(st.from.schema # "public" /\ HasTemp(cat, st.from.name))
    BY <1>1, <1>3, OnList, Zenon
<1>5. ASSUME NEW a \in Run(cat, st)
      PROVE  Aside(cat, a)
  <2>1. PICK b \in Found(cat, st.from) :
          /\ b.kind # "index"
          /\ a \in LET temp == st.temp \/ st.rel.schema = "pg_temp" \/ b.temp
                   IN  IF temp /\ st.rel.schema = "public" THEN {}
                       ELSE Added(cat, Relation(st.rel.name, temp, "view", {Id(b)}, FALSE), FALSE)
    BY Zenon DEF Run, RunView
  <2>2. b \in cat /\ b.temp = FALSE
    <3>1. b \in cat /\ b.temp = (st.from.schema # "public" /\ HasTemp(cat, st.from.name))
      BY ONLY Sound(cat), <1>1, FoundIs, ZenonT(30)
    <3> QED BY <1>4, <3>1, Zenon
  <2> DEFINE r == Relation(st.rel.name, FALSE, "view", {Id(b)}, FALSE)
  <2>3. a \in Added(cat, r, FALSE)
    BY <1>1, <2>1, <2>2, Zenon
  <2>4. r.temp = FALSE /\ r.name = st.rel.name
    BY Zenon DEF Relation
  <2>5. a = cat \cup {r} /\ \A q \in cat : ~(q.temp = r.temp /\ q.name = r.name)
    <3> HIDE DEF r
    <3> QED BY <2>3, AddedIs, Zenon
  <2>6. a = cat \cup {r} /\ (\A q \in cat : ~(q.temp = FALSE /\ q.name = st.rel.name)) /\ st.rel.name \in Names
    <3> HIDE DEF r
    <3> QED BY <1>1, <2>4, <2>5, Zenon
  <2> QED BY ONLY Sound(cat), <2>1, <2>2, <2>6, AddDurable, Zenon
<1>6. \A t, v : Remember(t, st, v) = t
    BY Zenon DEF Remember
<1>7. ListFollows(cat, st, after)
    BY <1>5, <1>6, ListUnchanged, Zenon DEF Aside
<1>8. Touched(cat, st) = {"durable"}
    BY <1>1, <1>5, TouchedDurable, Zenon DEF Aside
<1>9. KindFollows(cat, st, after)
    BY <1>1, <1>3, <1>5, <1>8, Zenon DEF KindFollows, Aside
<1> QED BY <1>7, <1>9, Zenon DEF Follows

\* ALTER TABLE changes no names.
LEMMA AlterFollows ==
    ASSUME NEW cat, Sound(cat), NEW st, Calm(cat, st), st.kind = "alter", NEW after \in Run(cat, st)
    PROVE  Follows(cat, st, after)
<1>1. /\ st \in Statements /\ st.rel \in Rels /\ ~st.guard /\ ~st.again /\ ~st.temp /\ ~st.drop
    BY Parsed, Zenon DEF Calm
<1>2. after = cat /\ Found(cat, st.rel) # {}
    BY Zenon DEF Run
<1>3. PICK r : r \in Found(cat, st.rel)
    BY <1>2, Zenon
<1>4. /\ r \in cat /\ r.temp = (st.rel.schema # "public" /\ HasTemp(cat, st.rel.name))
      /\ Found(cat, st.rel) = {r}
    BY <1>1, <1>3, FoundIs
<1>5. Touched(cat, st) = {IF r.temp THEN "temp" ELSE "durable"}
  <2>1. Touched(cat, st) = {IF q.temp THEN "temp" ELSE "durable" : q \in Found(cat, st.rel)}
    BY Zenon DEF Touched
  <2> QED BY <1>4, <2>1, Zenon
<1>6. Tracked(ListOf(cat).relations, st.rel) <=> st.rel.schema # "public" /\ HasTemp(cat, st.rel.name)
    BY <1>1, OnList, Zenon
<1>7. Counts(ListOf(cat), st) = {IF Tracked(ListOf(cat).relations, st.rel) THEN "temporary" ELSE "durable"}
    BY <1>1, Zenon DEF Counts, Target, RangeVars
<1>8. \A t, v : Remember(t, st, v) = t
    BY Zenon DEF Remember
<1>9. SameTemps(cat, cat)
    BY Zenon DEF SameTemps
<1>10. ListFollows(cat, st, after)
    BY <1>2, <1>8, <1>9, ListUnchanged, Zenon
<1>11. KindFollows(cat, st, after)
    BY <1>1, <1>2, <1>4, <1>5, <1>6, <1>7, Zenon DEF KindFollows
<1> QED BY <1>10, <1>11, Zenon DEF Follows

\* The catalog with a relation of the statement's name renamed.
Renamed(cat, st, a) ==
    \E r \in cat :
      /\ r.name = st.rel.name /\ r.temp \in BOOLEAN
      /\ r.temp = (st.rel.schema # "public" /\ HasTemp(cat, st.rel.name))
      /\ a = {Following(r, st.new, q) : q \in cat}
      /\ \A q \in cat : ~(q.temp = r.temp /\ q.name = st.new)

\* ALTER ... RENAME: what PostgreSQL renames.
LEMMA RenameRuns ==
    ASSUME NEW cat, Sound(cat), NEW st \in Statements, st.kind = "rename", NEW a \in Run(cat, st)
    PROVE  Renamed(cat, st, a)
<1>1. st.rel \in Rels /\ st.new \in Names
    BY Parsed, Zenon
<1>2. a \in RunRename(cat, st)
    BY Zenon DEF Run
<1>3. PICK r \in Found(cat, st.rel) : RenamedTo(cat, r, st.new, a)
    BY ONLY Sound(cat), <1>1, <1>2, RenamedIs, ZenonT(30)
<1>4. /\ r \in cat /\ r.name = st.rel.name /\ r.temp \in BOOLEAN
      /\ r.temp = (st.rel.schema # "public" /\ HasTemp(cat, st.rel.name))
    BY <1>1, FoundIs, Fields
<1> QED BY <1>3, <1>4, Zenon DEF Renamed, RenamedTo

\* ALTER ... RENAME of a durable relation.
LEMMA RenameDurableFollows ==
    ASSUME NEW cat, Sound(cat), NEW st, Calm(cat, st), st.kind = "rename",
           ~(st.rel.schema # "public" /\ HasTemp(cat, st.rel.name)), NEW after \in Run(cat, st)
    PROVE  Follows(cat, st, after)
<1>1. st \in Statements /\ st.rel \in Rels /\ st.new \in Names /\ ~st.guard /\ ~st.again /\ ~st.temp /\ ~st.drop
    BY Parsed, Zenon DEF Calm
<1>2. ASSUME NEW a \in Run(cat, st)
      PROVE  Sound(a) /\ SameTemps(cat, a) /\ a # cat
  <2>1. PICK r \in cat :
          /\ r.name = st.rel.name /\ r.temp \in BOOLEAN
          /\ r.temp = (st.rel.schema # "public" /\ HasTemp(cat, st.rel.name))
          /\ a = {Following(r, st.new, q) : q \in cat}
          /\ \A q \in cat : ~(q.temp = r.temp /\ q.name = st.new)
    <3>1. Renamed(cat, st, a)
      BY <1>1, RenameRuns, Zenon
    <3> QED BY <3>1, Zenon DEF Renamed
  <2>2. r.temp = FALSE
    BY <2>1, Zenon
  <2> DEFINE b == {Following(r, st.new, q) : q \in cat}
  <2>3. Sound(b)
    BY <1>1, <2>1, RenamedSound, Zenon
  <2>4. SameTemps(cat, b)
    <3>1. ~r.temp
      BY <2>2, Zenon
    <3> QED BY ONLY Sound(cat), r \in cat, <1>1, <3>1, RenameDurable, Zenon
  <2>5. Following(r, st.new, r) \in b /\ Following(r, st.new, r) \notin cat
    BY <1>1, <2>1, FollowingIs
  <2>6. a = b
    BY <2>1, Zenon
  <2> HIDE DEF b
  <2> QED BY <2>3, <2>4, <2>5, <2>6, Zenon
<1>3. ~Tracked(ListOf(cat).relations, st.rel) /\ ~Tracked(ApplyOnCommitDrop(ListOf(cat)).relations, st.rel)
  <2>1. \A x : x \in Without(TempNames(cat), IndexPairs(cat), DropNames(cat), DropNames(cat)) => x \in TempNames(cat)
    BY Zenon DEF Without
  <2> QED BY <1>1, <2>1, OnList, Zenon
<1>4. \A t, v : ~Tracked(t.relations, st.rel) => Remember(t, st, v) = t
    BY Zenon DEF Remember
<1>5. ListFollows(cat, st, after)
    BY <1>2, <1>3, <1>4, ListUnchanged, Zenon
<1>6. Touched(cat, st) = {"durable"}
    BY <1>1, <1>2, TouchedDurable, Zenon
<1>7. Counts(ListOf(cat), st) = {"durable"}
    BY <1>1, <1>3, Zenon DEF Counts, Target, RangeVars
<1>8. KindFollows(cat, st, after)
    BY <1>1, <1>6, <1>7, Zenon DEF KindFollows
<1> QED BY <1>5, <1>8, Zenon DEF Follows

\* ALTER ... RENAME of a temporary relation (renameTemporaryRelation).
LEMMA RenameTempFollows ==
    ASSUME NEW cat, Sound(cat), NEW st, Calm(cat, st), st.kind = "rename",
           st.rel.schema # "public", HasTemp(cat, st.rel.name), NEW after \in Run(cat, st)
    PROVE  Follows(cat, st, after)
<1> DEFINE n == st.rel.name  m == st.new  R == TempNames(cat)  D == DropNames(cat)  P == IndexPairs(cat)
           R2 == (R \ {n}) \cup {m}  D2 == MovedDrops(D, P, n, m)  P2 == Moved(P, n, m)
<1>1. st \in Statements /\ st.rel \in Rels /\ n \in Names /\ m \in Names /\ ~st.guard /\ ~st.again /\ ~st.temp /\ ~st.drop
    BY Parsed, Keys, Zenon DEF Calm
<1>2. ASSUME NEW a \in Run(cat, st)
      PROVE  Becomes(cat, a, R2, D2, P2) /\ m \notin R
  <2>1. PICK r \in cat :
          /\ r.name = st.rel.name /\ r.temp \in BOOLEAN
          /\ r.temp = (st.rel.schema # "public" /\ HasTemp(cat, st.rel.name))
          /\ a = {Following(r, st.new, q) : q \in cat}
          /\ \A q \in cat : ~(q.temp = r.temp /\ q.name = st.new)
    <3>1. Renamed(cat, st, a)
      BY <1>1, RenameRuns, Zenon
    <3> QED BY <3>1, Zenon DEF Renamed
  <2>2. r.temp = TRUE /\ r.temp
    BY <2>1, Zenon
  <2>3. m \notin R
    BY <2>1, <2>2, Fields, Zenon DEF TempNames, HasTemp
  <2> DEFINE b == {Following(r, m, q) : q \in cat}
  <2>4. Becomes(cat, b, (TempNames(cat) \ {r.name}) \cup {m},
                MovedDrops(DropNames(cat), IndexPairs(cat), r.name, m), Moved(IndexPairs(cat), r.name, m))
    <3>1. (\A q \in cat : ~(q.temp = r.temp /\ q.name = m)) /\ m \in Names
      BY <1>1, <2>1, Zenon
    <3> HIDE DEF m
    <3> QED BY ONLY Sound(cat), r \in cat, <2>2, <3>1, RenameTemporary, Zenon
  <2>5. a = b /\ r.name = n
    BY <2>1, Zenon
  <2> HIDE DEF b, n, m
  <2> QED BY <2>3, <2>4, <2>5, Zenon
<1>3. n \in R
    BY <1>1, Zenon DEF TempNames
<1>4. Paired(R, D, P) /\ P \subseteq Names \X Names
    BY CatalogPaired, Zenon
<1>5. ListOf(cat) = Keyed(R, D, P) /\ ListOf(after) = Keyed(R2, D2, P2)
    BY <1>2, Zenon DEF ListOf, Becomes
<1>6. Tracked(ListOf(cat).relations, st.rel)
      /\ (Tracked(ApplyOnCommitDrop(ListOf(cat)).relations, st.rel) <=> n \in Without(R, P, D, D))
    BY <1>1, <1>3, OnList, Zenon
<1>7. KindFollows(cat, st, after)
  <2>1. Touched(cat, st) \subseteq {"temp"}
    BY <1>1, <1>2, TouchedTemp, Zenon DEF Becomes
  <2>2. Counts(ListOf(cat), st) = {"temporary"}
    BY <1>1, <1>6, Zenon DEF Counts, Target, RangeVars
  <2> QED BY <1>2, <2>1, <2>2, DurablesDecide, Zenon DEF KindFollows, Becomes
<1>8. ListFollows(cat, st, after)
  <2>1. \A t, v : Remember(t, st, v) = IF Tracked(t.relations, st.rel) THEN RenameRelation(t, st) ELSE t
    BY Zenon DEF Remember
  <2>2. \A A, E, Q : Q \subseteq Names \X Names =>
          RenameRelation(Keyed(A, E, Q), st) = Keyed((A \ {n}) \cup {m}, MovedDrops(E, Q, n, m), Moved(Q, n, m))
    BY <1>1, KeyedRename
  <2> HIDE DEF n, m, R, D, P, R2, D2, P2
  <2>3. Remember(ListOf(cat), st, TRUE) = ListOf(after)
    <3>1. RenameRelation(Keyed(R, D, P), st) = Keyed(R2, D2, P2)
      BY ONLY <1>4, <2>2, Zenon DEF R2, D2, P2
    <3>2. Remember(ListOf(cat), st, TRUE) = RenameRelation(ListOf(cat), st)
      BY <1>6, <2>1, Zenon
    <3> QED BY ONLY <1>5, <3>1, <3>2, Zenon
  <2>4. Remember(ApplyOnCommitDrop(ListOf(cat)), st, FALSE) = ApplyOnCommitDrop(ListOf(after))
    <3> DEFINE W == Without(R, P, D, D)  B == Between(P, D, D)
    <3>1. ApplyOnCommitDrop(ListOf(cat)) = Keyed(W, {}, B)
      BY ListApplied, Zenon DEF R, D, P
    <3>2. ApplyOnCommitDrop(ListOf(after)) = Keyed(Without(R2, P2, D2, D2), {}, Between(P2, D2, D2))
      BY <1>2, ListApplied, Zenon DEF Becomes
    <3>3. /\ n \in W => Without(R2, P2, D2, D2) = (W \ {n}) \cup {m} /\ Between(P2, D2, D2) = Moved(B, n, m)
          /\ n \notin W => Without(R2, P2, D2, D2) = W /\ Between(P2, D2, D2) = B
      <4>1. Paired(R, D, P) /\ n \in R /\ m \in Names /\ m \notin R
        BY <1>1, <1>2, <1>3, <1>4, Zenon DEF m
      <4>2. RenameSettles(R, D, P, n, m)
        BY ONLY <4>1, RenameCommutes, Zenon
      <4> QED BY <4>2, Zenon DEF RenameSettles, R2, D2, P2
    <3>4. B \subseteq Names \X Names /\ MovedDrops({}, B, n, m) = {}
      BY <1>4, Zenon DEF Between, MovedDrops
    <3> HIDE DEF W, B
    <3>5. CASE n \in W
      <4>1. RenameRelation(Keyed(W, {}, B), st) = Keyed((W \ {n}) \cup {m}, {}, Moved(B, n, m))
        BY ONLY <2>2, <3>4, Zenon
      <4>2. Remember(ApplyOnCommitDrop(ListOf(cat)), st, FALSE) = RenameRelation(Keyed(W, {}, B), st)
        BY <1>6, <2>1, <3>1, <3>5, Zenon DEF W
      <4> QED BY ONLY <3>2, <3>3, <3>5, <4>1, <4>2, Zenon
    <3>6. CASE n \notin W
      BY <1>6, <2>1, <3>1, <3>2, <3>3, <3>6, Zenon DEF W
    <3> QED BY <3>5, <3>6, Zenon
  <2>5. TempNames(after) \subseteq TempNames(cat) \cup {st.new}
    BY <1>2, Zenon DEF Becomes, R2, R, m
  <2>6. DropNames(cat) = {} => DropNames(after) = {}
    BY <1>2, Zenon DEF Becomes, D2, MovedDrops, D
  <2> QED BY <1>1, <1>2, <2>3, <2>4, <2>5, <2>6, ZenonT(30) DEF ListFollows, Becomes
<1> QED BY <1>7, <1>8, Zenon DEF Follows

\* What a DROP names.
Named(cat, st) == UNION {Found(cat, rel) : rel \in st.names}

\* The indexes that forgetTemporaryName takes along: those of the dropped names,
\* unless indexes are dropped.
Along(st) == IF st.what # "index" THEN Hits(st.names) ELSE {}

\* forgetTemporaryName for all of a statement's names.
LEMMA StatementForgets ==
    ASSUME NEW st \in Statements, NEW R, NEW D, NEW P, P \subseteq Names \X Names
    PROVE  Forget(Keyed(R, D, P), st.names, st.what # "index")
           = Keyed(Without(R, P, Hits(st.names), Along(st)), D \ Hits(st.names),
                   Between(P, Hits(st.names), Along(st)))
<1>1. st.names \in SUBSET Rels /\ P \in SUBSET (Names \X Names)
    BY Parsed, Zenon
<1> DEFINE c == st.what # "index"  H == Hits(st.names)  G == Along(st)
<1>2. (c /\ G = H) \/ (~c /\ G = {})
    BY Zenon DEF Along
<1> HIDE DEF c, G
<1>3. Forget(Keyed(R, D, P), st.names, c) = Keyed(Without(R, P, H, G), D \ H, Between(P, H, G))
    BY ONLY <1>1, <1>2, KeyedForget
<1> QED BY <1>3, Zenon DEF c, G

\* DROP: what PostgreSQL drops.
LEMMA DropRuns ==
    ASSUME NEW cat, Sound(cat), NEW st \in Statements, st.kind = "drop", NEW a \in Run(cat, st)
    PROVE  /\ a = cat \ Dependents(cat, Named(cat, st)) /\ Named(cat, st) \subseteq cat
           /\ \A r \in Named(cat, st) : r.kind = st.what
           /\ \A rel \in st.names : rel \in Rels /\ Found(cat, rel) # {}
           /\ Named(cat, st) # {}
<1>1. a \in RunDrop(cat, st)
    BY Zenon DEF Run
<1>2. st.names \subseteq Rels /\ st.names # {}
    BY Parsed, Zenon
<1>3. /\ a = cat \ Dependents(cat, Named(cat, st))
      /\ \A r \in Named(cat, st) : r.kind = st.what
      /\ {} \notin {Found(cat, rel) : rel \in st.names}
    BY <1>1, Zenon DEF RunDrop, Named
<1>4. \A rel \in st.names : Found(cat, rel) # {}
    BY <1>3, Zenon
<1>5. \A rel \in st.names : Found(cat, rel) \subseteq cat
    BY <1>2, FoundIs, Zenon
<1> QED BY <1>2, <1>3, <1>4, <1>5 DEF Named

\* A DROP that is not refused is of temporary relations or of durable ones.
LEMMA DropCounts ==
    ASSUME NEW cat, Sound(cat), NEW st, Calm(cat, st), st.kind = "drop", NEW a \in Run(cat, st)
    PROVE  \/ /\ \A rel \in st.names : rel.schema # "public" /\ HasTemp(cat, rel.name)
              /\ Counts(ListOf(cat), st) = {"temporary"}
           \/ /\ \A rel \in st.names : ~(rel.schema # "public" /\ HasTemp(cat, rel.name))
              /\ Counts(ListOf(cat), st) = {"durable"}
<1>1. st \in Statements /\ st.names \subseteq Rels /\ st.names # {}
    BY Parsed, Zenon DEF Calm
<1>2. \A rel \in st.names :
        TrackedName(ListOf(cat).relations, rel) <=> rel.schema # "public" /\ HasTemp(cat, rel.name)
    BY <1>1, OnList, Zenon
<1>3. Counts(ListOf(cat), st)
      = {IF TrackedName(ListOf(cat).relations, rel) THEN "temporary" ELSE "durable" : rel \in st.names}
    BY Zenon DEF Counts
<1>4. Counts(ListOf(cat), st) # {"temporary", "durable"}
    BY Zenon DEF Calm
<1>5. CASE \A rel \in st.names : TrackedName(ListOf(cat).relations, rel)
    BY <1>1, <1>2, <1>3, <1>5, Zenon
<1>6. CASE \A rel \in st.names : ~TrackedName(ListOf(cat).relations, rel)
    BY <1>1, <1>2, <1>3, <1>6, Zenon
<1>7. CASE /\ \E rel \in st.names : TrackedName(ListOf(cat).relations, rel)
           /\ \E rel \in st.names : ~TrackedName(ListOf(cat).relations, rel)
    BY <1>3, <1>4, <1>7, Zenon
<1> QED BY <1>5, <1>6, <1>7, Zenon

\* DROP of temporary relations (forgetTemporaryName).
LEMMA DropTempFollows ==
    ASSUME NEW cat, Sound(cat), NEW st, Calm(cat, st), st.kind = "drop", NEW after \in Run(cat, st),
           \A rel \in st.names : rel.schema # "public" /\ HasTemp(cat, rel.name),
           Counts(ListOf(cat), st) = {"temporary"}
    PROVE  Follows(cat, st, after)
<1> DEFINE R == TempNames(cat)  D == DropNames(cat)  P == IndexPairs(cat)
           S == Named(cat, st)  H == Hits(st.names)  G == Along(st)
<1>1. st \in Statements /\ ~st.guard /\ ~st.again /\ ~st.temp /\ ~st.drop
    BY Parsed, Zenon DEF Calm
<1>2. /\ after = cat \ Dependents(cat, S) /\ S \subseteq cat /\ \A r \in S : r.kind = st.what
      /\ \A rel \in st.names : rel \in Rels /\ Found(cat, rel) # {}
    BY <1>1, DropRuns, Zenon
<1>3. \A r \in S : r.temp /\ r.name \in H
  <2>1. ASSUME NEW rel \in st.names, NEW r \in Found(cat, rel) PROVE r.temp /\ r.name = rel.name
    BY <1>2, FoundIs, Zenon
  <2> QED BY <2>1, Zenon DEF Named, Hits
<1>4. H = {r.name : r \in S}
  <2>1. ASSUME NEW rel \in st.names PROVE \E r \in S : r.name = rel.name
    <3>1. PICK r : r \in Found(cat, rel)
      BY <1>2, Zenon
    <3>2. r.name = rel.name
      BY <1>2, <3>1, FoundIs, Zenon
    <3> QED BY <3>1, <3>2, Zenon DEF Named
  <2> QED BY <1>3, <2>1, Zenon DEF Hits
<1>5. ASSUME NEW a \in Run(cat, st)
      PROVE  Becomes(cat, a, Without(R, P, H, H), D \ H, Between(P, H, H))
  <2>1. a = cat \ Dependents(cat, S)
    BY <1>1, DropRuns, Zenon
  <2> HIDE DEF S, H
  <2>2. Becomes(cat, cat \ Dependents(cat, S), Without(R, P, H, H), D \ H, Between(P, H, H))
    BY <1>2, <1>3, <1>4, DropTemporaries, Zenon
  <2> QED BY <2>1, <2>2, Zenon
<1>6. Paired(R, D, P) /\ P \subseteq Names \X Names
    BY CatalogPaired, Zenon
<1>7. G \subseteq H /\ \A n, k : <<n, k>> \in P /\ k \in H => k \in G
  <2>1. CASE st.what # "index"
    BY <2>1, Zenon DEF Along
  <2>2. CASE st.what = "index"
    <3>1. ASSUME NEW n, NEW k, <<n, k>> \in P, k \in H PROVE FALSE
      <4>1. PICK r \in S : r.name = k
        BY <1>4, <3>1, Zenon
      <4>2. r \in cat /\ r.kind = "index" /\ r.temp
        BY <1>2, <1>3, <2>2, <4>1, Zenon
      <4>3. IndexOf(cat, n, k)
        BY <3>1, Zenon DEF IndexPairs
      <4> QED BY <4>1, <4>2, <4>3, Bases, Fields, ZenonT(30) DEF IndexOf, Id
    <3> QED BY <2>2, <3>1, Zenon DEF Along
  <2> QED BY <2>1, <2>2, Zenon
<1>8. Without(R, P, H, H) = Without(R, P, H, G) /\ Between(P, H, H) = Between(P, H, G)
  <2> HIDE DEF R, P, H, G
  <2>1. Without(R, P, H, H) = Without(R, P, H, G)
    BY <1>7, Zenon DEF Without
  <2>2. \A p \in P : p = <<p[1], p[2]>>
    BY <1>6
  <2>3. \A p \in P : p[2] \in H <=> p[2] \in G
    BY <1>7, <2>2, Zenon
  <2> QED BY <2>1, <2>3, Zenon DEF Between
<1>9. KindFollows(cat, st, after)
  <2>1. Touched(cat, st) \subseteq {"temp"}
    BY <1>1, <1>5, TouchedTemp, Zenon DEF Becomes
  <2> QED BY <1>5, <2>1, DurablesDecide, Zenon DEF KindFollows, Becomes
<1>10. ListFollows(cat, st, after)
  <2>1. \A t, v : Remember(t, st, v) = Forget(t, st.names, st.what # "index")
    BY Zenon DEF Remember
  <2>2. \A A, E, Q : Q \subseteq Names \X Names =>
          Forget(Keyed(A, E, Q), st.names, st.what # "index")
          = Keyed(Without(A, Q, H, G), E \ H, Between(Q, H, G))
    BY <1>1, StatementForgets, Zenon
  <2>3. ListOf(cat) = Keyed(R, D, P) /\ ListOf(after) = Keyed(Without(R, P, H, G), D \ H, Between(P, H, G))
    BY <1>5, <1>8, Zenon DEF ListOf, Becomes
  <2> HIDE DEF R, D, P, H, G
  <2>4. Remember(ListOf(cat), st, TRUE) = ListOf(after)
    <3>1. Forget(Keyed(R, D, P), st.names, st.what # "index") = Keyed(Without(R, P, H, G), D \ H, Between(P, H, G))
      BY ONLY <1>6, <2>2, Zenon
    <3> QED BY ONLY <2>1, <2>3, <3>1, Zenon
  <2>5. Remember(ApplyOnCommitDrop(ListOf(cat)), st, FALSE) = ApplyOnCommitDrop(ListOf(after))
    <3> DEFINE W == Without(R, P, D, D)  B == Between(P, D, D)
    <3>1. ApplyOnCommitDrop(ListOf(cat)) = Keyed(W, {}, B)
      BY ListApplied, Zenon DEF R, D, P
    <3>2. ApplyOnCommitDrop(ListOf(after))
          = Keyed(Without(Without(R, P, H, G), Between(P, H, G), D \ H, D \ H), {},
                  Between(Between(P, H, G), D \ H, D \ H))
      BY <1>5, <1>8, ListApplied, Zenon DEF Becomes
    <3>3. DropSettles(R, D, P, H, G)
      <4>1. \A p \in P : p = <<p[1], p[2]>>
        BY <1>6
      <4> QED BY ONLY <1>7, <4>1, DropCommutes, Zenon
    <3>4. Forget(Keyed(W, {}, B), st.names, st.what # "index") = Keyed(Without(W, B, H, G), {}, Between(B, H, G))
      <4>1. B \subseteq Names \X Names /\ {} \ H = {}
        BY <1>6, Zenon DEF Between
      <4> HIDE DEF W, B
      <4> QED BY <2>2, <4>1
    <3> QED BY ONLY <2>1, <3>1, <3>2, <3>3, <3>4, Zenon DEF DropSettles
  <2>6. TempNames(after) \subseteq TempNames(cat) /\ DropNames(after) \subseteq DropNames(cat)
    BY <1>5, Zenon DEF Becomes, Without, R, D
  <2> QED BY <1>1, <1>5, <2>4, <2>5, <2>6, Zenon DEF ListFollows, Becomes
<1> QED BY <1>9, <1>10, Zenon DEF Follows

\* DROP of durable relations.
LEMMA DropDurableFollows ==
    ASSUME NEW cat, Sound(cat), NEW st, Calm(cat, st), st.kind = "drop", NEW after \in Run(cat, st),
           \A rel \in st.names : ~(rel.schema # "public" /\ HasTemp(cat, rel.name)),
           Counts(ListOf(cat), st) = {"durable"}
    PROVE  Follows(cat, st, after)
<1> DEFINE R == TempNames(cat)  D == DropNames(cat)  P == IndexPairs(cat)
           S == Named(cat, st)  H == Hits(st.names)  G == Along(st)
<1>1. st \in Statements /\ ~st.guard /\ ~st.again /\ ~st.temp /\ ~st.drop
    BY Parsed, Zenon DEF Calm
<1>2. /\ S \subseteq cat /\ S # {} /\ \A rel \in st.names : rel \in Rels /\ Found(cat, rel) # {}
    BY <1>1, DropRuns, Zenon
<1>3. \A r \in S : ~r.temp
  <2>1. ASSUME NEW rel \in st.names, NEW r \in Found(cat, rel) PROVE ~r.temp
    BY <1>2, FoundIs, Zenon
  <2> QED BY <2>1, Zenon DEF Named
<1>4. ASSUME NEW a \in Run(cat, st)
      PROVE  Sound(a) /\ SameTemps(cat, a) /\ a # cat
  <2>1. a = cat \ Dependents(cat, S)
    BY <1>1, DropRuns, Zenon
  <2> HIDE DEF S
  <2>2. S \in SUBSET cat
    BY <1>2, Zenon
  <2>3. Sound(cat \ Dependents(cat, S))
    BY ONLY Sound(cat), <2>2, DroppedSound, Zenon
  <2>4. \A r \in Dependents(cat, S) : ~r.temp
    BY <1>3, <2>2, DependentsOfKind, Zenon
  <2>5. S \subseteq Dependents(cat, S)
    BY <2>2, DependentsAre, Zenon
  <2> QED BY <1>2, <2>1, <2>3, <2>4, <2>5, Zenon DEF SameTemps
<1>5. G \subseteq H /\ \A x \in H : x \notin R
  <2>1. \A x \in H : ~HasTemp(cat, x)
    BY Zenon DEF Hits
  <2> QED BY <2>1, Zenon DEF Along, TempNames
<1>6. Paired(R, D, P) /\ P \subseteq Names \X Names
    BY CatalogPaired, Zenon
<1>7. ASSUME NEW A, A \subseteq R, NEW E, E \subseteq R, NEW Q, Q \subseteq P
      PROVE  Forget(Keyed(A, E, Q), st.names, st.what # "index") = Keyed(A, E, Q)
  <2> HIDE DEF R, D, P, H, G
  <2>1. Forget(Keyed(A, E, Q), st.names, st.what # "index") = Keyed(Without(A, Q, H, G), E \ H, Between(Q, H, G))
    BY <1>1, <1>6, <1>7, StatementForgets, Zenon DEF H, G
  <2>2. \A n, k : <<n, k>> \in P => n \in R /\ k \in R
    BY <1>6, Zenon DEF Paired
  <2>3. Without(A, Q, H, G) = A
    BY <1>5, <1>7, <2>2, Zenon DEF Without
  <2>4. E \ H = E
    BY <1>5, <1>7, Zenon
  <2>5. \A p \in P : p[1] \in R /\ p[2] \in R
    BY <1>6, Zenon DEF Paired
  <2>6. Between(Q, H, G) = Q
    BY <1>5, <1>7, <2>5, Zenon DEF Between
  <2> QED BY <2>1, <2>3, <2>4, <2>6, Zenon
<1>8. \A t, v : Remember(t, st, v) = Forget(t, st.names, st.what # "index")
    BY Zenon DEF Remember
<1>9. Remember(ListOf(cat), st, TRUE) = ListOf(cat)
  <2>1. D \subseteq R
    BY <1>6, Zenon DEF Paired
  <2> HIDE DEF R, D, P
  <2>2. Forget(Keyed(R, D, P), st.names, st.what # "index") = Keyed(R, D, P)
    BY <1>7, <2>1, Zenon
  <2> QED BY <1>8, <2>2, Zenon DEF ListOf, R, D, P
<1>10. Remember(ApplyOnCommitDrop(ListOf(cat)), st, FALSE) = ApplyOnCommitDrop(ListOf(cat))
  <2> DEFINE W == Without(R, P, D, D)  B == Between(P, D, D)
  <2>1. ApplyOnCommitDrop(ListOf(cat)) = Keyed(W, {}, B)
    BY ListApplied, Zenon
  <2>2. W \subseteq R /\ B \subseteq P /\ {} \subseteq R
    BY Zenon DEF Without, Between
  <2> HIDE DEF R, D, P, W, B
  <2>3. Forget(Keyed(W, {}, B), st.names, st.what # "index") = Keyed(W, {}, B)
    BY <1>7, <2>2, Zenon
  <2> QED BY <1>8, <2>1, <2>3, Zenon
<1>11. ListFollows(cat, st, after)
    BY <1>4, <1>9, <1>10, ListUnchanged, Zenon
<1>12. Touched(cat, st) = {"durable"}
    BY <1>1, <1>4, TouchedDurable, Zenon
<1>13. KindFollows(cat, st, after)
    BY <1>1, <1>12, Zenon DEF KindFollows
<1> QED BY <1>11, <1>13, Zenon DEF Follows

\* DISCARD ALL: every temporary relation goes.
LEMMA DiscardFollows ==
    ASSUME NEW cat, Sound(cat), NEW st, Calm(cat, st), st.kind = "discard", NEW after \in Run(cat, st)
    PROVE  Follows(cat, st, after)
<1> DEFINE S == {r \in cat : r.temp}
<1>1. st \in Statements /\ ~st.guard /\ ~st.again /\ ~st.temp /\ ~st.drop
    BY Parsed, Zenon DEF Calm
<1>2. \A a \in Run(cat, st) : a = cat \ Dependents(cat, S)
    BY Zenon DEF Run
<1>3. S \in SUBSET cat /\ \A r \in S : r.temp
    BY Zenon
<1>4. ASSUME NEW a \in Run(cat, st)
      PROVE  Sound(a) /\ Durables(a) = Durables(cat) /\ \A r \in a : ~r.temp
  <2>1. a = cat \ Dependents(cat, S)
    BY <1>2, Zenon
  <2>2. \A r \in cat : r.temp => r \in S
    BY Zenon
  <2> HIDE DEF S
  <2>3. Sound(cat \ Dependents(cat, S))
    BY ONLY Sound(cat), <1>3, DroppedSound, Zenon
  <2>4. \A r \in Dependents(cat, S) : r.temp
    BY <1>3, DependentsOfKind, Zenon
  <2>5. S \subseteq Dependents(cat, S)
    BY <1>3, DependentsAre, Zenon
  <2> QED BY <2>1, <2>2, <2>3, <2>4, <2>5, Zenon DEF Durables
<1>5. TempNames(after) = {} /\ DropNames(after) = {} /\ IndexPairs(after) = {}
  <2>1. \A r \in after : ~r.temp /\ ~r.drop
    BY <1>4, Bases, Zenon
  <2>2. \A n, k : ~HasTemp(after, n) /\ ~HasDrop(after, n) /\ ~IndexOf(after, n, k)
    BY <2>1, Zenon DEF HasTemp, HasDrop, IndexOf
  <2> QED BY <2>2, Zenon DEF TempNames, DropNames, IndexPairs
<1>6. \A t, v : Remember(t, st, v) = NoTemporaries
    BY Zenon DEF Remember
<1>7. ListOf(after) = NoTemporaries
    BY <1>5, KeyedNothing, Zenon DEF ListOf
<1>8. ApplyOnCommitDrop(ListOf(after)) = NoTemporaries
  <2>1. Without({}, {}, {}, {}) = {} /\ Between({}, {}, {}) = {}
    BY Zenon DEF Without, Between
  <2> QED BY <1>4, <1>5, <2>1, ListApplied, KeyedNothing, Zenon
<1>9. ListFollows(cat, st, after)
    BY <1>4, <1>5, <1>6, <1>7, <1>8, Zenon DEF ListFollows
<1>10. Touched(cat, st) \subseteq {"temp"}
    BY <1>1, <1>4, TouchedTemp, Zenon
<1>11. Counts(ListOf(cat), st) = {"temporary"}
    BY Zenon DEF Counts
<1>12. KindFollows(cat, st, after)
    BY <1>4, <1>10, <1>11, DurablesDecide, Zenon DEF KindFollows
<1> QED BY <1>9, <1>12, Zenon DEF Follows

\* Every statement.
LEMMA StatementFollows ==
    ASSUME NEW cat, Sound(cat), NEW st, Calm(cat, st), NEW after \in Run(cat, st)
    PROVE  Follows(cat, st, after)
<1>1. st.kind \in {"create", "index", "view", "rename", "alter", "drop", "discard"}
    BY Parsed, Zenon DEF Calm
<1>2. CASE st.kind = "create"
    BY <1>2, CreateTempFollows, CreateDurableFollows, Zenon
<1>3. CASE st.kind = "index"
    BY <1>3, IndexTempFollows, IndexDurableFollows, Zenon
<1>4. CASE st.kind = "view"
    BY <1>4, ViewFollows, Zenon
<1>5. CASE st.kind = "rename"
    BY <1>5, RenameTempFollows, RenameDurableFollows, Zenon
<1>6. CASE st.kind = "alter"
    BY <1>6, AlterFollows, Zenon
<1>7. CASE st.kind = "drop"
    BY <1>7, DropCounts, DropTempFollows, DropDurableFollows, Zenon
<1>8. CASE st.kind = "discard"
    BY <1>8, DiscardFollows, Zenon
<1> QED BY <1>1, <1>2, <1>3, <1>4, <1>5, <1>6, <1>7, <1>8

-----------------------------------------------------------------------------
(* The session: a batch that has run, and the commands that need no search *)
(* through the savepoints.                                                 *)

\* ON COMMIT DROP in PostgreSQL and applyTemporaryOnCommitDrop in the Proxy.
LEMMA CommitDrops ==
    ASSUME NEW cat, Sound(cat)
    PROVE  /\ Sound(OnCommitDrop(cat)) /\ Durable(OnCommitDrop(cat)) = Durable(cat) /\ Settled(OnCommitDrop(cat))
           /\ ListOf(OnCommitDrop(cat)) = ApplyOnCommitDrop(ListOf(cat))
<1> DEFINE S == {r \in cat : r.drop}  a == OnCommitDrop(cat)
           R == TempNames(cat)  D == DropNames(cat)  P == IndexPairs(cat)
<1>1. S \subseteq cat /\ (\A r \in S : r.temp) /\ a = cat \ Dependents(cat, S)
    BY Bases, Zenon DEF OnCommitDrop
<1>2. D = {r.name : r \in S}
    BY Fields DEF DropNames, HasDrop
<1> HIDE DEF S, a, D
<1>3. Becomes(cat, a, Without(R, P, D, D), DropNames(cat) \ D, Between(P, D, D))
  <2>1. Becomes(cat, cat \ Dependents(cat, S), Without(R, P, D, D), DropNames(cat) \ D, Between(P, D, D))
    BY <1>1, <1>2, DropTemporaries, Zenon
  <2> QED BY <1>1, <2>1, Zenon
<1>4. DropNames(a) = {}
    BY <1>3, Zenon DEF Becomes, D
<1>5. Settled(a)
  <2>1. Sound(a)
    BY <1>3, Zenon DEF Becomes
  <2> QED BY <1>4, <2>1, Fields, Zenon DEF Settled, DropNames, HasDrop
<1>6. ListOf(a) = ApplyOnCommitDrop(ListOf(cat))
    BY <1>3, <1>4, ListApplied, Zenon DEF ListOf, Becomes, D
<1> QED BY <1>3, <1>5, <1>6, DurablesDecide, Zenon DEF Becomes, a

\* The invariant's Mirrors in the terms of the lemmas.
LEMMA Mirrored ==
    ASSUME NEW t, NEW cat
    PROVE  (Mirrors(t, cat) <=> t = ListOf(cat)) /\ ListOf(cat) \in Lists
<1>1. Keyed(TempNames(cat), DropNames(cat), IndexPairs(cat)) \in Lists
    BY KeyedHas, Zenon
<1> QED BY <1>1, MirrorsIff, Zenon DEF ListOf

\* The parts of PostgreSQL's side and of the Proxy's.
LEMMA Parts ==
    ASSUME TypeOK
    PROVE  /\ pg = [cat |-> pg.cat, stack |-> pg.stack, status |-> pg.status, touched |-> pg.touched]
           /\ pg.cat \subseteq Relations /\ pg.stack \in Seq([name : Points \cup {"begin"}, cat : SUBSET Relations])
           /\ pg.status \in {"idle", "open", "failed"} /\ pg.touched \subseteq {"temp", "durable"}
           /\ tmp \in Lists /\ snapshots \in Seq([name : Points \cup {"begin"}, tmp : Lists])
           /\ transaction \in BOOLEAN /\ mutated \in BOOLEAN /\ schemaDirty \in BOOLEAN
    BY Zenon DEF TypeOK

\* The invariant of a next state, from its parts.
LEMMA Whole ==
    ASSUME NEW cat, NEW stack, NEW status, NEW touched,
           pg' = [cat |-> cat, stack |-> stack, status |-> status, touched |-> touched],
           Sound(cat), stack \in Seq([name : Points \cup {"begin"}, cat : SUBSET Relations]),
           status \in {"idle", "open", "failed"}, touched \subseteq {"temp", "durable"},
           snapshots' \in Seq([name : Points \cup {"begin"}, tmp : Lists]),
           transaction' \in BOOLEAN, mutated' \in BOOLEAN, schemaDirty' \in BOOLEAN,
           tmp' = ListOf(cat),
           Len(snapshots') = Len(stack),
           \A i \in DOMAIN stack : /\ snapshots'[i].name = stack[i].name
                                   /\ Sound(stack[i].cat) /\ Mirrors(snapshots'[i].tmp, stack[i].cat),
           transaction' <=> status # "idle",
           transaction' => stack # <<>> /\ Settled(stack[1].cat),
           ~transaction' => stack = <<>> /\ Settled(cat) /\ ~mutated' /\ touched = {},
           touched # {"temp", "durable"}, mutated' => touched = {"durable"},
           OrderedWhenDurable'
    PROVE  IInv'
<1>1. pg'.cat = cat /\ pg'.stack = stack /\ pg'.status = status /\ pg'.touched = touched
    BY Zenon
<1>2. cat \subseteq Relations
    BY Zenon DEF Sound
<1>3. tmp' \in Lists /\ Mirrors(tmp', cat)
    BY Mirrored, Zenon
<1>4. TypeOK'
    BY <1>2, <1>3, Zenon DEF TypeOK
<1>5. Stacked'
    BY <1>1, Zenon DEF Stacked
<1>6. Status'
    BY <1>1, Zenon DEF Status
<1>7. OneKind'
    BY <1>1, Zenon DEF OneKind
<1>8. Sound(pg.cat)' /\ Mirrors(tmp, pg.cat)'
    BY <1>1, <1>3, Zenon
<1> QED BY <1>4, <1>5, <1>6, <1>7, <1>8, Zenon DEF IInv

\* A command that does nothing.
LEMMA IdleOrdered == ASSUME did' = Idle PROVE OrderedWhenDurable'
    BY Zenon DEF Idle, OrderedWhenDurable

\* What the invariant says, with the list in the terms of the lemmas.
LEMMA Known0 ==
    ASSUME IInv
    PROVE  /\ TypeOK /\ Sound(pg.cat) /\ tmp = ListOf(pg.cat)
           /\ Len(snapshots) = Len(pg.stack)
           /\ \A i \in DOMAIN pg.stack :
                /\ snapshots[i].name = pg.stack[i].name
                /\ Sound(pg.stack[i].cat) /\ Mirrors(snapshots[i].tmp, pg.stack[i].cat)
           /\ transaction <=> pg.status # "idle"
           /\ transaction => pg.stack # <<>> /\ Settled(pg.stack[1].cat)
           /\ ~transaction => pg.stack = <<>> /\ Settled(pg.cat) /\ ~mutated /\ pg.touched = {}
           /\ pg.touched # {"temp", "durable"} /\ (mutated => pg.touched = {"durable"})
    BY Mirrored, Zenon DEF IInv, Stacked, Status, OneKind

\* A refused batch and a batch that fails.
LEMMA NothingKeeps ==
    ASSUME IInv, pg' = pg \/ pg' = [pg EXCEPT !.status = IF @ = "idle" THEN "idle" ELSE "failed"], did' = Idle,
           UNCHANGED <<tmp, snapshots, transaction, mutated, schemaDirty, registry>>
    PROVE  IInv'
<1>1. PICK status \in {"idle", "open", "failed"} :
        /\ pg' = [cat |-> pg.cat, stack |-> pg.stack, status |-> status, touched |-> pg.touched]
        /\ status # "idle" <=> pg.status # "idle"
    BY Known0, Parts, Zenon
<1>2. OrderedWhenDurable'
    BY IdleOrdered, Zenon
<1>3. tmp' = tmp /\ snapshots' = snapshots /\ transaction' = transaction /\ mutated' = mutated
      /\ schemaDirty' = schemaDirty
    BY Zenon
<1>4. tmp' = ListOf(pg.cat) /\ Sound(pg.cat)
    BY <1>3, Known0, Zenon
<1>5. /\ pg.stack \in Seq([name : Points \cup {"begin"}, cat : SUBSET Relations])
      /\ snapshots' \in Seq([name : Points \cup {"begin"}, tmp : Lists])
      /\ transaction' \in BOOLEAN /\ mutated' \in BOOLEAN /\ schemaDirty' \in BOOLEAN
      /\ pg.touched \subseteq {"temp", "durable"}
    BY <1>3, Known0, Parts, Zenon
<1>6. /\ Len(snapshots') = Len(pg.stack)
      /\ \A i \in DOMAIN pg.stack : /\ snapshots'[i].name = pg.stack[i].name
                                    /\ Sound(pg.stack[i].cat) /\ Mirrors(snapshots'[i].tmp, pg.stack[i].cat)
    BY <1>3, Known0, Zenon
<1>7. /\ transaction' <=> status # "idle"
      /\ transaction' => pg.stack # <<>> /\ Settled(pg.stack[1].cat)
      /\ ~transaction' => pg.stack = <<>> /\ Settled(pg.cat) /\ ~mutated' /\ pg.touched = {}
      /\ pg.touched # {"temp", "durable"}
      /\ mutated' => pg.touched = {"durable"}
  <2>1. status # "idle" <=> pg.status # "idle"
    BY <1>1, Zenon
  <2>2. (transaction' <=> transaction) /\ (mutated' <=> mutated)
    BY <1>3
  <2> QED BY ONLY <2>1, <2>2, IInv, Known0, Zenon
<1> QED BY ONLY <1>1, <1>2, <1>4, <1>5, <1>6, <1>7, Whole, ZenonT(30)

\* The list after each statement, and what a statement counts as.
Listed(cat, batch, v) == Remembering(ListOf(cat), batch, v)

CountsAt(cat, batch, i) == Counts(Listed(cat, batch, TRUE)[i - 1], batch[i])

\* What a batch counts as: classifyTemporaryDDL on the list that mirrors cat.
Kinds(cat, batch) == UNION {CountsAt(cat, batch, i) : i \in 1 .. Len(batch)}

\* A batch that PostgreSQL runs is temporary or durable, the Proxy knows which, and
\* its list is right afterwards.
BatchFollows(cat, batch, c) ==
    /\ Sound(c) /\ Listed(cat, batch, TRUE)[Len(batch)] = ListOf(c)
    /\ Settled(cat) => Listed(cat, batch, FALSE)[Len(batch)] = ApplyOnCommitDrop(ListOf(c))
    /\ \/ /\ Kinds(cat, batch) = {"temporary"} /\ RunBatch(cat, batch).touched \subseteq {"temp"}
          /\ Durable(c) = Durable(cat)
       \/ /\ Kinds(cat, batch) = {"durable"} /\ RunBatch(cat, batch).touched = {"durable"}
          /\ RequiresFleetWriteOrder(batch)
          /\ \/ Durable(c) = Durable(cat)
             \/ \E j \in DOMAIN batch : batch[j].kind \in {"create", "rename", "drop"}

\* A batch that PostgreSQL runs to b, and the Proxy follows.
Ran(batch, b) ==
    /\ BatchFollows(pg.cat, batch, b)
    /\ Disciplined(batch, RunBatch(pg.cat, batch).touched)
    /\ \A one \in RunBatch(pg.cat, batch).touched, other \in pg.touched : one = other
    /\ Succeeds(batch, IF transaction THEN b ELSE OnCommitDrop(b), RunBatch(pg.cat, batch).touched,
                Kinds(pg.cat, batch) = {"temporary"},
                RequiresFleetWriteOrder(batch) /\ Kinds(pg.cat, batch) # {"temporary"})

\* A batch that PostgreSQL has run in a transaction.
LEMMA BatchKeeps ==
    ASSUME IInv, transaction, NEW batch, NEW c, BatchFollows(pg.cat, batch, c), NEW touched, NEW gated \in BOOLEAN,
           touched = RunBatch(pg.cat, batch).touched,
           gated <=> RequiresFleetWriteOrder(batch) /\ Kinds(pg.cat, batch) # {"temporary"},
           \A one \in touched, other \in pg.touched : one = other,
           NEW temporary, Succeeds(batch, c, touched, temporary, gated)
    PROVE  IInv'
<1> DEFINE all == pg.touched \cup touched
<1>1. /\ pg' = [cat |-> c, stack |-> pg.stack, status |-> pg.status, touched |-> all]
      /\ tmp' = RememberBatch(tmp, batch) /\ mutated' = (mutated \/ (transaction /\ gated))
      /\ schemaDirty' \in BOOLEAN /\ mutated' \in BOOLEAN
      /\ did' = [touched |-> touched, gated |-> gated]
      /\ UNCHANGED <<snapshots, transaction>>
    BY Known0, Parts, Zenon DEF Succeeds
<1>2. \/ touched \subseteq {"temp"} /\ ~gated
      \/ touched = {"durable"} /\ gated
    BY Zenon DEF BatchFollows
<1>3. tmp' = ListOf(c)
  <2>1. transaction = TRUE /\ tmp = ListOf(pg.cat)
    BY Known0, Parts, Zenon
  <2> QED BY <1>1, <2>1, Zenon DEF RememberBatch, BatchFollows, Listed
<1>4. all \subseteq {"temp", "durable"} /\ all # {"temp", "durable"} /\ (mutated' => all = {"durable"})
  <2>1. pg.touched \subseteq {"temp", "durable"} /\ pg.touched # {"temp", "durable"}
        /\ (mutated => pg.touched = {"durable"})
    BY Known0, Parts, Zenon
  <2>2. touched \subseteq {"temp"} \/ touched = {"durable"}
    BY <1>2, Zenon
  <2>3. mutated' => mutated \/ touched = {"durable"}
    BY <1>1, <1>2, Zenon
  <2> QED BY ONLY <2>1, <2>2, <2>3, \A one \in touched, other \in pg.touched : one = other DEF all
<1>5. OrderedWhenDurable'
    BY <1>1, <1>2, Zenon DEF OrderedWhenDurable
<1>6. Sound(c)
    BY Zenon DEF BatchFollows
<1> HIDE DEF all
<1> QED BY <1>1, <1>3, <1>4, <1>5, <1>6, Known0, Parts, Whole, ZenonT(30)

\* A batch that is a transaction of its own.
LEMMA AutocommitKeeps ==
    ASSUME IInv, ~transaction, NEW batch, NEW b, BatchFollows(pg.cat, batch, b), NEW c, c = OnCommitDrop(b),
           NEW touched, NEW gated \in BOOLEAN,
           touched = RunBatch(pg.cat, batch).touched,
           gated <=> RequiresFleetWriteOrder(batch) /\ Kinds(pg.cat, batch) # {"temporary"},
           NEW temporary, Succeeds(batch, c, touched, temporary, gated)
    PROVE  IInv'
<1>1. /\ pg' = [cat |-> c, stack |-> pg.stack, status |-> pg.status, touched |-> {}]
      /\ tmp' = RememberBatch(tmp, batch) /\ mutated' = (mutated \/ (transaction /\ gated))
      /\ schemaDirty' \in BOOLEAN /\ mutated' \in BOOLEAN
      /\ did' = [touched |-> touched, gated |-> gated]
      /\ UNCHANGED <<snapshots, transaction>>
    BY Known0, Parts, Zenon DEF Succeeds
<1>2. \/ touched \subseteq {"temp"} /\ ~gated
      \/ touched = {"durable"} /\ gated
    BY Zenon DEF BatchFollows
<1>3. Sound(c) /\ Settled(c) /\ tmp' = ListOf(c)
  <2>1. transaction = FALSE /\ tmp = ListOf(pg.cat) /\ Settled(pg.cat)
    BY Known0, Parts, Zenon
  <2>2. tmp' = ApplyOnCommitDrop(ListOf(b))
    BY <1>1, <2>1, Zenon DEF RememberBatch, BatchFollows, Listed
  <2>3. Sound(b)
    BY Zenon DEF BatchFollows
  <2> QED BY <2>2, <2>3, CommitDrops, Zenon
<1>4. OrderedWhenDurable'
    BY <1>1, <1>2, Zenon DEF OrderedWhenDurable
<1> QED BY <1>1, <1>3, <1>4, Known0, Parts, Whole

\* BEGIN.
LEMMA BeginKeeps ==
    ASSUME IInv, Begin
    PROVE  IInv'
<1> DEFINE stack == <<[name |-> "begin", cat |-> pg.cat]>>
<1>1. ~transaction /\ pg.stack = <<>> /\ Settled(pg.cat) /\ Sound(pg.cat) /\ tmp = ListOf(pg.cat) /\ tmp \in Lists
      /\ Mirrors(tmp, pg.cat) /\ pg.cat \subseteq Relations /\ schemaDirty \in BOOLEAN
    BY Known0, Parts, Mirrored, Zenon DEF Begin
<1>2. snapshots = <<>>
    BY <1>1, Known0, Parts
<1>3. /\ pg' = [cat |-> pg.cat, stack |-> stack, status |-> "open", touched |-> {}]
      /\ snapshots' = <<[name |-> "begin", tmp |-> tmp]>> /\ transaction' = TRUE /\ mutated' = FALSE
      /\ schemaDirty' = schemaDirty /\ tmp' = tmp /\ did' = Idle
    BY <1>2, Known0, Parts, Zenon DEF Begin, Snapshot
<1>4. /\ stack \in Seq([name : Points \cup {"begin"}, cat : SUBSET Relations])
      /\ snapshots' \in Seq([name : Points \cup {"begin"}, tmp : Lists])
      /\ Len(snapshots') = Len(stack)
      /\ stack # <<>> /\ stack[1].cat = pg.cat
    BY <1>1, <1>3
<1>5. \A i \in DOMAIN stack : /\ snapshots'[i].name = stack[i].name
                              /\ Sound(stack[i].cat) /\ Mirrors(snapshots'[i].tmp, stack[i].cat)
    BY <1>1, <1>3
<1>6. OrderedWhenDurable'
    BY <1>3, IdleOrdered, Zenon
<1>7. /\ tmp' = ListOf(pg.cat) /\ transaction' /\ ~mutated' /\ Settled(stack[1].cat)
      /\ transaction' \in BOOLEAN /\ mutated' \in BOOLEAN /\ schemaDirty' \in BOOLEAN
    BY <1>1, <1>3, <1>4, Zenon
<1> DEFINE none == {}  status == "open"
<1>8. /\ none \subseteq {"temp", "durable"} /\ none # {"temp", "durable"}
      /\ pg' = [cat |-> pg.cat, stack |-> stack, status |-> status, touched |-> none]
      /\ status \in {"idle", "open", "failed"} /\ status # "idle"
    BY <1>3, Zenon
<1> HIDE DEF stack, none, status
<1> QED BY ONLY <1>1, <1>4, <1>5, <1>6, <1>7, <1>8, Whole, ZenonT(30)

\* SAVEPOINT: the list is kept beside the savepoint.
LEMMA SavepointKeeps ==
    ASSUME IInv, NEW name \in Points, Savepoint(name)
    PROVE  IInv'
<1> DEFINE stack == Append(pg.stack, [name |-> name, cat |-> pg.cat])
<1>1. transaction /\ Sound(pg.cat) /\ tmp = ListOf(pg.cat) /\ tmp \in Lists
      /\ Mirrors(tmp, pg.cat) /\ pg.cat \subseteq Relations
    BY Known0, Parts, Mirrored, Zenon DEF Savepoint
<1>2. /\ pg' = [cat |-> pg.cat, stack |-> stack, status |-> pg.status, touched |-> pg.touched]
      /\ snapshots' = Append(snapshots, [name |-> name, tmp |-> tmp]) /\ transaction' = transaction
      /\ mutated' = mutated /\ schemaDirty' = schemaDirty /\ tmp' = tmp /\ did' = Idle
    BY Known0, Parts, Zenon DEF Savepoint, Snapshot
<1>3. /\ stack \in Seq([name : Points \cup {"begin"}, cat : SUBSET Relations])
      /\ snapshots' \in Seq([name : Points \cup {"begin"}, tmp : Lists])
      /\ Len(snapshots') = Len(stack) /\ DOMAIN stack = 1 .. Len(pg.stack) + 1 /\ Len(pg.stack) \in Nat
      /\ Len(snapshots) = Len(pg.stack) /\ DOMAIN pg.stack = 1 .. Len(pg.stack)
    BY <1>1, <1>2, Known0, Parts
<1>4. \A i \in DOMAIN stack : /\ snapshots'[i].name = stack[i].name
                              /\ Sound(stack[i].cat) /\ Mirrors(snapshots'[i].tmp, stack[i].cat)
  <2> SUFFICES ASSUME NEW i \in DOMAIN stack
               PROVE  /\ snapshots'[i].name = stack[i].name
                      /\ Sound(stack[i].cat) /\ Mirrors(snapshots'[i].tmp, stack[i].cat)
    BY Zenon
  <2>1. CASE i \in DOMAIN pg.stack
    <3>1. stack[i] = pg.stack[i] /\ snapshots'[i] = snapshots[i]
      BY <1>2, <1>3, <2>1, Known0, Parts
    <3> QED BY <2>1, <3>1, Known0, Zenon
  <2>2. CASE i = Len(pg.stack) + 1
    <3>1. stack[i] = [name |-> name, cat |-> pg.cat] /\ snapshots'[i] = [name |-> name, tmp |-> tmp]
      BY <1>2, <1>3, <2>2, Known0, Parts
    <3> QED BY <1>1, <3>1
  <2> QED BY <1>3, <2>1, <2>2
<1>5. OrderedWhenDurable'
    BY <1>2, IdleOrdered, Zenon
<1>6. stack # <<>> /\ Settled(stack[1].cat) /\ pg.status # "idle"
  <2>1. pg.stack # <<>> /\ Settled(pg.stack[1].cat) /\ pg.status # "idle"
    BY <1>1, Known0, Zenon
  <2>2. stack[1] = pg.stack[1] /\ stack # <<>>
    BY <1>3, <2>1, Known0, Parts
  <2> QED BY <2>1, <2>2, Zenon
<1>7. /\ pg.touched # {"temp", "durable"} /\ (mutated' => pg.touched = {"durable"})
      /\ pg.touched \subseteq {"temp", "durable"} /\ pg.status \in {"idle", "open", "failed"}
      /\ transaction' \in BOOLEAN /\ mutated' \in BOOLEAN /\ schemaDirty' \in BOOLEAN /\ transaction'
    BY <1>1, <1>2, Known0, Parts, Zenon
<1>8. tmp' = ListOf(pg.cat)
    BY <1>1, <1>2, Zenon
<1> HIDE DEF stack
<1> QED BY ONLY <1>1, <1>2, <1>3, <1>4, <1>5, <1>6, <1>7, <1>8, Whole, Zenon

\* The first entries of a stack.
LEMMA FirstEntries ==
    ASSUME NEW S, NEW s \in Seq(S), NEW i \in 1 .. Len(s)
    PROVE  /\ SubSeq(s, 1, i) \in Seq(S) /\ Len(SubSeq(s, 1, i)) = i /\ DOMAIN SubSeq(s, 1, i) = 1 .. i
           /\ \A j \in 1 .. i : SubSeq(s, 1, i)[j] = s[j]
    OBVIOUS

\* A stack cut back to one of its entries.
LEMMA CutKeeps ==
    ASSUME IInv, NEW i \in 1 .. Len(pg.stack)
    PROVE  /\ SubSeq(pg.stack, 1, i) \in Seq([name : Points \cup {"begin"}, cat : SUBSET Relations])
           /\ SubSeq(snapshots, 1, i) \in Seq([name : Points \cup {"begin"}, tmp : Lists])
           /\ Len(SubSeq(snapshots, 1, i)) = Len(SubSeq(pg.stack, 1, i))
           /\ SubSeq(pg.stack, 1, i) # <<>> /\ SubSeq(pg.stack, 1, i)[1] = pg.stack[1]
           /\ \A j \in DOMAIN SubSeq(pg.stack, 1, i) :
                /\ SubSeq(snapshots, 1, i)[j].name = SubSeq(pg.stack, 1, i)[j].name
                /\ Sound(SubSeq(pg.stack, 1, i)[j].cat)
                /\ Mirrors(SubSeq(snapshots, 1, i)[j].tmp, SubSeq(pg.stack, 1, i)[j].cat)
<1> DEFINE A == SubSeq(pg.stack, 1, i)  B == SubSeq(snapshots, 1, i)
<1>1. pg.stack \in Seq([name : Points \cup {"begin"}, cat : SUBSET Relations])
      /\ snapshots \in Seq([name : Points \cup {"begin"}, tmp : Lists])
      /\ Len(snapshots) = Len(pg.stack) /\ Len(pg.stack) \in Nat
    BY Known0, Parts
<1>2. /\ A \in Seq([name : Points \cup {"begin"}, cat : SUBSET Relations])
      /\ Len(A) = i /\ DOMAIN A = 1 .. i /\ \A j \in 1 .. i : A[j] = pg.stack[j]
  <2> DEFINE Entry == [name : Points \cup {"begin"}, cat : SUBSET Relations]  s == pg.stack
  <2>1. s \in Seq(Entry) /\ i \in 1 .. Len(s)
    BY <1>1, Zenon
  <2> HIDE DEF Entry, s
  <2>2. /\ SubSeq(s, 1, i) \in Seq(Entry) /\ Len(SubSeq(s, 1, i)) = i /\ DOMAIN SubSeq(s, 1, i) = 1 .. i
        /\ \A j \in 1 .. i : SubSeq(s, 1, i)[j] = s[j]
    BY ONLY <2>1, FirstEntries, Zenon
  <2> QED BY <2>2, Zenon DEF Entry, s
<1>3. /\ B \in Seq([name : Points \cup {"begin"}, tmp : Lists])
      /\ Len(B) = i /\ \A j \in 1 .. i : B[j] = snapshots[j]
  <2> DEFINE Entry == [name : Points \cup {"begin"}, tmp : Lists]  s == snapshots
  <2>1. s \in Seq(Entry) /\ i \in 1 .. Len(s)
    BY <1>1, Zenon
  <2> HIDE DEF Entry, s
  <2>2. SubSeq(s, 1, i) \in Seq(Entry) /\ Len(SubSeq(s, 1, i)) = i /\ \A j \in 1 .. i : SubSeq(s, 1, i)[j] = s[j]
    BY ONLY <2>1, FirstEntries, Zenon
  <2> QED BY <2>2, Zenon DEF Entry, s
<1>4. \A j \in 1 .. i : j \in DOMAIN pg.stack
    BY <1>1
<1>5. A # <<>> /\ A[1] = pg.stack[1]
    BY <1>2
<1> HIDE DEF A, B
<1>6. \A j \in DOMAIN A : B[j].name = A[j].name /\ Sound(A[j].cat) /\ Mirrors(B[j].tmp, A[j].cat)
  <2> SUFFICES ASSUME NEW j \in DOMAIN A
               PROVE  B[j].name = A[j].name /\ Sound(A[j].cat) /\ Mirrors(B[j].tmp, A[j].cat)
    BY Zenon
  <2>1. A[j] = pg.stack[j] /\ B[j] = snapshots[j] /\ j \in DOMAIN pg.stack
    BY <1>2, <1>3, <1>4, Zenon
  <2> QED BY <2>1, Known0, Zenon
<1> QED BY <1>2, <1>3, <1>5, <1>6, Zenon DEF A, B

\* The end of a transaction, with or without a next one.
LEMMA EndKeeps ==
    ASSUME NEW cat, Sound(cat), Settled(cat), NEW chain \in BOOLEAN, pg' = Ended(cat, chain), tmp' = ListOf(cat),
           snapshots' = IF chain THEN <<[name |-> "begin", tmp |-> tmp']>> ELSE <<>>,
           transaction' = chain, mutated' = FALSE, did' = Idle, schemaDirty' \in BOOLEAN
    PROVE  IInv'
<1> DEFINE none == {}
           status == IF chain THEN "open" ELSE "idle"
           stack == IF chain THEN <<[name |-> "begin", cat |-> cat]>> ELSE <<>>
<1>1. pg' = [cat |-> cat, stack |-> stack, status |-> status, touched |-> none]
    BY Zenon DEF Ended
<1>2. tmp' \in Lists /\ Mirrors(tmp', cat) /\ cat \subseteq Relations
    BY Mirrored, Zenon DEF Sound
<1>3. /\ stack \in Seq([name : Points \cup {"begin"}, cat : SUBSET Relations])
      /\ snapshots' \in Seq([name : Points \cup {"begin"}, tmp : Lists])
      /\ Len(snapshots') = Len(stack)
  <2>1. CASE chain
    <3>1. stack = <<[name |-> "begin", cat |-> cat]>> /\ snapshots' = <<[name |-> "begin", tmp |-> tmp']>>
      BY <2>1, Zenon
    <3>2. /\ [name |-> "begin", cat |-> cat] \in [name : Points \cup {"begin"}, cat : SUBSET Relations]
          /\ [name |-> "begin", tmp |-> tmp'] \in [name : Points \cup {"begin"}, tmp : Lists]
      BY <1>2, Zenon
    <3>3. \A S : \A e \in S : <<e>> \in Seq(S) /\ Len(<<e>>) = 1
      OBVIOUS
    <3> HIDE DEF stack
    <3>4. /\ stack \in Seq([name : Points \cup {"begin"}, cat : SUBSET Relations]) /\ Len(stack) = 1
      BY ONLY <3>1, <3>2, <3>3, Zenon
    <3>5. /\ snapshots' \in Seq([name : Points \cup {"begin"}, tmp : Lists]) /\ Len(snapshots') = 1
      BY ONLY <3>1, <3>2, <3>3, Zenon
    <3> QED BY ONLY <3>4, <3>5, Zenon
  <2>2. CASE ~chain
    <3>1. stack = <<>> /\ snapshots' = <<>>
      BY <2>2, Zenon
    <3> QED BY <3>1
  <2> QED BY <2>1, <2>2, Zenon
<1>4. \A j \in DOMAIN stack : /\ snapshots'[j].name = stack[j].name
                              /\ Sound(stack[j].cat) /\ Mirrors(snapshots'[j].tmp, stack[j].cat)
    BY <1>2
<1>5. /\ none \subseteq {"temp", "durable"} /\ none # {"temp", "durable"} /\ none = {}
      /\ status \in {"idle", "open", "failed"} /\ (transaction' <=> status # "idle")
      /\ transaction' => stack # <<>> /\ Settled(stack[1].cat)
      /\ ~transaction' => stack = <<>>
      /\ ~mutated' /\ transaction' \in BOOLEAN /\ mutated' \in BOOLEAN
    BY Zenon
<1>6. OrderedWhenDurable'
    BY IdleOrdered, Zenon
<1> HIDE DEF stack, none, status
<1> QED BY ONLY <1>1, <1>3, <1>4, <1>5, <1>6, Sound(cat), Settled(cat), tmp' = ListOf(cat), schemaDirty' \in BOOLEAN, Whole, Zenon

\* ROLLBACK.
LEMMA RollbackKeeps ==
    ASSUME IInv, NEW chain \in BOOLEAN, Rollback(chain)
    PROVE  IInv'
<1> DEFINE cat == pg.stack[1].cat
<1>1. transaction /\ pg.stack # <<>> /\ Settled(cat)
    BY Known0, Zenon DEF Rollback
<1>2. 1 \in DOMAIN pg.stack
    BY <1>1, Known0, Parts
<1>3. Sound(cat) /\ snapshots[1].tmp = ListOf(cat)
    BY <1>2, Known0, Mirrored
<1>4. schemaDirty' \in BOOLEAN
    BY Known0, Parts, Zenon DEF Rollback
<1>5. /\ pg' = Ended(cat, chain) /\ tmp' = snapshots[1].tmp
      /\ snapshots' = IF chain THEN <<[name |-> "begin", tmp |-> snapshots[1].tmp]>> ELSE <<>>
      /\ transaction' = chain /\ mutated' = FALSE /\ did' = Idle
    BY Zenon DEF Rollback, Finish
<1> HIDE DEF cat
<1> QED BY <1>1, <1>3, <1>4, <1>5, EndKeeps, ZenonT(30)

\* COMMIT: the list loses what ON COMMIT DROP drops.
LEMMA CommitKeeps ==
    ASSUME IInv, NEW chain \in BOOLEAN, pg' = Ended(OnCommitDrop(pg.cat), chain), Finish(TRUE, chain),
           schemaDirty' \in BOOLEAN
    PROVE  IInv'
<1> DEFINE cat == OnCommitDrop(pg.cat)
<1>1. Sound(cat) /\ Settled(cat) /\ ApplyOnCommitDrop(tmp) = ListOf(cat)
    BY Known0, CommitDrops, Zenon
<1>2. /\ pg' = Ended(cat, chain) /\ tmp' = ApplyOnCommitDrop(tmp)
      /\ snapshots' = IF chain THEN <<[name |-> "begin", tmp |-> tmp']>> ELSE <<>>
      /\ transaction' = chain /\ mutated' = FALSE /\ did' = Idle
    BY Zenon DEF Finish
<1> HIDE DEF cat
<1> QED BY <1>1, <1>2, EndKeeps, Zenon

\* COMMIT in one phase, which an orderly client does not send to a failed transaction.
LEMMA OnePhaseKeeps ==
    ASSUME Orderly, IInv, NEW chain \in BOOLEAN, CommitOnePhase(chain)
    PROVE  IInv'
<1>1. pg.status # "failed"
    BY Zenon DEF Orderly, CommitOnePhase
<1>2. pg' = Ended(OnCommitDrop(pg.cat), chain) /\ Finish(TRUE, chain)
    BY <1>1, Zenon DEF CommitOnePhase
<1>3. schemaDirty' \in BOOLEAN
    BY Known0, Parts, Zenon DEF CommitOnePhase
<1> QED BY <1>2, <1>3, CommitKeeps, Zenon

\* COMMIT in two phases, which PostgreSQL does not refuse.
LEMMA TwoPhaseKeeps ==
    ASSUME IInv, CommitTwoPhase
    PROVE  IInv'
<1>1. "temp" \notin pg.touched
    BY Known0, Zenon DEF CommitTwoPhase
<1>2. pg' = Ended(OnCommitDrop(pg.cat), FALSE) /\ Finish(TRUE, FALSE)
    BY <1>1, Zenon DEF CommitTwoPhase
<1>3. schemaDirty' \in BOOLEAN
    BY Known0, Parts, Zenon DEF CommitTwoPhase
<1> QED BY <1>2, <1>3, CommitKeeps, Zenon

\* The first state.
LEMMA InitHolds == ASSUME Init PROVE IInv
<1>1. pg.cat = {} /\ pg.stack = <<>> /\ pg.status = "idle" /\ pg.touched = {} /\ snapshots = <<>>
    BY Zenon DEF Init
<1>2. Sound({}) /\ Settled({})
    BY Zenon DEF Sound, Settled
<1>3. Mirrors(tmp, {}) /\ tmp \in Lists
    BY Zenon DEF Init, NoTemporaries, Mirrors, HasTemp, HasDrop, IndexOf, Lists
<1>4. TypeOK
  <2>1. /\ pg.cat \in SUBSET Relations /\ pg.status \in {"idle", "open", "failed"}
        /\ pg.stack \in Seq([name : Points \cup {"begin"}, cat : SUBSET Relations])
        /\ pg.touched \in SUBSET {"temp", "durable"}
    BY <1>1
  <2>2. pg = [cat |-> pg.cat, stack |-> pg.stack, status |-> pg.status, touched |-> pg.touched]
    BY Zenon DEF Init
  <2>3. snapshots \in Seq([name : Points \cup {"begin"}, tmp : Lists])
    BY <1>1
  <2>4. {transaction, mutated, schemaDirty} \subseteq BOOLEAN
    BY Zenon DEF Init
  <2> QED BY ONLY <1>3, <2>1, <2>2, <2>3, <2>4 DEF TypeOK
<1>5. Stacked
    BY <1>1 DEF Stacked
<1>6. Status /\ OneKind
    BY <1>1, <1>2, Zenon DEF Status, OneKind, Init
<1>7. OrderedWhenDurable
    BY Zenon DEF Init, Idle, OrderedWhenDurable
<1> QED BY <1>1, <1>2, <1>3, <1>4, <1>5, <1>6, <1>7 DEF IInv

\* The end of a transaction leaves the registry with the durable tables.
LEMMA EndRegisters ==
    ASSUME NEW cat, NEW chain \in BOOLEAN, pg' = Ended(cat, chain), registry' = Durable(cat), transaction' = chain,
           ~chain => ~schemaDirty'
    PROVE  Registered'
<1>1. pg'.cat = cat /\ pg'.stack = IF chain THEN <<[name |-> "begin", cat |-> cat]>> ELSE <<>>
    BY Zenon DEF Ended
<1>2. CASE chain
  <2>1. DOMAIN pg'.stack = {1} /\ pg'.stack[1].cat = cat
    BY <1>1, <1>2
  <2> QED BY <1>1, <1>2, <2>1, Zenon DEF Registered, Known
<1>3. CASE ~chain
  <2>1. DOMAIN pg'.stack = {}
    BY <1>1, <1>3
  <2> QED BY <1>1, <1>3, <2>1, Zenon DEF Registered, Known
<1> QED BY <1>2, <1>3, Zenon

\* ROLLBACK and COMMIT, and the registry.
LEMMA EndsRegister ==
    ASSUME Client = {}, IInv, Registered, NEW chain \in BOOLEAN,
           Rollback(chain) \/ CommitOnePhase(chain) \/ CommitTwoPhase
    PROVE  Registered'
<1>1. transaction /\ Durable(pg.stack[1].cat) = registry /\ Known(pg.cat) /\ Sound(pg.cat)
    BY Known0, Zenon DEF Rollback, CommitOnePhase, CommitTwoPhase, Registered
<1>2. Durable(OnCommitDrop(pg.cat)) = Durable(pg.cat)
    BY <1>1, CommitDrops, Zenon
<1>3. CASE Rollback(chain)
  <2> DEFINE cat == pg.stack[1].cat
  <2>1. pg' = Ended(cat, chain) /\ registry' = Durable(cat) /\ transaction' = chain /\ (~chain => ~schemaDirty')
    BY <1>1, <1>3 DEF Rollback, Finish
  <2> HIDE DEF cat
  <2> QED BY <2>1, EndRegisters, Zenon
<1>4. CASE CommitOnePhase(chain)
  <2> DEFINE cat == OnCommitDrop(pg.cat)
  <2>1. pg.status # "failed" /\ ~mutated
    BY <1>4, Zenon DEF CommitOnePhase
  <2>2. Durable(cat) = registry
    BY <1>1, <1>2, <2>1, ZenonT(30) DEF Known
  <2>3. pg' = Ended(cat, chain) /\ registry' = Durable(cat) /\ transaction' = chain /\ (~chain => ~schemaDirty')
    BY <1>4, <2>1, <2>2 DEF CommitOnePhase, Finish
  <2> HIDE DEF cat
  <2> QED BY <2>3, EndRegisters
<1>5. CASE CommitTwoPhase
  <2> DEFINE cat == OnCommitDrop(pg.cat)  no == FALSE
  <2>1. "temp" \notin pg.touched
    BY <1>5, Known0, Zenon DEF CommitTwoPhase
  <2>2. schemaDirty \/ Durable(cat) = registry
    BY <1>1, <1>2, Zenon DEF Known
  <2>3. pg' = Ended(cat, no) /\ transaction' = no /\ ~schemaDirty' /\ registry' = IF schemaDirty THEN Durable(pg'.cat) ELSE registry
    BY <1>5, <2>1, Zenon DEF CommitTwoPhase, Finish
  <2>4. pg'.cat = cat
    BY <2>3, Zenon DEF Ended
  <2>5. registry' = Durable(cat)
    BY <2>2, <2>3, <2>4, Zenon
  <2>6. no \in BOOLEAN
    BY Zenon
  <2> HIDE DEF cat, no
  <2> QED BY <2>3, <2>5, <2>6, EndRegisters
<1> QED BY <1>3, <1>4, <1>5, Zenon

\* A batch of a client that refrains from every disagreement is looked at by
\* normalizeDDL when it changes a durable table.
LEMMA Noticed ==
    ASSUME Client = {}, NEW batch \in Batches, NEW touched, Disciplined(batch, touched), "durable" \in touched,
           NEW j \in DOMAIN batch, batch[j].kind \in {"create", "rename", "drop"}
    PROVE  NormalizeSchema(batch)
<1> DEFINE all == Range(batch)
<1>1. batch[j] \in all
    BY Zenon DEF Range
<1>2. /\ \A st \in all : st.kind # "rename"
      /\ \A st \in all : ~st.as
      /\ (\E st \in all : st.kind = "drop") => batch[1].kind \in {"drop", "discard"}
  <2>1. /\ "rename" \notin Client => ("durable" \in touched => \A st \in all : st.kind # "rename")
        /\ "as" \notin Client => ("durable" \in touched => \A st \in all : ~st.as)
        /\ "hidden" \notin Client => ((\E st \in all : st.kind = "drop") => batch[1].kind \in {"drop", "discard"})
    BY Zenon DEF Disciplined
  <2>2. "rename" \notin Client /\ "as" \notin Client /\ "hidden" \notin Client
    BY Zenon
  <2> HIDE DEF all
  <2> QED BY ONLY <2>1, <2>2, "durable" \in touched, Zenon
<1>3. batch[j].kind # "rename" /\ ~batch[j].as /\ (batch[j].kind = "drop" => batch[1].kind \in {"drop", "discard"})
    BY <1>1, <1>2, Zenon
<1>4. CASE batch[1].kind = "drop"
    BY <1>4, Zenon DEF NormalizeSchema
<1>5. CASE batch[1].kind = "discard"
  <2>1. IsFleetDDL(batch[j])
    BY Zenon DEF IsFleetDDL
  <2> QED BY <1>5, <2>1, Zenon DEF NormalizeSchema
<1>6. CASE batch[1].kind \notin {"drop", "discard"}
  <2>1. batch[j].kind = "create"
    BY <1>3, <1>6, Zenon
  <2>2. Normalize(batch)
    BY <1>3, <2>1, Zenon DEF Normalize
  <2> QED BY <1>6, <2>2, Zenon DEF NormalizeSchema
<1> QED BY <1>4, <1>5, <1>6, Zenon

-----------------------------------------------------------------------------
(* Induction, and the recursion over the statements of a batch.            *)

INSTANCE WellFoundedInduction

\* Induction over the naturals with a set in the place of the predicate.
LEMMA Induction ==
    ASSUME NEW S, 0 \in S, \A n \in Nat : n \in S => n + 1 \in S
    PROVE  Nat \subseteq S
<1> DEFINE T == Nat \ S
<1> SUFFICES ASSUME T # {} PROVE FALSE
    BY Zenon
<1>1. PICK x \in T : \A y \in T : ~(<<y, x>> \in OpToRel(<, Nat))
    BY NatLessThanWellFounded, WFMin, Zenon
<1>2. \A y \in T : ~(y < x)
    BY <1>1, Zenon DEF OpToRel
<1>3. x # 0 /\ x - 1 \in Nat /\ x - 1 < x
    BY SMT
<1>4. x - 1 \in S
    BY <1>2, <1>3, Zenon
<1> QED BY <1>3, <1>4

Runs(f, x, b, n) ==
    f = [i \in 0 .. n |-> IF i = 0 THEN x ELSE RunNext(f[i - 1], b[i])]

\* PostgreSQL's way through a batch (RunBatch) exists, statement by statement.
LEMMA RunningExists ==
    ASSUME NEW b, NEW x
    PROVE  \A n \in Nat : \E f : Runs(f, x, b, n)
<1> DEFINE Good(n) == \E f : Runs(f, x, b, n)
<1> DEFINE N == {n \in Nat : Good(n)}
<1>1. Good(0)
  <2> DEFINE f == [i \in 0 .. 0 |-> x]
  <2>1. f = [i \in 0 .. 0 |-> IF i = 0 THEN x ELSE RunNext(f[i - 1], b[i])]
    OBVIOUS
  <2> QED BY <2>1, Zenon DEF Runs
<1>2. ASSUME NEW n \in Nat, Good(n) PROVE Good(n + 1)
  <2>1. PICK f : f = [i \in 0 .. n |-> IF i = 0 THEN x ELSE RunNext(f[i - 1], b[i])]
    BY <1>2, Zenon DEF Runs
  <2> DEFINE g == [i \in 0 .. n + 1 |-> IF i <= n THEN f[i] ELSE RunNext(f[n], b[n + 1])]
  <2>2. \A i \in 0 .. n + 1 : g[i] = IF i = 0 THEN x ELSE RunNext(g[i - 1], b[i])
    BY <2>1
  <2>3. g = [i \in 0 .. n + 1 |-> IF i = 0 THEN x ELSE RunNext(g[i - 1], b[i])]
    BY <2>2, Zenon
  <2> QED BY <2>3, Zenon DEF Runs
<1> HIDE DEF Good
<1>3. 0 \in N /\ \A n \in Nat : n \in N => n + 1 \in N
    BY <1>1, <1>2
<1>4. Nat \subseteq N
    BY <1>3, Induction, Zenon
<1>5. \A n \in Nat : Good(n)
    BY <1>4, Zenon
<1> QED BY <1>5, Zenon DEF Good

Recalls(f, x, b, n, v) ==
    f = [i \in 0 .. n |-> IF i = 0 THEN x ELSE Remember(f[i - 1], b[i], v)]

\* The same for the Proxy's list (applySuccessfulSQLState, classifyTemporaryDDL).
LEMMA RememberingExists ==
    ASSUME NEW b, NEW x, NEW v
    PROVE  \A n \in Nat : \E f : Recalls(f, x, b, n, v)
<1> DEFINE Good(n) == \E f : Recalls(f, x, b, n, v)
<1> DEFINE N == {n \in Nat : Good(n)}
<1>1. Good(0)
  <2> DEFINE f == [i \in 0 .. 0 |-> x]
  <2>1. f = [i \in 0 .. 0 |-> IF i = 0 THEN x ELSE Remember(f[i - 1], b[i], v)]
    OBVIOUS
  <2> QED BY <2>1, Zenon DEF Recalls
<1>2. ASSUME NEW n \in Nat, Good(n) PROVE Good(n + 1)
  <2>1. PICK f : f = [i \in 0 .. n |-> IF i = 0 THEN x ELSE Remember(f[i - 1], b[i], v)]
    BY <1>2, Zenon DEF Recalls
  <2> DEFINE g == [i \in 0 .. n + 1 |-> IF i <= n THEN f[i] ELSE Remember(f[n], b[n + 1], v)]
  <2>2. \A i \in 0 .. n + 1 : g[i] = IF i = 0 THEN x ELSE Remember(g[i - 1], b[i], v)
    BY <2>1
  <2>3. g = [i \in 0 .. n + 1 |-> IF i = 0 THEN x ELSE Remember(g[i - 1], b[i], v)]
    BY <2>2, Zenon
  <2> QED BY <2>3, Zenon DEF Recalls
<1> HIDE DEF Good
<1>3. 0 \in N /\ \A n \in Nat : n \in N => n + 1 \in N
    BY <1>1, <1>2
<1>4. Nat \subseteq N
    BY <1>3, Induction, ZenonT(30)
<1>5. \A n \in Nat : Good(n)
    BY <1>4
<1> QED BY <1>5, Zenon DEF Good

\* Statement by statement, PostgreSQL and the Proxy's list.
RunsOn(f, batch) == \A i \in 1 .. Len(batch) : f[i] = RunNext(f[i - 1], batch[i])
RecallsOn(f, batch, v) == \A i \in 1 .. Len(batch) : f[i] = Remember(f[i - 1], batch[i], v)

\* Each statement of a batch runs on what the one before it left.
LEMMA RunningStep ==
    ASSUME NEW cat, NEW batch, Len(batch) \in Nat
    PROVE  /\ Running(cat, batch)[0] = [cats |-> {cat}, touched |-> {}]
           /\ RunsOn(Running(cat, batch), batch)
<1> DEFINE x == [cats |-> {cat}, touched |-> {}]
           D(f) == Runs(f, x, batch, Len(batch))
<1> HIDE DEF x
<1>1. \E f : D(f)
    BY RunningExists, Zenon
<1>2. Running(cat, batch) = CHOOSE f : D(f)
    BY Zenon DEF Running, Runs, x
<1> HIDE DEF D
<1>3. D(Running(cat, batch))
    BY <1>1, <1>2, Zenon
<1>4. \A i \in 0 .. Len(batch) :
        Running(cat, batch)[i] = IF i = 0 THEN x ELSE RunNext(Running(cat, batch)[i - 1], batch[i])
    BY <1>3, Zenon DEF D, Runs
<1>5. Running(cat, batch)[0] = x
    BY <1>4
<1>6. \A i \in 1 .. Len(batch) :
        Running(cat, batch)[i] = RunNext(Running(cat, batch)[i - 1], batch[i])
    BY <1>4
<1> QED BY <1>5, <1>6, Zenon DEF x, RunsOn

\* Each statement of a batch is remembered in the list the one before it left.
LEMMA RememberingStep ==
    ASSUME NEW t, NEW batch, NEW v, Len(batch) \in Nat
    PROVE  /\ Remembering(t, batch, v)[0] = t
           /\ RecallsOn(Remembering(t, batch, v), batch, v)
<1> DEFINE D(f) == Recalls(f, t, batch, Len(batch), v)
<1>1. \E f : D(f)
    BY RememberingExists, Zenon
<1>2. Remembering(t, batch, v) = CHOOSE f : D(f)
    BY Zenon DEF Remembering, Recalls
<1> HIDE DEF D
<1>3. D(Remembering(t, batch, v))
    BY <1>1, <1>2, Zenon
<1>4. \A i \in 0 .. Len(batch) :
        Remembering(t, batch, v)[i]
        = IF i = 0 THEN t ELSE Remember(Remembering(t, batch, v)[i - 1], batch[i], v)
    BY <1>3, Zenon DEF D, Recalls
<1> QED BY <1>4 DEF RecallsOn
-----------------------------------------------------------------------------
(* A batch.                                                                *)

\* Outside a transaction nothing waits to be dropped.
LEMMA SettledList ==
    ASSUME NEW cat, Sound(cat), Settled(cat)
    PROVE  DropNames(cat) = {} /\ ApplyOnCommitDrop(ListOf(cat)) = ListOf(cat)
<1> DEFINE R == TempNames(cat)  P == IndexPairs(cat)
<1>1. DropNames(cat) = {}
    BY Zenon DEF DropNames, HasDrop, Settled
<1>2. Without(R, P, {}, {}) = R /\ Between(P, {}, {}) = P
    BY Zenon DEF Without, Between
<1> QED BY <1>1, <1>2, ListApplied, Zenon DEF ListOf

\* A statement that counts as durable, DISCARD aside.
DurableAt(cat, batch, i) ==
    CountsAt(cat, batch, i) = {"durable"} /\ batch[i].kind # "discard" /\ ~batch[i].temp

\* The names that may become temporary.
Nameable(cat, batch) ==
    TempNames(cat) \cup {st.rel.name : st \in {q \in Range(batch) : q.temp}} \cup {st.new : st \in Range(batch)}

\* What an orderly client sends, and the Proxy does not refuse.
CalmBatch(cat, batch) ==
    /\ batch \in Seq(Statements)
    /\ \A st \in Range(batch) :
         /\ st.kind \in {"create", "view"} /\ st.rel.schema = "pg_temp" => st.temp
         /\ st.kind \in {"create", "view"} /\ ~st.temp /\ st.rel.schema = "plain"
              => st.rel.name \notin Nameable(cat, batch)
         /\ ~(st.kind = "view" /\ st.temp)
    /\ \A st, other \in Range(batch) : ~st.again /\ ~(st.guard /\ other.drop)
    /\ \A i \in 1 .. Len(batch) : CountsAt(cat, batch, i) # {"temporary", "durable"}

\* After i statements the list mirrors the catalog, in a transaction and outside one.
Guarded(batch) == \E st \in Range(batch) : st.guard

Reached(cat, batch, i) ==
    \A c \in Running(cat, batch)[i].cats :
      /\ Sound(c) /\ Listed(cat, batch, TRUE)[i] = ListOf(c) /\ TempNames(c) \subseteq Nameable(cat, batch)
      /\ Settled(cat) => /\ Listed(cat, batch, FALSE)[i] = ApplyOnCommitDrop(ListOf(c))
                         /\ Guarded(batch) => DropNames(c) = {}

\* The list after the first i statements is right, by what each of them does to it.
LEMMA ReachedNext ==
    ASSUME NEW cat, NEW batch, CalmBatch(cat, batch), NEW i \in 1 .. Len(batch), Reached(cat, batch, i - 1)
    PROVE  /\ \A c \in Running(cat, batch)[i - 1].cats :
                Calm(c, batch[i]) /\ Counts(ListOf(c), batch[i]) = CountsAt(cat, batch, i) /\ Sound(c)
           /\ Reached(cat, batch, i)
<1> DEFINE st == batch[i]
<1>1. st \in Statements /\ st \in Range(batch) /\ Len(batch) \in Nat
    BY DEF CalmBatch, Range
<1>2. Running(cat, batch)[i] = RunNext(Running(cat, batch)[i - 1], st)
  <2>1. RunsOn(Running(cat, batch), batch)
    BY <1>1, RunningStep, Zenon
  <2> QED BY <2>1, Zenon DEF RunsOn
<1>3. \A v : Listed(cat, batch, v)[i] = Remember(Listed(cat, batch, v)[i - 1], st, v)
  <2>1. \A v : RecallsOn(Remembering(ListOf(cat), batch, v), batch, v)
    BY <1>1, RememberingStep, Zenon
  <2> QED BY <2>1, Zenon DEF RecallsOn, Listed
<1>4. ASSUME NEW c \in Running(cat, batch)[i - 1].cats
      PROVE  Calm(c, st) /\ Counts(ListOf(c), st) = CountsAt(cat, batch, i) /\ Sound(c)
  <2>1. Sound(c) /\ Listed(cat, batch, TRUE)[i - 1] = ListOf(c) /\ TempNames(c) \subseteq Nameable(cat, batch)
    BY Zenon DEF Reached
  <2>2. Counts(ListOf(c), st) = CountsAt(cat, batch, i)
    BY <2>1, Zenon DEF CountsAt
  <2>3. /\ st.kind \in {"create", "view"} /\ st.rel.schema = "pg_temp" => st.temp
        /\ st.kind \in {"create", "view"} /\ ~st.temp /\ st.rel.schema = "plain"
             => st.rel.name \notin Nameable(cat, batch)
        /\ ~(st.kind = "view" /\ st.temp)
        /\ ~st.again /\ ~(st.guard /\ st.drop)
        /\ CountsAt(cat, batch, i) # {"temporary", "durable"}
    BY <1>1, Zenon DEF CalmBatch
  <2> HIDE DEF st
  <2> QED BY <1>1, <2>1, <2>2, <2>3, Zenon DEF Calm
<1>5. ASSUME NEW c \in Running(cat, batch)[i].cats
      PROVE  /\ Sound(c) /\ Listed(cat, batch, TRUE)[i] = ListOf(c) /\ TempNames(c) \subseteq Nameable(cat, batch)
             /\ Settled(cat) => /\ Listed(cat, batch, FALSE)[i] = ApplyOnCommitDrop(ListOf(c))
                                /\ Guarded(batch) => DropNames(c) = {}
  <2>1. PICK b \in Running(cat, batch)[i - 1].cats : c \in Run(b, st)
    BY <1>2 DEF RunNext
  <2>2. Calm(b, st) /\ Sound(b)
    BY <1>4, Zenon
  <2>3. ListFollows(b, st, c)
    BY <2>1, <2>2, StatementFollows, Zenon DEF Follows
  <2>4. /\ Listed(cat, batch, TRUE)[i - 1] = ListOf(b) /\ TempNames(b) \subseteq Nameable(cat, batch)
        /\ Settled(cat) => /\ Listed(cat, batch, FALSE)[i - 1] = ApplyOnCommitDrop(ListOf(b))
                           /\ Guarded(batch) => DropNames(b) = {}
    BY Zenon DEF Reached
  <2>5. st.new \in Nameable(cat, batch) /\ (st.temp => st.rel.name \in Nameable(cat, batch))
    BY <1>1, Zenon DEF Nameable
  <2>6. (st.guard => Guarded(batch)) /\ (Guarded(batch) => ~st.drop)
    BY <1>1, Zenon DEF Guarded, CalmBatch
  <2> HIDE DEF st
  <2>7. TempNames(c) \subseteq Nameable(cat, batch)
    BY <2>3, <2>4, <2>5, Zenon DEF ListFollows
  <2>8. Listed(cat, batch, TRUE)[i] = ListOf(c)
    BY <1>3, <2>3, <2>4, Zenon DEF ListFollows
  <2>9. ASSUME Settled(cat)
        PROVE  Listed(cat, batch, FALSE)[i] = ApplyOnCommitDrop(ListOf(c)) /\ (Guarded(batch) => DropNames(c) = {})
    BY <1>3, <2>3, <2>4, <2>6, <2>9, Zenon DEF ListFollows
  <2> QED BY <2>3, <2>7, <2>8, <2>9, Zenon DEF ListFollows
<1> QED BY <1>4, <1>5, Zenon DEF Reached

\* A batch leaves catalogs that the list mirrors.
LEMMA BatchReached ==
    ASSUME NEW cat, Sound(cat), NEW batch, CalmBatch(cat, batch)
    PROVE  \A i \in 0 .. Len(batch) : Reached(cat, batch, i)
<1> DEFINE S == {i \in Nat : i <= Len(batch) => Reached(cat, batch, i)}
<1>1. Len(batch) \in Nat
    BY DEF CalmBatch
<1>2. Reached(cat, batch, 0)
  <2>1. Running(cat, batch)[0] = [cats |-> {cat}, touched |-> {}]
    BY <1>1, RunningStep, Zenon
  <2>2. \A v : Remembering(ListOf(cat), batch, v)[0] = ListOf(cat)
    BY <1>1, RememberingStep, Zenon
  <2>3. Running(cat, batch)[0].cats = {cat}
    BY <2>1
  <2>4. Listed(cat, batch, TRUE)[0] = ListOf(cat) /\ TempNames(cat) \subseteq Nameable(cat, batch)
    BY <2>2, Zenon DEF Listed, Nameable
  <2>5. Settled(cat) => Listed(cat, batch, FALSE)[0] = ApplyOnCommitDrop(ListOf(cat)) /\ DropNames(cat) = {}
    BY <2>2, SettledList, Zenon DEF Listed
  <2> QED BY <2>3, <2>4, <2>5, Zenon DEF Reached
<1>3. \A n \in Nat : n \in S => n + 1 \in S
  <2>1. \A i \in 1 .. Len(batch) : Reached(cat, batch, i - 1) => Reached(cat, batch, i)
    BY ReachedNext, Zenon
  <2>2. ASSUME NEW n \in Nat, n \in S, n + 1 <= Len(batch) PROVE Reached(cat, batch, n + 1)
    <3>1. n + 1 \in 1 .. Len(batch) /\ n <= Len(batch) /\ (n + 1) - 1 = n
      BY <1>1, <2>2
    <3>2. Reached(cat, batch, (n + 1) - 1)
      BY <2>2, <3>1, Zenon
    <3> QED BY <2>1, <3>1, <3>2, Zenon
  <2> QED BY <2>2
<1>4. 0 \in S
    BY <1>2, Zenon
<1> HIDE DEF S
<1>5. Nat \subseteq S
    BY <1>3, <1>4, Induction, Zenon
<1> QED BY <1>1, <1>5 DEF S

\* The namespaces a statement touches are those it counts as, also when it fails.
LEMMA TouchedCounts ==
    ASSUME NEW cat, Sound(cat), NEW st, Calm(cat, st)
    PROVE  /\ Touched(cat, st) \subseteq {"temp", "durable"}
           /\ "durable" \in Touched(cat, st) =>
                Counts(ListOf(cat), st) = {"durable"} /\ st.kind # "discard" /\ ~st.temp
           /\ "temp" \in Touched(cat, st) => Counts(ListOf(cat), st) = {"temporary"}
<1>1. CASE Run(cat, st) # {}
  <2>1. PICK a \in Run(cat, st) : TRUE
    BY <1>1, Zenon
  <2>2. KindFollows(cat, st, a)
    BY <2>1, StatementFollows, Zenon DEF Follows
  <2> QED BY <2>2, Zenon DEF KindFollows
<1>2. CASE Run(cat, st) = {}
  <2>1. st \in Statements /\ (st.guard => st.kind = "create") /\ (st.kind \notin {"drop", "discard"} => st.rel \in Rels)
    BY Parsed, Zenon DEF Calm
  <2>2. CASE st.kind = "alter"
    <3>1. Found(cat, st.rel) = {}
      BY <1>2, <2>2, Zenon DEF Run
    <3>2. Touched(cat, st) = {IF q.temp THEN "temp" ELSE "durable" : q \in Found(cat, st.rel)}
      BY <2>2, Zenon DEF Touched
    <3> QED BY <3>1, <3>2, Zenon
  <2>3. CASE st.guard
    <3>1. st.kind = "create" /\ st.rel \in Rels
      BY <2>1, <2>3, Zenon
    <3>2. Touched(cat, st) = {IF st.temp \/ st.rel.schema = "pg_temp" THEN "temp" ELSE "durable"}
      BY <2>3, <3>1, Zenon DEF Touched
    <3>3. CASE st.temp
      <4>1. Counts(ListOf(cat), st) = {"temporary"}
        BY <3>1, <3>3, Zenon DEF Counts, Target
      <4> QED BY <3>2, <3>3, <4>1, Zenon
    <3>4. CASE ~st.temp
      <4>1. st.rel.schema \in {"plain", "public"} /\ (st.rel.schema = "plain" => st.rel.name \notin TempNames(cat))
        <5>1. st.rel.schema \in {"plain", "pg_temp", "public"}
          BY <3>1, Zenon DEF Rels
        <5> QED BY <3>1, <3>4, <5>1, Zenon DEF Calm
      <4>2. ~Tracked(ListOf(cat).relations, st.rel)
        BY <3>1, <4>1, OnList, Zenon
      <4>3. Counts(ListOf(cat), st) = {"durable"}
        BY <3>1, <3>4, <4>1, <4>2, Zenon DEF Counts, Target, RangeVars
      <4> QED BY <3>1, <3>2, <3>4, <4>1, <4>3, Zenon
    <3> QED BY <3>3, <3>4, Zenon
  <2>4. CASE st.kind # "alter" /\ ~st.guard
    <3>1. Touched(cat, st) = UNION {{IF r.temp THEN "temp" ELSE "durable" : r \in (cat \ a) \cup (a \ cat)} :
                                    a \in Run(cat, st)}
      BY <2>4, Zenon DEF Touched
    <3> QED BY <1>2, <3>1, Zenon
  <2> QED BY <2>2, <2>3, <2>4, Zenon
<1> QED BY <1>1, <1>2, Zenon

\* What the first i statements have touched, and what they count as.
Changed(cat, batch, i) ==
    /\ Running(cat, batch)[i].touched \subseteq {"temp", "durable"}
    /\ "durable" \in Running(cat, batch)[i].touched => \E j \in 1 .. i : DurableAt(cat, batch, j)
    /\ "temp" \in Running(cat, batch)[i].touched => \E j \in 1 .. i : CountsAt(cat, batch, j) = {"temporary"}
    /\ \A c \in Running(cat, batch)[i].cats :
         /\ \A j \in 1 .. i : \/ CountsAt(cat, batch, j) = {"temporary"}
                              \/ DurableAt(cat, batch, j) /\ "durable" \in Running(cat, batch)[i].touched
         /\ \/ Durable(c) = Durable(cat)
            \/ \E j \in 1 .. i : DurableAt(cat, batch, j) /\ batch[j].kind \in {"create", "rename", "drop"}

\* One more statement.
LEMMA ChangedNext ==
    ASSUME NEW cat, NEW batch, CalmBatch(cat, batch), NEW i \in 1 .. Len(batch), Reached(cat, batch, i - 1),
           Changed(cat, batch, i - 1)
    PROVE  Changed(cat, batch, i)
<1> DEFINE st == batch[i]
           before == Running(cat, batch)[i - 1]
           now == Running(cat, batch)[i]
<1>1. Len(batch) \in Nat
    BY DEF CalmBatch
<1>2. now = RunNext(before, st)
  <2>1. RunsOn(Running(cat, batch), batch)
    BY <1>1, RunningStep, Zenon
  <2> QED BY <2>1, Zenon DEF RunsOn
<1>3. now.touched = before.touched \cup UNION {Touched(c, st) : c \in before.cats}
    BY <1>2 DEF RunNext
<1>4. \A c \in now.cats : \E b \in before.cats : c \in Run(b, st)
    BY <1>2 DEF RunNext
<1>5. ASSUME NEW b \in before.cats
      PROVE  Calm(b, st) /\ Counts(ListOf(b), st) = CountsAt(cat, batch, i) /\ Sound(b)
    BY ReachedNext, Zenon
<1>6. i \in Nat /\ 1 .. i = (1 .. (i - 1)) \cup {i} /\ i \in 1 .. i
    BY <1>1
<1>7. ASSUME NEW b \in before.cats
      PROVE  /\ Touched(b, st) \subseteq {"temp", "durable"}
             /\ "durable" \in Touched(b, st) => DurableAt(cat, batch, i)
             /\ "temp" \in Touched(b, st) => CountsAt(cat, batch, i) = {"temporary"}
  <2>1. Calm(b, st) /\ Counts(ListOf(b), st) = CountsAt(cat, batch, i) /\ Sound(b)
    BY <1>5, Zenon
  <2> HIDE DEF st
  <2>2. /\ Touched(b, st) \subseteq {"temp", "durable"}
        /\ "durable" \in Touched(b, st) =>
             Counts(ListOf(b), st) = {"durable"} /\ st.kind # "discard" /\ ~st.temp
        /\ "temp" \in Touched(b, st) => Counts(ListOf(b), st) = {"temporary"}
    BY <2>1, TouchedCounts, Zenon
  <2> QED BY <2>1, <2>2, Zenon DEF DurableAt, st
<1>8. ASSUME NEW b \in before.cats, NEW c \in Run(b, st)
      PROVE  /\ \/ CountsAt(cat, batch, i) = {"temporary"} /\ Durable(c) = Durable(b)
                \/ DurableAt(cat, batch, i) /\ "durable" \in Touched(b, st)
             /\ Durable(c) = Durable(b) \/ st.kind \in {"create", "rename", "drop"}
  <2>1. Calm(b, st) /\ Counts(ListOf(b), st) = CountsAt(cat, batch, i) /\ Sound(b)
    BY <1>5, Zenon
  <2> HIDE DEF st
  <2>2. KindFollows(b, st, c)
    BY <2>1, StatementFollows, Zenon DEF Follows
  <2> QED BY <2>1, <2>2, DurablesDecide, Zenon DEF KindFollows, DurableAt, st
<1> HIDE DEF before, now, st
<1>9. /\ before.touched \subseteq {"temp", "durable"}
      /\ "durable" \in before.touched => \E j \in 1 .. (i - 1) : DurableAt(cat, batch, j)
      /\ "temp" \in before.touched => \E j \in 1 .. (i - 1) : CountsAt(cat, batch, j) = {"temporary"}
    BY Zenon DEF Changed, before
<1>10. ASSUME NEW b \in before.cats
       PROVE  /\ \A j \in 1 .. (i - 1) :
                   CountsAt(cat, batch, j) = {"temporary"} \/ (DurableAt(cat, batch, j) /\ "durable" \in before.touched)
              /\ \/ Durable(b) = Durable(cat)
                 \/ \E j \in 1 .. (i - 1) : DurableAt(cat, batch, j) /\ batch[j].kind \in {"create", "rename", "drop"}
    BY Zenon DEF Changed, before
<1>11. now.touched \subseteq {"temp", "durable"}
    BY <1>3, <1>7, <1>9, Zenon
<1>12. "durable" \in now.touched => \E j \in 1 .. i : DurableAt(cat, batch, j)
    BY <1>3, <1>6, <1>7, <1>9, Zenon
<1>13. "temp" \in now.touched => \E j \in 1 .. i : CountsAt(cat, batch, j) = {"temporary"}
    BY <1>3, <1>6, <1>7, <1>9, Zenon
<1>14. ASSUME NEW c \in now.cats
       PROVE  /\ \A j \in 1 .. i :
                   CountsAt(cat, batch, j) = {"temporary"} \/ (DurableAt(cat, batch, j) /\ "durable" \in now.touched)
              /\ \/ Durable(c) = Durable(cat)
                 \/ \E j \in 1 .. i : DurableAt(cat, batch, j) /\ batch[j].kind \in {"create", "rename", "drop"}
  <2>1. PICK b \in before.cats : c \in Run(b, st)
    BY <1>4, Zenon
  <2>2. before.touched \subseteq now.touched /\ Touched(b, st) \subseteq now.touched
    BY <1>3, Zenon
  <2>3. ASSUME NEW j \in 1 .. i
        PROVE  CountsAt(cat, batch, j) = {"temporary"} \/ (DurableAt(cat, batch, j) /\ "durable" \in now.touched)
    BY <1>6, <1>8, <1>10, <2>1, <2>2
  <2>4. \/ Durable(c) = Durable(cat)
        \/ \E j \in 1 .. i : DurableAt(cat, batch, j) /\ batch[j].kind \in {"create", "rename", "drop"}
    <3>1. CASE Durable(c) = Durable(b)
      BY <1>6, <1>10, <3>1, Zenon
    <3>2. CASE Durable(c) # Durable(b)
      <4>1. DurableAt(cat, batch, i) /\ batch[i].kind \in {"create", "rename", "drop"}
        BY <1>8, <2>1, <3>2 DEF st
      <4> QED BY <1>6, <4>1, Zenon
    <3> QED BY <3>1, <3>2, Zenon
  <2> QED BY <2>3, <2>4, Zenon
<1> QED BY <1>11, <1>12, <1>13, <1>14, Zenon DEF Changed, now

\* What a batch touches.
LEMMA BatchChanged ==
    ASSUME NEW cat, Sound(cat), NEW batch, CalmBatch(cat, batch)
    PROVE  \A i \in 0 .. Len(batch) : Changed(cat, batch, i)
<1> DEFINE S == {i \in Nat : i <= Len(batch) => Changed(cat, batch, i)}
<1>1. Len(batch) \in Nat
    BY DEF CalmBatch
<1>2. Changed(cat, batch, 0)
  <2>1. Running(cat, batch)[0] = [cats |-> {cat}, touched |-> {}]
    BY <1>1, RunningStep, Zenon
  <2>2. Running(cat, batch)[0].cats = {cat} /\ Running(cat, batch)[0].touched = {}
    BY <2>1
  <2> QED BY <2>2 DEF Changed
<1>3. \A n \in Nat : n \in S => n + 1 \in S
  <2>1. \A i \in 1 .. Len(batch) : Changed(cat, batch, i - 1) => Changed(cat, batch, i)
    <3>1. \A i \in 1 .. Len(batch) : i - 1 \in 0 .. Len(batch)
      BY <1>1
    <3> QED BY <3>1, BatchReached, ChangedNext, Zenon
  <2>2. ASSUME NEW n \in Nat, n \in S, n + 1 <= Len(batch) PROVE Changed(cat, batch, n + 1)
    <3>1. n + 1 \in 1 .. Len(batch) /\ n <= Len(batch) /\ (n + 1) - 1 = n
      BY <1>1, <2>2
    <3>2. Changed(cat, batch, (n + 1) - 1)
      BY <2>2, <3>1
    <3> QED BY <2>1, <3>1, <3>2
  <2> QED BY <2>2
<1>4. 0 \in S
    BY <1>2
<1> HIDE DEF S
<1>5. Nat \subseteq S
    BY <1>3, <1>4, Induction
<1> QED BY <1>1, <1>5 DEF S

\* Every batch of an orderly client that the Proxy does not refuse.
LEMMA BatchMirrored ==
    ASSUME NEW cat, Sound(cat), NEW batch, CalmBatch(cat, batch), batch # <<>>,
           Kinds(cat, batch) # {"temporary", "durable"}, NEW c \in RunBatch(cat, batch).cats
    PROVE  BatchFollows(cat, batch, c)
<1> DEFINE n == Len(batch)  now == Running(cat, batch)[n]
<1>1. n \in Nat /\ n > 0 /\ DOMAIN batch = 1 .. n /\ n \in 0 .. n
    BY DEF CalmBatch
<1>2. c \in now.cats /\ RunBatch(cat, batch).touched = now.touched
    BY Zenon DEF RunBatch
<1>3. Reached(cat, batch, n) /\ Changed(cat, batch, n)
    BY <1>1, BatchReached, BatchChanged, Zenon
<1>4. /\ Sound(c) /\ Listed(cat, batch, TRUE)[n] = ListOf(c)
      /\ Settled(cat) => Listed(cat, batch, FALSE)[n] = ApplyOnCommitDrop(ListOf(c))
    BY <1>2, <1>3, Zenon DEF Reached
<1>5. /\ now.touched \subseteq {"temp", "durable"}
      /\ "durable" \in now.touched => \E j \in 1 .. n : DurableAt(cat, batch, j)
      /\ "temp" \in now.touched => \E j \in 1 .. n : CountsAt(cat, batch, j) = {"temporary"}
    BY <1>3, Zenon DEF Changed
<1>6. /\ \A j \in 1 .. n :
           CountsAt(cat, batch, j) = {"temporary"} \/ (DurableAt(cat, batch, j) /\ "durable" \in now.touched)
      /\ \/ Durable(c) = Durable(cat)
         \/ \E j \in 1 .. n : DurableAt(cat, batch, j) /\ batch[j].kind \in {"create", "rename", "drop"}
    BY <1>2, <1>3, Zenon DEF Changed
<1> HIDE DEF n, now
<1>7. \A j \in 1 .. n : DurableAt(cat, batch, j) => CountsAt(cat, batch, j) = {"durable"}
    BY Zenon DEF DurableAt
<1>8. CASE \A j \in 1 .. n : CountsAt(cat, batch, j) = {"temporary"}
  <2>1. \A j \in 1 .. n : ~DurableAt(cat, batch, j)
    BY <1>7, <1>8, Zenon
  <2>2. Kinds(cat, batch) = {"temporary"}
    BY <1>1, <1>8 DEF Kinds, n
  <2>3. now.touched \subseteq {"temp"} /\ Durable(c) = Durable(cat)
    BY <1>5, <1>6, <2>1, Zenon
  <2> QED BY <1>2, <1>4, <2>2, <2>3, Zenon DEF BatchFollows, n
<1>9. CASE \E j \in 1 .. n : CountsAt(cat, batch, j) # {"temporary"}
  <2>1. PICK j \in 1 .. n : CountsAt(cat, batch, j) # {"temporary"}
    BY <1>9, Zenon
  <2>2. DurableAt(cat, batch, j) /\ "durable" \in now.touched
    BY <1>6, <2>1, Zenon
  <2>3. \A k \in 1 .. n : CountsAt(cat, batch, k) = {"temporary"} \/ CountsAt(cat, batch, k) = {"durable"}
    BY <1>6, <1>7, Zenon
  <2>4. "durable" \in Kinds(cat, batch) /\ Kinds(cat, batch) \subseteq {"temporary", "durable"}
    BY <1>7, <2>2, <2>3 DEF Kinds, n
  <2>5. Kinds(cat, batch) = {"durable"}
    BY <2>4, Zenon
  <2>6. \A k \in 1 .. n : CountsAt(cat, batch, k) # {"temporary"}
    BY <2>5, Zenon DEF Kinds, n
  <2>7. now.touched = {"durable"}
    BY <1>5, <2>2, <2>6, Zenon
  <2>8. RequiresFleetWriteOrder(batch)
    BY <1>1, <2>2, Zenon DEF RequiresFleetWriteOrder, IsFleetDDL, DurableAt, n
  <2> QED BY <1>1, <1>2, <1>4, <1>6, <2>5, <2>7, <2>8, Zenon DEF BatchFollows, n
<1> QED BY <1>8, <1>9, Zenon

\* A statement counts as temporary or as durable.
LEMMA CountsAre == ASSUME NEW t, NEW st PROVE Counts(t, st) \subseteq {"temporary", "durable"}
<1>1. CASE st.kind = "discard"
    BY <1>1, Zenon DEF Counts
<1>2. CASE st.kind = "drop"
    BY <1>2, Zenon DEF Counts
<1>3. CASE st.kind \notin {"discard", "drop"}
  <2> DEFINE A == IF Target(t, st) \/ st.temp \/ \E rel \in RangeVars(st) : Tracked(t.relations, rel)
                  THEN {"temporary"} ELSE {}
             B == IF Target(t, st) THEN {} ELSE {"durable"}
  <2>1. Counts(t, st) = A \cup B
    BY <1>3, Zenon DEF Counts
  <2>2. A \subseteq {"temporary", "durable"} /\ B \subseteq {"temporary", "durable"}
    BY Zenon
  <2> HIDE DEF A, B
  <2> QED BY <2>1, <2>2, Zenon
<1> QED BY <1>1, <1>2, <1>3, Zenon

\* A batch of a disciplined client that the Proxy does not refuse.
LEMMA QueryCalm ==
    ASSUME Orderly, Sound(pg.cat), tmp = ListOf(pg.cat), NEW batch \in Batches, NEW touched,
           Disciplined(batch, touched), Classify(batch) # {"temporary", "durable"}
    PROVE  /\ CalmBatch(pg.cat, batch) /\ batch # <<>> /\ Kinds(pg.cat, batch) = Classify(batch)
           /\ \A one \in touched, other \in pg.touched : one = other
<1>1. batch \in Seq(Statements) /\ batch # <<>> /\ Len(batch) \in Nat /\ DOMAIN batch = 1 .. Len(batch)
    BY CatalogAssumption
<1>2. "unmarked" \notin Client /\ "shadow" \notin Client /\ "guard" \notin Client /\ "view" \notin Client
      /\ "both" \notin Client
    BY Zenon DEF Orderly
<1>3. Kinds(pg.cat, batch) = Classify(batch)
    BY <1>1, Zenon DEF Kinds, Classify, CountsAt, Listed
<1>4. \A i \in 1 .. Len(batch) : CountsAt(pg.cat, batch, i) # {"temporary", "durable"}
  <2>1. \A i \in 1 .. Len(batch) : CountsAt(pg.cat, batch, i) \subseteq Kinds(pg.cat, batch)
    BY Zenon DEF Kinds
  <2>2. \A i \in 1 .. Len(batch) : CountsAt(pg.cat, batch, i) \subseteq {"temporary", "durable"}
    BY CountsAre, Zenon DEF CountsAt
  <2>3. Kinds(pg.cat, batch) \subseteq {"temporary", "durable"}
    BY <2>2, Zenon DEF Kinds
  <2> QED BY <1>3, <2>1, <2>3, Zenon
<1>5. Temporaries = TempNames(pg.cat)
    BY Fields DEF Temporaries, TempNames, HasTemp
<1>6. /\ \A st \in Range(batch) : st.kind \in {"create", "view"} /\ st.rel.schema = "pg_temp" => st.temp
      /\ \A st \in Range(batch) : st.kind \in {"create", "view"} /\ ~st.temp /\ st.rel.schema = "plain"
           => st.rel.name \notin Nameable(pg.cat, batch)
      /\ \A st, other \in Range(batch) : ~st.again /\ ~(st.guard /\ other.drop)
      /\ \A st \in Range(batch) : ~(st.kind = "view" /\ st.temp)
      /\ \A one \in touched, other \in pg.touched : one = other
    BY <1>2, <1>5, Zenon DEF Disciplined, Nameable
<1>7. CalmBatch(pg.cat, batch)
    BY <1>1, <1>4, <1>6, Zenon DEF CalmBatch
<1> QED BY <1>1, <1>3, <1>6, <1>7

\* A batch that changes nothing: it is refused, or it fails.
Nothing ==
    /\ pg' = pg \/ pg' = [pg EXCEPT !.status = IF @ = "idle" THEN "idle" ELSE "failed"]
    /\ did' = Idle /\ UNCHANGED <<tmp, snapshots, transaction, mutated, schemaDirty, registry>>

\* A batch of an orderly client changes nothing, or the Proxy follows it.
LEMMA QueryRuns ==
    ASSUME Orderly, IInv, NEW batch \in Batches, Query(batch), ~Nothing
    PROVE  \E b : Ran(batch, b)
<1> DEFINE counts    == Classify(batch)
           temporary == counts = {"temporary"}
           gated     == RequiresFleetWriteOrder(batch) /\ ~temporary
           result    == IF pg.status = "failed" THEN [cats |-> {}, touched |-> {}] ELSE RunBatch(pg.cat, batch)
           cats      == IF transaction THEN result.cats ELSE Autocommit(result, gated)
<1>1. /\ Disciplined(batch, result.touched)
      /\ \/ /\ counts = {"temporary", "durable"} /\ did' = Idle
            /\ UNCHANGED <<pg, tmp, snapshots, transaction, mutated, schemaDirty, registry>>
         \/ /\ counts # {"temporary", "durable"}
            /\ \/ cats = {} /\ Fails
               \/ \E c \in cats : Succeeds(batch, c, result.touched, temporary, gated)
    BY Zenon DEF Query
<1>2. CASE did' = Idle /\ UNCHANGED <<pg, tmp, snapshots, transaction, mutated, schemaDirty, registry>>
  <2>1. pg' = pg /\ UNCHANGED <<tmp, snapshots, transaction, mutated, schemaDirty, registry>>
    BY <1>2, Zenon
  <2> QED BY <1>2, <2>1, Zenon DEF Nothing
<1>3. CASE Fails
    BY <1>3, Zenon DEF Fails, Nothing
<1>4. CASE /\ counts # {"temporary", "durable"}
           /\ \E c \in cats : Succeeds(batch, c, result.touched, temporary, gated)
  <2>1. PICK c \in cats : Succeeds(batch, c, result.touched, temporary, gated)
    BY <1>4, Zenon
  <2>2. Sound(pg.cat) /\ tmp = ListOf(pg.cat)
    BY Known0, Zenon
  <2>3. /\ CalmBatch(pg.cat, batch) /\ batch # <<>> /\ Kinds(pg.cat, batch) = counts
        /\ \A one \in result.touched, other \in pg.touched : one = other
    BY ONLY Orderly, <1>1, <1>4, <2>2, batch \in Batches, QueryCalm, Zenon
  <2>4. PICK b \in result.cats : c = IF transaction THEN b ELSE OnCommitDrop(b)
    BY Zenon DEF Autocommit
  <2>5. result = RunBatch(pg.cat, batch)
    BY Zenon
  <2>6. b \in RunBatch(pg.cat, batch).cats
    BY <2>5, Zenon
  <2> HIDE DEF result, cats
  <2>7. BatchFollows(pg.cat, batch, b)
    BY ONLY <1>4, <2>2, <2>3, <2>6, BatchMirrored, Zenon
  <2> HIDE DEF counts
  <2> QED BY ONLY <1>1, <2>1, <2>3, <2>4, <2>5, <2>7, Zenon DEF Ran, gated, temporary
<1> QED BY <1>1, <1>2, <1>3, <1>4, Zenon

\* A batch of an orderly client keeps the invariant.
LEMMA QueryKeeps ==
    ASSUME Orderly, IInv, NEW batch \in Batches, Query(batch)
    PROVE  IInv'
<1>1. CASE Nothing
    BY <1>1, NothingKeeps, Zenon DEF Nothing
<1>2. ASSUME NEW b, Ran(batch, b) PROVE IInv'
  <2> DEFINE touched   == RunBatch(pg.cat, batch).touched
             temporary == Kinds(pg.cat, batch) = {"temporary"}
             gated     == RequiresFleetWriteOrder(batch) /\ Kinds(pg.cat, batch) # {"temporary"}
             c         == IF transaction THEN b ELSE OnCommitDrop(b)
  <2>1. /\ BatchFollows(pg.cat, batch, b) /\ \A one \in touched, other \in pg.touched : one = other
        /\ Succeeds(batch, c, touched, temporary, gated)
    BY <1>2, Zenon DEF Ran
  <2>2. gated \in BOOLEAN /\ (gated <=> RequiresFleetWriteOrder(batch) /\ Kinds(pg.cat, batch) # {"temporary"})
        /\ touched = RunBatch(pg.cat, batch).touched
    BY Zenon
  <2>3. (transaction => c = b) /\ (~transaction => c = OnCommitDrop(b))
    BY Zenon
  <2> HIDE DEF touched, temporary, gated, c
  <2>4. CASE transaction
    <3>1. BatchFollows(pg.cat, batch, c)
      BY <2>1, <2>3, <2>4, Zenon
    <3> QED BY ONLY IInv, <2>1, <2>2, <2>4, <3>1, BatchKeeps, Zenon
  <2>5. CASE ~transaction
    <3>1. c = OnCommitDrop(b)
      BY <2>3, <2>5, Zenon
    <3> QED BY ONLY IInv, <2>1, <2>2, <2>5, <3>1, AutocommitKeeps, Zenon
  <2> QED BY <2>4, <2>5, Zenon
<1> QED BY <1>1, <1>2, QueryRuns, Zenon

\* A batch, and the registry.
LEMMA QueryRegisters ==
    ASSUME Client = {}, IInv, Registered, NEW batch \in Batches, Query(batch)
    PROVE  Registered'
<1>1. Orderly
    BY Zenon DEF Orderly
<1>2. CASE Nothing
  <2>1. pg'.cat = pg.cat /\ pg'.stack = pg.stack /\ registry' = registry /\ schemaDirty' = schemaDirty
        /\ mutated' = mutated /\ transaction' = transaction
    BY <1>2, Known0, Parts, Zenon DEF Nothing
  <2> QED BY <2>1, Zenon DEF Registered, Known
<1>3. ASSUME NEW b, Ran(batch, b) PROVE Registered'
  <2> DEFINE touched   == RunBatch(pg.cat, batch).touched
             temporary == Kinds(pg.cat, batch) = {"temporary"}
             gated     == RequiresFleetWriteOrder(batch) /\ Kinds(pg.cat, batch) # {"temporary"}
             c         == IF transaction THEN b ELSE OnCommitDrop(b)
             dirty     == NormalizeSchema(batch) /\ ~temporary
  <2>1. /\ BatchFollows(pg.cat, batch, b) /\ Disciplined(batch, touched)
        /\ Succeeds(batch, c, touched, temporary, gated)
    BY <1>3, Zenon DEF Ran
  <2>2. /\ pg'.cat = c /\ pg'.stack = pg.stack /\ transaction' = transaction
        /\ mutated' = (mutated \/ (transaction /\ gated))
        /\ schemaDirty' = (transaction /\ (schemaDirty \/ dirty))
        /\ registry' = IF (dirty \/ schemaDirty) /\ ~transaction THEN Durable(c) ELSE registry
    BY <2>1, Known0, Parts, Zenon DEF Succeeds
  <2>3. Sound(b) /\ Durable(c) = Durable(b)
    BY <2>1, CommitDrops, Zenon DEF BatchFollows
  <2>4. \/ Durable(b) = Durable(pg.cat)
        \/ gated /\ dirty
    <3>1. CASE Kinds(pg.cat, batch) = {"temporary"}
      BY <2>1, <3>1, Zenon DEF BatchFollows
    <3>2. CASE Kinds(pg.cat, batch) # {"temporary"}
      <4>1. /\ touched = {"durable"} /\ RequiresFleetWriteOrder(batch)
            /\ \/ Durable(b) = Durable(pg.cat)
               \/ \E j \in DOMAIN batch : batch[j].kind \in {"create", "rename", "drop"}
        BY <2>1, <3>2, Zenon DEF BatchFollows
      <4>2. ASSUME NEW j \in DOMAIN batch, batch[j].kind \in {"create", "rename", "drop"} PROVE NormalizeSchema(batch)
        <5>1. "durable" \in touched
          BY <4>1, Zenon
        <5> HIDE DEF touched
        <5> QED BY ONLY Client = {}, batch \in Batches, <2>1, <4>2, <5>1, Noticed, Zenon
      <4> QED BY <3>2, <4>1, <4>2, Zenon
    <3> QED BY <3>1, <3>2, Zenon
  <2> HIDE DEF touched, temporary, gated, c, dirty
  <2>5. CASE transaction
    <3>1. registry' = registry /\ (schemaDirty => schemaDirty') /\ (mutated => mutated')
          /\ (gated /\ dirty => schemaDirty' /\ mutated')
      BY <2>2, <2>5, Zenon
    <3>2. Durable(c) = registry' \/ (schemaDirty' /\ mutated')
      BY <2>3, <2>4, <3>1, Zenon DEF Registered, Known
    <3>3. Known(pg.cat)'
      BY <2>2, <3>2, Zenon DEF Known
    <3>4. \A i \in DOMAIN pg.stack : Known(pg.stack[i].cat)'
      <4> SUFFICES ASSUME NEW i \in DOMAIN pg.stack PROVE Known(pg.stack[i].cat)'
        BY Zenon
      <4>1. Known(pg.stack[i].cat) /\ pg'.stack = pg.stack
        BY <2>2, Zenon DEF Registered
      <4> QED BY <3>1, <4>1, Zenon DEF Known
    <3>5. transaction' /\ Durable(pg'.stack[1].cat) = registry'
      BY <2>2, <2>5, <3>1, ZenonT(30) DEF Registered
    <3> QED BY <2>2, <3>3, <3>4, <3>5 DEF Registered
  <2>6. CASE ~transaction
    <3>1. ~schemaDirty /\ ~mutated /\ pg.stack = <<>>
      BY <2>6, Known0, Zenon DEF Registered
    <3>2. Durable(pg.cat) = registry
      BY <3>1, Zenon DEF Registered, Known
    <3>3. registry' = Durable(c) /\ ~schemaDirty' /\ ~transaction'
      BY <2>2, <2>3, <2>4, <2>6, <3>1, <3>2, ZenonT(30)
    <3> QED BY <2>2, <3>1, <3>3 DEF Registered, Known
  <2> QED BY <2>5, <2>6, Zenon
<1> QED BY <1>1, <1>2, <1>3, QueryRuns, Zenon

-----------------------------------------------------------------------------
(* The savepoints with a name.                                             *)

\* The innermost savepoint with a name is one of them.
LEMMA InnermostIs ==
    ASSUME NEW S \in SUBSET Nat, S # {}, NEW n \in Nat, \A i \in S : i <= n
    PROVE  Innermost(S) \in S
<1> DEFINE Above == {m \in Nat : \A i \in S : i <= m}
<1>1. n \in Above
    BY Zenon
<1>2. PICK m \in Above : \A k \in Above : ~(k < m)
  <2>1. IsWellFoundedOn(OpToRel(<, Nat), Nat)
    BY NatLessThanWellFounded, Zenon
  <2>2. PICK m \in Above : \A k \in Above : <<k, m>> \notin OpToRel(<, Nat)
    BY <1>1, <2>1, WFMin, Zenon
  <2> QED BY <2>2, Zenon DEF OpToRel
<1>3. m \in S
  <2> SUFFICES ASSUME m \notin S PROVE FALSE
    BY Zenon
  <2>1. \A i \in S : i <= m - 1
    BY <1>2
  <2>2. m - 1 \in Nat
    <3>1. PICK i \in S : i \in Nat
      BY Zenon
    <3> QED BY <1>2, <2>1, <3>1
  <2> QED BY <1>2, <2>1, <2>2
<1>4. \A j \in S : j <= m
    BY <1>2, Zenon
<1> QED BY <1>3, <1>4, Zenon DEF Innermost

\* The savepoints with a name are at the same places on both sides.
LEMMA SamePlaces ==
    ASSUME IInv, NEW name, At(pg.stack, name) # {}
    PROVE  /\ At(snapshots, name) = At(pg.stack, name)
           /\ Innermost(At(pg.stack, name)) \in 2 .. Len(pg.stack)
<1>1. Len(snapshots) = Len(pg.stack) /\ Len(pg.stack) \in Nat /\ DOMAIN pg.stack = 1 .. Len(pg.stack)
    BY Known0, Parts
<1>2. \A i \in 2 .. Len(pg.stack) : snapshots[i].name = pg.stack[i].name
    BY <1>1, Known0
<1>3. At(snapshots, name) = At(pg.stack, name)
    BY <1>1, <1>2, Zenon DEF At
<1>4. At(pg.stack, name) \in SUBSET (2 .. Len(pg.stack))
    BY Zenon DEF At
<1>5. Innermost(At(pg.stack, name)) \in At(pg.stack, name)
  <2>1. At(pg.stack, name) \in SUBSET Nat /\ \A i \in At(pg.stack, name) : i <= Len(pg.stack)
    BY <1>1, <1>4
  <2> QED BY <1>1, <2>1, InnermostIs, Zenon
<1> QED BY <1>3, <1>4, <1>5, Zenon

\* ROLLBACK TO SAVEPOINT: both sides go back to the same place.
LEMMA RollbackToKeeps ==
    ASSUME IInv, NEW name \in Points, RollbackTo(name)
    PROVE  IInv'
<1> DEFINE i == Innermost(At(pg.stack, name))
           cat == pg.stack[i].cat
           stack == SubSeq(pg.stack, 1, i)
           status == "open"
<1>1. At(snapshots, name) = At(pg.stack, name) /\ i \in 2 .. Len(pg.stack)
    BY SamePlaces, Zenon DEF RollbackTo
<1>2. pg.status # "idle" /\ transaction /\ Len(pg.stack) \in Nat /\ i \in 1 .. Len(pg.stack) /\ i \in DOMAIN pg.stack
    BY <1>1, Known0, Parts DEF RollbackTo
<1>3. /\ pg' = [cat |-> cat, stack |-> stack, status |-> status, touched |-> pg.touched]
      /\ snapshots' = SubSeq(snapshots, 1, i) /\ tmp' = snapshots[i].tmp /\ did' = Idle
      /\ transaction' = transaction /\ mutated' = mutated /\ schemaDirty' = schemaDirty
    BY <1>1, Known0, Parts, Zenon DEF RollbackTo, RestoreSavepoint
<1>4. Sound(cat) /\ tmp' = ListOf(cat)
    BY <1>2, <1>3, Known0, Mirrored, Zenon
<1> HIDE DEF i
<1>5. /\ stack \in Seq([name : Points \cup {"begin"}, cat : SUBSET Relations])
      /\ snapshots' \in Seq([name : Points \cup {"begin"}, tmp : Lists])
      /\ Len(snapshots') = Len(stack) /\ stack # <<>> /\ stack[1] = pg.stack[1]
      /\ \A j \in DOMAIN stack : /\ snapshots'[j].name = stack[j].name
                                 /\ Sound(stack[j].cat) /\ Mirrors(snapshots'[j].tmp, stack[j].cat)
  <2>1. snapshots' = SubSeq(snapshots, 1, i)
    BY <1>3, Zenon
  <2> QED BY ONLY <1>2, <2>1, IInv, CutKeeps, Zenon
<1>6. /\ Settled(stack[1].cat) /\ pg.touched # {"temp", "durable"} /\ (mutated' => pg.touched = {"durable"})
      /\ pg.touched \subseteq {"temp", "durable"}
      /\ transaction' \in BOOLEAN /\ mutated' \in BOOLEAN /\ schemaDirty' \in BOOLEAN /\ transaction'
      /\ status \in {"idle", "open", "failed"} /\ status # "idle"
    BY <1>2, <1>3, <1>5, Known0, Parts, Zenon
<1>7. OrderedWhenDurable'
    BY <1>3, IdleOrdered, Zenon
<1> HIDE DEF cat, stack, status
<1> QED BY ONLY <1>3, <1>4, <1>5, <1>6, <1>7, Whole, ZenonT(30)

\* RELEASE SAVEPOINT: both sides forget the same savepoints.
LEMMA ReleaseKeeps ==
    ASSUME IInv, NEW name \in Points, Release(name)
    PROVE  IInv'
<1> DEFINE i == Innermost(At(pg.stack, name)) - 1
           stack == SubSeq(pg.stack, 1, i)
<1>1. At(snapshots, name) = At(pg.stack, name) /\ Innermost(At(pg.stack, name)) \in 2 .. Len(pg.stack)
    BY SamePlaces, Zenon DEF Release
<1>2. transaction /\ Len(pg.stack) \in Nat /\ i \in 1 .. Len(pg.stack) /\ Sound(pg.cat) /\ pg.status # "idle"
    BY <1>1, Known0, Parts DEF Release
<1>3. /\ pg' = [cat |-> pg.cat, stack |-> stack, status |-> pg.status, touched |-> pg.touched]
      /\ snapshots' = SubSeq(snapshots, 1, i) /\ tmp' = tmp /\ did' = Idle
      /\ transaction' = transaction /\ mutated' = mutated /\ schemaDirty' = schemaDirty
    BY <1>1, Known0, Parts, Zenon DEF Release
<1>4. tmp' = ListOf(pg.cat)
    BY <1>3, Known0, Zenon
<1> HIDE DEF i
<1>5. /\ stack \in Seq([name : Points \cup {"begin"}, cat : SUBSET Relations])
      /\ snapshots' \in Seq([name : Points \cup {"begin"}, tmp : Lists])
      /\ Len(snapshots') = Len(stack) /\ stack # <<>> /\ stack[1] = pg.stack[1]
      /\ \A j \in DOMAIN stack : /\ snapshots'[j].name = stack[j].name
                                 /\ Sound(stack[j].cat) /\ Mirrors(snapshots'[j].tmp, stack[j].cat)
  <2>1. snapshots' = SubSeq(snapshots, 1, i)
    BY <1>3, Zenon
  <2> QED BY ONLY <1>2, <2>1, IInv, CutKeeps, Zenon
<1>6. /\ Settled(stack[1].cat) /\ pg.touched # {"temp", "durable"} /\ (mutated' => pg.touched = {"durable"})
      /\ pg.touched \subseteq {"temp", "durable"}
      /\ transaction' \in BOOLEAN /\ mutated' \in BOOLEAN /\ schemaDirty' \in BOOLEAN /\ transaction'
      /\ pg.status \in {"idle", "open", "failed"}
    BY <1>2, <1>3, <1>5, Known0, Parts, Zenon
<1>7. OrderedWhenDurable'
    BY <1>3, IdleOrdered, Zenon
<1> HIDE DEF stack
<1> QED BY ONLY <1>2, <1>3, <1>4, <1>5, <1>6, <1>7, Whole, Zenon

\* BEGIN, the savepoints, and the registry: no step of theirs touches it.
LEMMA PointsRegister ==
    ASSUME IInv, Registered, NEW name,
           Begin \/ Savepoint(name) \/ RollbackTo(name) \/ Release(name)
    PROVE  Registered'
<1>1. pg.stack \in Seq([name : Points \cup {"begin"}, cat : SUBSET Relations]) /\ Len(pg.stack) \in Nat
      /\ DOMAIN pg.stack = 1 .. Len(pg.stack)
    BY Known0, Parts
<1>2. CASE Begin
  <2>1. ~transaction /\ ~schemaDirty /\ Durable(pg.cat) = registry
    BY <1>2, Known0, Zenon DEF Begin, Registered, Known
  <2>2. /\ pg'.cat = pg.cat /\ pg'.stack = <<[name |-> "begin", cat |-> pg.cat]>> /\ registry' = registry
    BY <1>2, Known0, Parts, Zenon DEF Begin
  <2>3. DOMAIN pg'.stack = {1} /\ pg'.stack[1].cat = pg.cat
    BY <2>2
  <2> QED BY <2>1, <2>2, <2>3, <1>2, Zenon DEF Registered, Known, Begin
<1>3. CASE Savepoint(name) \/ RollbackTo(name) \/ Release(name)
  <2>1. transaction /\ registry' = registry /\ schemaDirty' = schemaDirty /\ mutated' = mutated
        /\ transaction' = transaction /\ pg.stack # <<>>
    BY <1>3, Known0, Zenon DEF Savepoint, RollbackTo, Release
  <2>2. Known(pg.cat) /\ (\A i \in DOMAIN pg.stack : Known(pg.stack[i].cat)) /\ Durable(pg.stack[1].cat) = registry
    BY <2>1, Zenon DEF Registered
  <2>3. /\ pg'.cat = pg.cat \/ \E i \in DOMAIN pg.stack : pg'.cat = pg.stack[i].cat
        /\ \A j \in DOMAIN pg'.stack : pg'.stack[j].cat = pg.cat \/ \E i \in DOMAIN pg.stack : pg'.stack[j].cat = pg.stack[i].cat
        /\ pg'.stack[1].cat = pg.stack[1].cat
    <3>1. CASE Savepoint(name)
      <4> DEFINE e == [name |-> name, cat |-> pg.cat]
      <4>1. pg'.cat = pg.cat /\ pg'.stack = Append(pg.stack, e)
        BY <3>1, Known0, Parts, Zenon DEF Savepoint
      <4>2. e.cat = pg.cat
        BY Zenon
      <4> HIDE DEF e
      <4>3. /\ DOMAIN pg'.stack = 1 .. Len(pg.stack) + 1 /\ pg'.stack[Len(pg.stack) + 1] = e
            /\ \A i \in 1 .. Len(pg.stack) : pg'.stack[i] = pg.stack[i]
        BY <1>1, <4>1
      <4>4. 1 \in 1 .. Len(pg.stack)
        BY <1>1, <2>1
      <4> QED BY <1>1, <4>1, <4>2, <4>3, <4>4
    <3>2. ASSUME NEW i \in 1 .. Len(pg.stack), pg'.stack = SubSeq(pg.stack, 1, i)
          PROVE  /\ \A j \in DOMAIN pg'.stack : j \in DOMAIN pg.stack /\ pg'.stack[j] = pg.stack[j]
                 /\ pg'.stack[1] = pg.stack[1]
      BY <1>1, <3>2, FirstEntries
    <3>3. CASE RollbackTo(name)
      <4> DEFINE i == Innermost(At(pg.stack, name))
      <4>1. i \in 1 .. Len(pg.stack)
        BY <1>1, <3>3, SamePlaces DEF RollbackTo
      <4>2. pg'.stack = SubSeq(pg.stack, 1, i) /\ pg'.cat = pg.stack[i].cat
        BY <3>3, Known0, Parts, Zenon DEF RollbackTo
      <4> HIDE DEF i
      <4> QED BY <1>1, <3>2, <4>1, <4>2, Zenon
    <3>4. CASE Release(name)
      <4> DEFINE i == Innermost(At(pg.stack, name)) - 1
      <4>1. i \in 1 .. Len(pg.stack)
        BY <1>1, <3>4, SamePlaces DEF Release
      <4>2. pg'.stack = SubSeq(pg.stack, 1, i) /\ pg'.cat = pg.cat
        BY <3>4, Known0, Parts, Zenon DEF Release
      <4> HIDE DEF i
      <4> QED BY <1>1, <3>2, <4>1, <4>2, Zenon
    <3> QED BY <1>3, <3>1, <3>3, <3>4, Zenon
  <2> QED BY <2>1, <2>2, <2>3, Zenon DEF Registered, Known
<1> QED BY <1>2, <1>3, Zenon

-----------------------------------------------------------------------------
(* What holds in every state.                                              *)

\* Every command of an orderly client.
LEMMA NextKeeps ==
    ASSUME Orderly, IInv, [Next]_vars
    PROVE  IInv'
<1>1. CASE UNCHANGED vars
    BY <1>1, Zenon DEF IInv, vars, TypeOK, Stacked, Status, OneKind, OrderedWhenDurable
<1>2. ASSUME NEW batch \in Batches, Query(batch) PROVE IInv'
    BY <1>2, QueryKeeps, Zenon
<1>3. ASSUME Begin PROVE IInv'
    BY <1>3, BeginKeeps, Zenon
<1>4. ASSUME NEW name \in Points, Savepoint(name) \/ RollbackTo(name) \/ Release(name) PROVE IInv'
    BY <1>4, SavepointKeeps, RollbackToKeeps, ReleaseKeeps, Zenon
<1>5. ASSUME NEW chain \in BOOLEAN, Rollback(chain) PROVE IInv'
    BY <1>5, RollbackKeeps, Zenon
<1>6. ASSUME NEW chain \in BOOLEAN, CommitOnePhase(chain) PROVE IInv'
    BY <1>6, OnePhaseKeeps, Zenon
<1>7. ASSUME CommitTwoPhase PROVE IInv'
    BY <1>7, TwoPhaseKeeps
<1> QED BY <1>1, <1>2, <1>3, <1>4, <1>5, <1>6, <1>7, Zenon DEF Next

\* The invariant, for clients that keep to the rules the list depends on.
THEOREM Invariance ==
    ASSUME Orderly
    PROVE  Spec => []IInv
<1>1. Init => IInv
    BY InitHolds, Zenon
<1>2. IInv /\ [Next]_vars => IInv'
    BY NextKeeps, Zenon
<1> QED BY <1>1, <1>2, PTL DEF Spec

\* The Proxy's list of temporary relations (rememberTemporaryStatement, the savepoint
\* snapshots and applyTemporaryOnCommitDrop in server.go) is exactly the session's
\* temporary relations, whatever such a client sends.
THEOREM Tracking ==
    ASSUME Orderly
    PROVE  Spec => []TracksTemporaries
<1>1. ASSUME IInv PROVE TracksTemporaries
  <2>1. tmp.relations = {rel \in TempRels : HasTemp(pg.cat, rel.name)} /\ Sound(pg.cat)
    BY <1>1, Zenon DEF IInv, Mirrors
  <2>2. {rel \in TempRels : HasTemp(pg.cat, rel.name)}
          = {Rel(schema, name) : schema \in {"plain", "pg_temp"}, name \in Temporaries}
    <3>1. \A r \in pg.cat : r.name \in Names
      BY <2>1, Fields, Zenon
    <3> QED BY <3>1 DEF TempRels, HasTemp, Temporaries, Rel
  <2> QED BY <2>1, <2>2 DEF TracksTemporaries
<1> QED BY <1>1, Invariance, PTL

\* Fleet DDL is ordered and prepared, temporary DDL is not (requiresFleetWriteOrder
\* and classifyTemporaryDDL in handleSessionQuery).
THEOREM Ordering ==
    ASSUME Orderly
    PROVE  Spec => []OrderedWhenDurable
<1>1. IInv => OrderedWhenDurable
    BY Zenon DEF IInv
<1> QED BY <1>1, Invariance, PTL

\* Outside transactions the schema registry knows exactly the durable tables, for a
\* client that does nothing normalizeDDL overlooks: the refresh after DDL, the mark
\* schemaDirty of a transaction with DDL, and the refresh at its end (server.go) are
\* enough, whatever mix of batches, savepoints and rollbacks comes.
THEOREM Currency ==
    ASSUME Client = {}
    PROVE  Spec => []RegistryIsCurrent
<1>1. Orderly
    BY Zenon DEF Orderly
<1>2. Init => Registered
  <2> SUFFICES ASSUME Init PROVE Registered
    BY Zenon
  <2>1. pg.cat = {} /\ pg.stack = <<>> /\ registry = {} /\ transaction = FALSE /\ schemaDirty = FALSE
    BY Zenon DEF Init
  <2>2. Durable({}) = {}
    BY Zenon DEF Durable
  <2>3. DOMAIN pg.stack = {}
    BY <2>1
  <2> QED BY <2>1, <2>2, <2>3, Zenon DEF Registered, Known
<1>3. Registered /\ IInv /\ [Next]_vars => Registered'
  <2> SUFFICES ASSUME Registered, IInv, [Next]_vars PROVE Registered'
    BY Zenon
  <2>1. CASE UNCHANGED vars
    BY <2>1, Zenon DEF Registered, Known, vars
  <2>2. ASSUME NEW batch \in Batches, Query(batch) PROVE Registered'
    BY <2>2, QueryRegisters, Zenon
  <2>3. CASE Begin \/ \E name \in Points : Savepoint(name) \/ RollbackTo(name) \/ Release(name)
    BY <2>3, PointsRegister, Zenon
  <2>4. ASSUME NEW chain \in BOOLEAN, Rollback(chain) \/ CommitOnePhase(chain) PROVE Registered'
    BY <2>4, EndsRegister, Zenon
  <2>5. CASE CommitTwoPhase
    BY <2>5, EndsRegister, Zenon
  <2> QED BY <2>1, <2>2, <2>3, <2>4, <2>5, Zenon DEF Next
<1>4. ASSUME Registered, IInv PROVE RegistryIsCurrent
    BY <1>4, Known0, Zenon DEF Registered, Known, RegistryIsCurrent
<1> QED BY <1>1, <1>2, <1>3, <1>4, Invariance, PTL DEF Spec
=============================================================================
