--------------------------- MODULE SessionCatalog ---------------------------
(***************************************************************************)
(* Which DDL of a session is temporary and which belongs to the fleet.     *)
(* The Proxy keeps its own list of the session's temporary relations       *)
(* (temporaryRelations and its companions in extendedState), with a        *)
(* snapshot per savepoint, and decides by it whether a command takes the   *)
(* fleet write gate, is committed in two phases and refreshes the schema   *)
(* registry.  Here it meets PostgreSQL's catalogs, search path, savepoints *)
(* and ON COMMIT DROP.  The Burrows run the same DDL: one stands for all.  *)
(***************************************************************************)
EXTENDS Integers, Sequences, FiniteSets, Functions

CONSTANTS
    Names,      \* of tables, indexes and views
    Points,     \* names of savepoints
    Batches,    \* the simple Query messages: sequences of statements
    MaxDepth,   \* bound on the nesting of savepoints
    MaxSize,    \* bound on the relations
    Client      \* what clients do beyond the disciplined ones:
                \*   "unmarked"     CREATE TABLE pg_temp.x, without TEMP
                \*   "shadow"       CREATE TABLE or VIEW x while a temporary x exists
                \*   "guard"        CREATE TABLE IF NOT EXISTS and ON COMMIT DROP in one batch,
                \*                  CREATE INDEX IF NOT EXISTS
                \*   "view"         CREATE TEMP VIEW
                \*   "both"         temporary DDL in a transaction with durable DDL, or the reverse
                \*   "commitFailed" COMMIT of a failed transaction
                \*   "rename", "as" ALTER ... RENAME, CREATE TABLE AS of a durable table
                \*   "hidden"       DROP after the CREATE that a batch begins with

VARIABLES
    pg,         \* [cat, stack, status, touched]: the session's PostgreSQL
    tmp,        \* [relations, drops, parents]: extendedState's temporary*
    snapshots,  \* temporarySnapshots
    transaction, mutated, schemaDirty,
    registry,   \* the durable tables the schema registry knows
    did         \* the last batch: the namespaces it changed, whether it took the gate

vars == <<pg, tmp, snapshots, transaction, mutated, schemaDirty, registry, did>>

\* A name as written: plain, or with the schema pg_temp or public.
Rel(schema, name) == [schema |-> schema, name |-> name]

NoRel == Rel("plain", "none")
-----------------------------------------------------------------------------
(* Statements.                                                             *)

Statement(kind) ==
    [kind |-> kind, rel |-> NoRel, temp |-> FALSE, drop |-> FALSE, guard |-> FALSE, as |-> FALSE, again |-> FALSE,
     new |-> "none", from |-> NoRel, what |-> "table", names |-> {}, cascade |-> FALSE]

Create(rel, temp, drop) == [Statement("create") EXCEPT !.rel = rel, !.temp = temp, !.drop = drop]
Index(rel, name)        == [Statement("index") EXCEPT !.rel = rel, !.new = name]
View(rel, temp, from)   == [Statement("view") EXCEPT !.rel = rel, !.temp = temp, !.from = from]
Rename(rel, name)       == [Statement("rename") EXCEPT !.rel = rel, !.new = name]
Alter(rel)              == [Statement("alter") EXCEPT !.rel = rel]
Drop(what, names, cascade) ==
    [Statement("drop") EXCEPT !.what = what, !.names = names, !.cascade = cascade]
Discard                 == Statement("discard")

Rels == [schema : {"plain", "pg_temp", "public"}, name : Names]

\* What a parsed statement of each kind holds: guard is the IF NOT EXISTS of a table,
\* again that of an index.
Statements ==
    {st \in [kind : {"create", "index", "view", "rename", "alter", "drop", "discard"},
             rel : Rels \cup {NoRel}, temp : BOOLEAN, drop : BOOLEAN, guard : BOOLEAN, as : BOOLEAN,
             again : BOOLEAN,
             new : Names \cup {"none"}, from : Rels \cup {NoRel}, what : {"table", "index", "view"},
             names : SUBSET Rels, cascade : BOOLEAN] :
       /\ st.kind \notin {"drop", "discard"} => st.rel \in Rels
       /\ st.kind \in {"index", "rename"} => st.new \in Names
       /\ st.kind = "view" => st.from \in Rels
       /\ st.kind = "drop" => st.names # {}
       /\ st.temp => st.kind \in {"create", "view"}
       /\ st.drop \/ st.guard \/ st.as => st.kind = "create"
       /\ st.again => st.kind = "index"}

ASSUME CatalogAssumption ==
    /\ Batches \subseteq Seq(Statements) \ {<<>>}
    /\ MaxDepth \in Nat /\ MaxSize \in Nat
    /\ Client \subseteq {"unmarked", "shadow", "guard", "view", "both", "commitFailed", "rename", "as", "hidden"}
-----------------------------------------------------------------------------
(* PostgreSQL.  A relation knows its kind, whether it is temporary, which  *)
(* relations it depends on and whether it goes at the end of the           *)
(* transaction.  An operator that can fail returns a set.                  *)

Found(cat, rel) ==
    LET named == {r \in cat : r.name = rel.name}
        temp  == {r \in named : r.temp}
    IN  CASE rel.schema = "pg_temp" -> temp
          [] rel.schema = "public"  -> named \ temp
          [] OTHER                  -> IF temp # {} THEN temp ELSE named

Relation(name, temp, kind, on, drop) ==
    [name |-> name, temp |-> temp, kind |-> kind, on |-> on, drop |-> drop]

Id(r) == <<r.temp, r.name>>

\* What goes with the relations in S: the smallest set that has all that depends on
\* its members.
Closed(cat, T) == \A r \in cat : r.on \cap {Id(q) : q \in T} # {} => r \in T

Dependents(cat, S) ==
    {r \in cat : \A T \in SUBSET cat : S \subseteq T /\ Closed(cat, T) => r \in T}

Added(cat, r, guard) ==
    IF Id(r) \in {Id(q) : q \in cat} THEN (IF guard THEN {cat} ELSE {}) ELSE {cat \cup {r}}

RunCreate(cat, st) ==
    LET temp == st.temp \/ st.rel.schema = "pg_temp"
    IN  IF (st.temp /\ st.rel.schema = "public") \/ (st.drop /\ ~temp) THEN {}
        ELSE Added(cat, Relation(st.rel.name, temp, "table", {}, st.drop), st.guard)

RunIndex(cat, st) ==
    UNION {Added(cat, Relation(st.new, r.temp, "index", {Id(r)}, FALSE), st.again) :
           r \in {q \in Found(cat, st.rel) : q.kind = "table"}}

\* A view over a temporary relation is temporary.
RunView(cat, st) ==
    UNION {LET temp == st.temp \/ st.rel.schema = "pg_temp" \/ r.temp
           IN  IF temp /\ st.rel.schema = "public" THEN {}
               ELSE Added(cat, Relation(st.rel.name, temp, "view", {Id(r)}, FALSE), FALSE) :
           r \in {q \in Found(cat, st.from) : q.kind # "index"}}

RunRename(cat, st) ==
    UNION {LET moved == [r EXCEPT !.name = st.new]
               follow(q) == [q EXCEPT !.on = {IF d = Id(r) THEN Id(moved) ELSE d : d \in @}]
           IN  IF Id(moved) \in {Id(q) : q \in cat} THEN {}
               ELSE {{follow(q) : q \in cat \ {r}} \cup {moved}} :
           r \in Found(cat, st.rel)}

RunDrop(cat, st) ==
    LET found   == {Found(cat, rel) : rel \in st.names}
        dropped == UNION found
        gone    == Dependents(cat, dropped)
    IN  IF {} \in found \/ \E r \in dropped : r.kind # st.what THEN {}
        ELSE IF ~st.cascade /\ \E r \in gone \ dropped : r.kind = "view" THEN {}
        ELSE {cat \ gone}

Run(cat, st) ==
    CASE st.kind = "create"  -> RunCreate(cat, st)
      [] st.kind = "index"   -> RunIndex(cat, st)
      [] st.kind = "view"    -> RunView(cat, st)
      [] st.kind = "rename"  -> RunRename(cat, st)
      [] st.kind = "alter"   -> IF Found(cat, st.rel) = {} THEN {} ELSE {cat}
      [] st.kind = "drop"    -> RunDrop(cat, st)
      [] st.kind = "discard" -> {cat \ Dependents(cat, {r \in cat : r.temp})}

\* The namespaces a statement changes or, CREATE TABLE IF NOT EXISTS, would have changed.
Touched(cat, st) ==
    LET space(r) == IF r.temp THEN "temp" ELSE "durable"
    IN  IF st.kind = "alter" THEN {space(r) : r \in Found(cat, st.rel)}
        ELSE IF st.guard THEN {IF st.temp \/ st.rel.schema = "pg_temp" THEN "temp" ELSE "durable"}
        ELSE UNION {{space(r) : r \in (cat \ after) \cup (after \ cat)} : after \in Run(cat, st)}

\* A batch succeeds as a whole: [cats, touched], no cats when it fails.
RunNext(run, st) ==
    [cats |-> UNION {Run(c, st) : c \in run.cats},
     touched |-> run.touched \cup UNION {Touched(c, st) : c \in run.cats}]

Running(cat, batch) ==
    LET after[i \in 0 .. Len(batch)] ==
          IF i = 0 THEN [cats |-> {cat}, touched |-> {}] ELSE RunNext(after[i - 1], batch[i])
    IN  after

RunBatch(cat, batch) == Running(cat, batch)[Len(batch)]

OnCommitDrop(cat) == cat \ Dependents(cat, {r \in cat : r.drop})

Durable(cat) == {r.name : r \in {q \in cat : ~q.temp /\ q.kind = "table"}}
-----------------------------------------------------------------------------
(* The Proxy's list of temporary relations.                                *)

\* temporaryNameKeys and temporaryNameCanonical
NameKeys(rel) ==
    IF rel.schema = "public" THEN {rel} ELSE {Rel("plain", rel.name), Rel("pg_temp", rel.name)}

Canonical(rel) == IF rel.schema = "public" THEN rel ELSE Rel("pg_temp", rel.name)

\* relationSetContains
Tracked(relations, rel) ==
    rel \in relations \/ (rel.schema = "pg_temp" /\ Rel("plain", rel.name) \in relations)

\* temporaryNameSetContains
TrackedName(relations, name) == NameKeys(name) \cap relations # {}

RememberRelation(t, st, inTransaction) ==
    IF st.drop /\ ~inTransaction THEN t
    ELSE [t EXCEPT !.relations = @ \cup NameKeys(st.rel),
                   !.drops = IF st.drop THEN @ \cup NameKeys(st.rel) ELSE @]

RememberIndex(t, st) ==
    LET keys == NameKeys(Rel("plain", st.new))
    IN  [t EXCEPT !.relations = @ \cup keys,
                  !.parents = {p \in @ : p[1] \notin keys} \cup (keys \X {Canonical(st.rel)})]

\* Mutant: the indexes of a renamed table keep its old name as their parent.
RenameKeepsParents(t, st) ==
    LET old == NameKeys(st.rel)
        new == NameKeys([st.rel EXCEPT !.name = st.new])
        isIndex == \E p \in t.parents : p[1] \in old
    IN  IF isIndex
        THEN [t EXCEPT !.relations = (@ \ old) \cup new,
                       !.parents = {p \in @ : p[1] \notin old} \cup
                                   (new \X {p[2] : p \in {q \in @ : q[1] \in old}})]
        ELSE [t EXCEPT !.relations = (@ \ old) \cup new,
                       !.drops = IF @ \cap old # {} THEN (@ \ old) \cup new ELSE @]

RenameRelation(t, st) ==
    LET renamed == [st.rel EXCEPT !.name = st.new]
        old     == NameKeys(st.rel)
        new     == NameKeys(renamed)
        own     == {p \in t.parents : p[1] \in old}
        follow(p) == IF p[2] = Canonical(st.rel) THEN <<p[1], Canonical(renamed)>> ELSE p
    IN  IF own # {}
        THEN [t EXCEPT !.relations = (@ \ old) \cup new,
                       !.parents = (@ \ own) \cup (new \X {p[2] : p \in own})]
        ELSE [relations |-> (t.relations \ old) \cup new,
              drops     |-> IF t.drops \cap old # {} THEN (t.drops \ old) \cup new ELSE t.drops,
              parents   |-> {follow(p) : p \in t.parents}]

\* forgetTemporaryName of each name: the order makes no difference.
Forget(t, names, cascade) ==
    LET keys == UNION {NameKeys(rel) : rel \in names}
        kept == {p \in t.parents : p[1] \notin keys}
        with == IF cascade THEN {p \in kept : p[2] \in {Canonical(rel) : rel \in names}} ELSE {}
    IN  [relations |-> (t.relations \ keys) \ {p[1] : p \in with},
         drops |-> t.drops \ keys, parents |-> kept \ with]

NoTemporaries == [relations |-> {}, drops |-> {}, parents |-> {}]

\* rememberTemporaryStatement
Remember(t, st, inTransaction) ==
    CASE st.kind = "create" /\ st.temp -> RememberRelation(t, st, inTransaction)
      [] st.kind = "index" /\ Tracked(t.relations, st.rel) -> RememberIndex(t, st)
      [] st.kind = "rename" /\ Tracked(t.relations, st.rel) -> RenameRelation(t, st)
      [] st.kind = "drop" -> Forget(t, st.names, st.what # "index")
      [] st.kind = "discard" -> NoTemporaries
      [] OTHER -> t

Remembering(t, batch, inTransaction) ==
    LET after[i \in 0 .. Len(batch)] ==
          IF i = 0 THEN t ELSE Remember(after[i - 1], batch[i], inTransaction)
    IN  after

RememberBatch(t, batch) == Remembering(t, batch, transaction)[Len(batch)]

\* applyTemporaryOnCommitDrop
ApplyOnCommitDrop(t) ==
    LET kept == {p \in t.parents : p[1] \notin t.drops}
        with == {p \in kept : p[2] \in {Canonical(key) : key \in t.drops}}
    IN  [relations |-> (t.relations \ t.drops) \ {p[1] : p \in with},
         drops |-> {}, parents |-> kept \ with]
-----------------------------------------------------------------------------
(* Classification.                                                         *)

RangeVars(st) == IF st.kind = "view" THEN {st.rel, st.from} ELSE {st.rel}

\* temporaryDDLTarget, or any reference where the statement has no such target
Target(t, st) ==
    IF st.kind \in {"create", "view"}
    THEN st.temp \/ st.rel.schema = "pg_temp" \/ Tracked(t.relations, st.rel)
    ELSE st.temp \/ \E rel \in RangeVars(st) : Tracked(t.relations, rel)

\* What one statement counts as, given the list so far.
Counts(t, st) ==
    CASE st.kind = "discard" -> {"temporary"}
      [] st.kind = "drop"    -> {IF TrackedName(t.relations, rel) THEN "temporary" ELSE "durable" :
                                 rel \in st.names}
      [] OTHER -> (IF Target(t, st) \/ st.temp \/ \E rel \in RangeVars(st) : Tracked(t.relations, rel)
                   THEN {"temporary"} ELSE {})
                  \cup (IF Target(t, st) THEN {} ELSE {"durable"})

\* Mutant: a batch is classified by the list it begins with.
ClassifyAtStart(batch) == UNION {Counts(tmp, batch[i]) : i \in DOMAIN batch}

\* classifyTemporaryDDL: a batch is one implicit transaction.
Classify(batch) ==
    LET working == Remembering(tmp, batch, TRUE)
    IN  UNION {Counts(working[i - 1], batch[i]) : i \in DOMAIN batch}

IsFleetDDL(st) == st.kind # "discard"

RequiresFleetWriteOrder(batch) == \E i \in DOMAIN batch : IsFleetDDL(batch[i]) /\ ~batch[i].temp

\* ddl.Normalize: CREATE TABLE and ALTER TABLE change the schema; CREATE TABLE AS and
\* RENAME are other statements to the parser.
Normalize(batch) == \E i \in DOMAIN batch : \/ batch[i].kind = "create" /\ ~batch[i].as
                                            \/ batch[i].kind = "alter"

\* Mutant: DROP does not refresh the registry.
NormalizeWithoutDrop(batch) == \E i \in DOMAIN batch : batch[i].kind \in {"create", "alter"}

\* normalizeDDL: does the registry have to be refreshed?  The first keyword decides
\* what is looked at.
NormalizeSchema(batch) ==
    CASE batch[1].kind = "drop"    -> TRUE
      [] batch[1].kind = "discard" -> \E i \in DOMAIN batch : IsFleetDDL(batch[i])
      [] OTHER                     -> Normalize(batch)
-----------------------------------------------------------------------------
(* The session.                                                            *)

Temporaries == {r.name : r \in {q \in pg.cat : q.temp}}

Idle == [touched |-> {}, gated |-> FALSE]

\* Clients do not do what the README lists as disagreements, unless Client says so.
Disciplined(batch, touched) ==
    LET all  == Range(batch)
        temporary == Temporaries \cup {st.rel.name : st \in {q \in all : q.temp}} \cup {st.new : st \in all}
        allowed(choice, what) == choice \notin Client => what
    IN  /\ allowed("unmarked", \A st \in all : st.kind \in {"create", "view"} /\ st.rel.schema = "pg_temp" => st.temp)
        /\ allowed("shadow", \A st \in all : st.kind \in {"create", "view"} /\ ~st.temp /\ st.rel.schema = "plain"
                                => st.rel.name \notin temporary)
        /\ allowed("guard", \A st, other \in all : ~st.again /\ ~(st.guard /\ other.drop))
        /\ allowed("view", \A st \in all : ~(st.kind = "view" /\ st.temp))
        /\ allowed("both", \A one \in touched, other \in pg.touched : one = other)
        /\ allowed("rename", "durable" \in touched => \A st \in all : st.kind # "rename")
        /\ allowed("as", "durable" \in touched => \A st \in all : ~st.as)
        /\ allowed("hidden", (\E st \in all : st.kind = "drop") => batch[1].kind \in {"drop", "discard"})

\* A batch outside a transaction is one.  Fleet DDL is prepared before it commits,
\* which PostgreSQL refuses to what has touched a temporary relation.
Autocommit(result, gated) ==
    IF gated /\ "temp" \in result.touched THEN {} ELSE {OnCommitDrop(c) : c \in result.cats}

\* The batch fails: PostgreSQL gives up the transaction, and the Proxy's list stays.
Fails ==
    /\ pg' = [pg EXCEPT !.status = IF @ = "idle" THEN "idle" ELSE "failed"]
    /\ did' = Idle
    /\ UNCHANGED <<tmp, snapshots, transaction, mutated, schemaDirty, registry>>

\* It succeeds: applySuccessfulSQLState, recordWriteParticipants and the refresh.
Succeeds(batch, cat, touched, temporary, gated) ==
    LET dirty == NormalizeSchema(batch) /\ ~temporary
    IN  /\ pg' = [pg EXCEPT !.cat = cat, !.touched = IF transaction THEN @ \cup touched ELSE {}]
        /\ tmp' = RememberBatch(tmp, batch)
        /\ mutated' = (mutated \/ (transaction /\ gated))
        /\ schemaDirty' = (transaction /\ (schemaDirty \/ dirty))
        /\ registry' = IF (dirty \/ schemaDirty) /\ ~transaction THEN Durable(cat) ELSE registry
        /\ did' = [touched |-> touched, gated |-> gated]
        /\ UNCHANGED <<snapshots, transaction>>

\* handleSessionQuery.  A batch with temporary and durable DDL is refused.
Query(batch) ==
    LET counts    == Classify(batch)
        temporary == counts = {"temporary"}
        gated     == RequiresFleetWriteOrder(batch) /\ ~temporary
        result    == IF pg.status = "failed" THEN [cats |-> {}, touched |-> {}] ELSE RunBatch(pg.cat, batch)
        cats      == IF transaction THEN result.cats ELSE Autocommit(result, gated)
    IN  /\ Disciplined(batch, result.touched)
        /\ \A c \in cats : Cardinality(c) <= MaxSize
        /\ \/ /\ counts = {"temporary", "durable"}
              /\ did' = Idle
              /\ UNCHANGED <<pg, tmp, snapshots, transaction, mutated, schemaDirty, registry>>
           \/ /\ counts # {"temporary", "durable"}
              /\ \/ cats = {} /\ Fails
                 \/ \E c \in cats : Succeeds(batch, c, result.touched, temporary, gated)
-----------------------------------------------------------------------------
(* Transactions: updateTransactionStatement.                               *)

Snapshot(name) == [name |-> name, tmp |-> tmp]

Begin ==
    /\ pg.status = "idle"
    /\ pg' = [pg EXCEPT !.status = "open", !.stack = <<[name |-> "begin", cat |-> pg.cat]>>, !.touched = {}]
    /\ snapshots' = IF snapshots = <<>> THEN <<Snapshot("begin")>> ELSE snapshots
    /\ transaction' = TRUE /\ mutated' = FALSE /\ did' = Idle
    /\ UNCHANGED <<tmp, schemaDirty, registry>>

Savepoint(name) ==
    /\ pg.status = "open" /\ Len(pg.stack) <= MaxDepth
    /\ pg' = [pg EXCEPT !.stack = Append(@, [name |-> name, cat |-> pg.cat])]
    /\ snapshots' = Append(snapshots, Snapshot(name))
    /\ did' = Idle
    /\ UNCHANGED <<tmp, transaction, mutated, schemaDirty, registry>>

\* The positions of the savepoints with a name, the innermost last.
At(stack, name) == {i \in 2 .. Len(stack) : stack[i].name = name}

Innermost(S) == CHOOSE i \in S : \A j \in S : j <= i

\* restoreTemporarySavepoint
RestoreSavepoint(name) ==
    LET i == Innermost(At(snapshots, name))
    IN  snapshots' = SubSeq(snapshots, 1, i) /\ tmp' = snapshots[i].tmp

RollbackTo(name) ==
    LET i == Innermost(At(pg.stack, name))
    IN  /\ pg.status # "idle" /\ At(pg.stack, name) # {}
        /\ pg' = [pg EXCEPT !.stack = SubSeq(@, 1, i), !.cat = pg.stack[i].cat, !.status = "open"]
        /\ RestoreSavepoint(name)
        /\ did' = Idle
        /\ UNCHANGED <<transaction, mutated, schemaDirty, registry>>

Release(name) ==
    /\ pg.status = "open" /\ At(pg.stack, name) # {}
    /\ pg' = [pg EXCEPT !.stack = SubSeq(@, 1, Innermost(At(@, name)) - 1)]
    /\ snapshots' = SubSeq(snapshots, 1, Innermost(At(snapshots, name)) - 1)
    /\ did' = Idle
    /\ UNCHANGED <<tmp, transaction, mutated, schemaDirty, registry>>

\* PostgreSQL after the end of a transaction.
Ended(cat, chain) ==
    [cat |-> cat, status |-> IF chain THEN "open" ELSE "idle", touched |-> {},
     stack |-> IF chain THEN <<[name |-> "begin", cat |-> cat]>> ELSE <<>>]

\* finishTemporaryTransaction and what follows it.
Finish(commit, chain) ==
    LET list == IF commit THEN ApplyOnCommitDrop(tmp) ELSE snapshots[1].tmp
    IN  /\ tmp' = list
        /\ snapshots' = IF chain THEN <<[name |-> "begin", tmp |-> list]>> ELSE <<>>
        /\ transaction' = chain /\ mutated' = FALSE
        /\ did' = Idle

Rollback(chain) ==
    /\ pg.status # "idle"
    /\ pg' = Ended(pg.stack[1].cat, chain)
    /\ Finish(FALSE, chain)
    /\ schemaDirty' = (schemaDirty /\ chain)
    /\ UNCHANGED registry

\* COMMIT on every Burrow; PostgreSQL rolls a failed transaction back.
CommitOnePhase(chain) ==
    LET cat == IF pg.status = "failed" THEN pg.stack[1].cat ELSE OnCommitDrop(pg.cat)
    IN  /\ pg.status # "idle" /\ ~mutated
        /\ pg.status = "failed" => "commitFailed" \in Client
        /\ pg' = Ended(cat, chain)
        /\ Finish(TRUE, chain)
        /\ registry' = IF schemaDirty /\ ~chain THEN Durable(cat) ELSE registry
        /\ schemaDirty' = (schemaDirty /\ chain)

\* handleTwoPhaseCommit.  PostgreSQL refuses to prepare what touched a temporary relation.
CommitTwoPhase ==
    LET refused == "temp" \in pg.touched
    IN  /\ pg.status = "open" /\ mutated
        /\ pg' = Ended(IF refused THEN pg.stack[1].cat ELSE OnCommitDrop(pg.cat), FALSE)
        /\ IF refused
           THEN transaction' = FALSE /\ did' = Idle /\ UNCHANGED <<tmp, snapshots, mutated>>
           ELSE Finish(TRUE, FALSE)
        /\ registry' = IF schemaDirty /\ ~refused THEN Durable(pg'.cat) ELSE registry
        /\ schemaDirty' = (schemaDirty /\ refused)
-----------------------------------------------------------------------------
Init ==
    /\ pg = [cat |-> {}, stack |-> <<>>, status |-> "idle", touched |-> {}]
    /\ tmp = NoTemporaries /\ snapshots = <<>>
    /\ transaction = FALSE /\ mutated = FALSE /\ schemaDirty = FALSE
    /\ registry = {} /\ did = Idle

Next ==
    \/ \E batch \in Batches : Query(batch)
    \/ Begin
    \/ \E name \in Points : Savepoint(name) \/ RollbackTo(name) \/ Release(name)
    \/ \E chain \in BOOLEAN : Rollback(chain) \/ CommitOnePhase(chain)
    \/ CommitTwoPhase

Spec == Init /\ [][Next]_vars
-----------------------------------------------------------------------------
(* Properties.                                                             *)

\* The Proxy's list is PostgreSQL's: between commands, outside failed transactions,
\* a name is on it, plain and with pg_temp, exactly when the session has a temporary
\* relation of that name, through renames, savepoints and ON COMMIT DROP.
TracksTemporaries ==
    pg.status # "failed" =>
      tmp.relations = {Rel(schema, name) : schema \in {"plain", "pg_temp"}, name \in Temporaries}

\* A batch that changed a durable relation was ordered with the fleet's DDL and
\* prepared on every Burrow; one that changed only temporary ones waited for nobody.
OrderedWhenDurable ==
    /\ "durable" \in did.touched => did.gated
    /\ did.touched = {"temp"} => ~did.gated

\* Outside transactions the schema registry knows exactly the durable tables: DDL
\* sent through the Proxy advances it.
RegistryIsCurrent == pg.status = "idle" => registry = Durable(pg.cat)
-----------------------------------------------------------------------------
(* The inductive invariant.  Clients may rename durable tables, create     *)
(* them with AS or drop them behind another statement: the list does not   *)
(* suffer, only the registry does.                                         *)

Orderly == Client \subseteq {"rename", "as", "hidden"}

Relations ==
    [name : Names, temp : BOOLEAN, kind : {"table", "index", "view"}, on : SUBSET (BOOLEAN \X Names),
     drop : BOOLEAN]

\* A catalog as PostgreSQL keeps it for such clients, who make no temporary views.
Based(cat, r) ==
    /\ r.drop => r.temp /\ r.kind = "table"
    /\ r.kind = "table" => r.on = {}
    /\ r.kind = "index" => \E q \in cat : q.kind = "table" /\ q.temp = r.temp /\ r.on = {Id(q)}
    /\ r.kind = "view" => ~r.temp /\ \E q \in cat \ {r} : q.kind # "index" /\ ~q.temp /\ r.on = {Id(q)}

Sound(cat) ==
    /\ cat \subseteq Relations
    /\ \A r, q \in cat : Id(r) = Id(q) => r = q
    /\ \A r \in cat : Based(cat, r)

\* What the Proxy's list is about: the temporary relations, those that go at the
\* end of the transaction, and the temporary indexes with their tables.
HasTemp(cat, name) == \E r \in cat : r.temp /\ r.name = name
HasDrop(cat, name) == \E r \in cat : r.drop /\ r.name = name
IndexOf(cat, name, table) ==
    \E r \in cat : r.temp /\ r.kind = "index" /\ r.name = name /\ <<TRUE, table>> \in r.on

TempRels == [schema : {"plain", "pg_temp"}, name : Names]

Lists ==
    [relations : SUBSET TempRels, drops : SUBSET TempRels, parents : SUBSET (TempRels \X TempRels)]

Mirrors(t, cat) ==
    t = [relations |-> {rel \in TempRels : HasTemp(cat, rel.name)},
         drops     |-> {rel \in TempRels : HasDrop(cat, rel.name)},
         parents   |-> {p \in TempRels \X TempRels :
                          p[2].schema = "pg_temp" /\ IndexOf(cat, p[1].name, p[2].name)}]

Settled(cat) == \A r \in cat : ~r.drop

TypeOK ==
    /\ pg \in [cat : SUBSET Relations, stack : Seq([name : Points \cup {"begin"}, cat : SUBSET Relations]),
               status : {"idle", "open", "failed"}, touched : SUBSET {"temp", "durable"}]
    /\ tmp \in Lists /\ snapshots \in Seq([name : Points \cup {"begin"}, tmp : Lists])
    /\ {transaction, mutated, schemaDirty} \subseteq BOOLEAN

\* A savepoint's snapshot mirrors what PostgreSQL goes back to.
Stacked ==
    /\ Len(snapshots) = Len(pg.stack)
    /\ \A i \in DOMAIN pg.stack :
         /\ snapshots[i].name = pg.stack[i].name
         /\ Sound(pg.stack[i].cat) /\ Mirrors(snapshots[i].tmp, pg.stack[i].cat)

Status ==
    /\ transaction = (pg.status # "idle")
    /\ IF transaction THEN pg.stack # <<>> /\ Settled(pg.stack[1].cat)
       ELSE pg.stack = <<>> /\ Settled(pg.cat) /\ ~mutated /\ pg.touched = {}

\* A transaction with fleet DDL has touched nothing temporary, and will be prepared.
OneKind ==
    /\ pg.touched # {"temp", "durable"}
    /\ mutated => pg.touched = {"durable"}

IInv ==
    /\ TypeOK /\ Sound(pg.cat) /\ Mirrors(tmp, pg.cat)
    /\ Stacked /\ Status /\ OneKind /\ OrderedWhenDurable

\* What the registry knows, unless fleet DDL of the open transaction has marked it.
Known(cat) == Durable(cat) = registry \/ (schemaDirty /\ mutated)

Registered ==
    /\ Known(pg.cat) /\ \A i \in DOMAIN pg.stack : Known(pg.stack[i].cat)
    /\ IF transaction THEN Durable(pg.stack[1].cat) = registry ELSE ~schemaDirty
=============================================================================
