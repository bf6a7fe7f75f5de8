------------------------------ MODULE Routing ------------------------------
(***************************************************************************)
(* Which Burrows a statement goes to (internal/router, routePlan and the   *)
(* statement handlers of the Proxy), and whether a client can tell the     *)
(* fleet from one PostgreSQL that has all the rows.  There is one sharded  *)
(* table "s", with one or two shard-key columns that are its primary key   *)
(* and a payload, and one unsharded table "u".  Statements are PostgreSQL  *)
(* syntax trees, reduced to what the router looks at and to what tells the *)
(* answers apart.  `ideal' is the one PostgreSQL; `fleet' has a database   *)
(* per Burrow.  Statements run one at a time: what happens between them is *)
(* the subject of the other modules.                                       *)
(***************************************************************************)
EXTENDS KeyValues, FiniteSets, Bags

CONSTANTS
    Burrows,        \* the names of the Burrows, in order
    PrimaryBurrow,  \* unsharded_tables.primary_burrow
    Schemas,        \* [types, generated]: the shard key of "s"
    Deployments,    \* [placement, mode]: how the fleet is set up
    Statements(_, _), \* the statements clients send to a schema in a mode
    MaxRows, MaxID  \* bounds on the rows of "s" and the ids handed out

ASSUME RoutingAssumption ==
    /\ PrimaryBurrow \in ToSet(Burrows)
    /\ Deployments \subseteq [placement : {"catalog", "modulo", "absent"},
                              mode : {"primary", "replicated"}]
    /\ \A sch \in Schemas :
         /\ sch.types \in BoundedSeq(Numbers \cup Strings, 2) \ {<<>>}
         /\ sch.generated => sch.types = <<"bigint">>

VARIABLES
    schema,     \* the registry's entry for "s"
    placement,  \* "catalog": Nest's topology has "s"; "absent": it has not;
                \* "modulo": there is no topology and no vshard map
    mode,       \* unsharded_tables.mode
    alone,      \* HashKey: the one key in a vshard of its own
    fleet,      \* the rows of each table on each Burrow
    ideal,      \* the rows of each table on one PostgreSQL
    nextID      \* the global sequence

vars == <<schema, placement, mode, alone, fleet, ideal, nextID>>

Names == ToSet(Burrows)
VirtualShards == 2
Sharded == {"s"}
KeyTypes(t) == IF t = "s" THEN schema.types ELSE <<"bigint">>
ColumnType(t, c) == IF c = 0 THEN "bigint" ELSE KeyTypes(t)[c]
-----------------------------------------------------------------------------
(* Syntax.  Column 0 is the payload, 1 and 2 are the key.                  *)

Text(sp)       == [kind |-> "string", sp |-> sp]
Number(sp)     == [kind |-> "number", sp |-> sp]
Param(sp, f)   == [kind |-> "param", sp |-> sp, format |-> f, bytes |-> [sp EXCEPT !.sign = <<"NUL", "NUL">>]]
AsType(e, t)   == [kind |-> "cast", arg |-> e, type |-> t]
Signed(op, e)  == [kind |-> "sign", op |-> op, arg |-> e]
Call(e)        == [kind |-> "call", arg |-> e]
Collated(e)    == [kind |-> "collate", arg |-> e]
NullValue      == [kind |-> "null"]
Default        == [kind |-> "default"]

NoWhere        == [op |-> "none"]
Eq(c, e)       == [op |-> "=", cols |-> <<c>>, exprs |-> <<e>>]
RowEq(cs, es)  == [op |-> "=", cols |-> cs, exprs |-> es]
Other(c, e)    == [op |-> "<>", cols |-> <<c>>, exprs |-> <<e>>]
And(ps)        == [op |-> "and", args |-> ps]
Or(ps)         == [op |-> "or", args |-> ps]
Not(p)         == [op |-> "not", args |-> <<p>>]

\* with: a WITH clause that reads or deletes from the table `over'; multi: a second
\* statement follows; from: the other tables (of INSERT ... SELECT, USING, ...);
\* shape: what is selected, "aggregate" being one that the router has no name for.
Statement(kind, table) ==
    [kind |-> kind, table |-> table, with |-> "none", over |-> "s", explain |-> "none", multi |-> FALSE,
     from |-> <<>>, cols |-> <<>>, rows |-> <<>>, conflict |-> FALSE, set |-> <<>>,
     shape |-> "rows", where |-> NoWhere]

Insert(t, cols, rows) == [Statement("insert", t) EXCEPT !.cols = cols, !.rows = rows]
Select(t, shape, p)   == [Statement("select", t) EXCEPT !.shape = shape, !.where = p]
Update(t, set, p)     == [Statement("update", t) EXCEPT !.set = set, !.where = p]
Delete(t, p)          == [Statement("delete", t) EXCEPT !.where = p]

\* physicalRelationNames: every table the statement names.  A WITH clause names
\* its table and is itself named by the query.
RelationNames(st) ==
    (IF st.table = "none" THEN <<>> ELSE <<st.table>>) \o st.from
    \o (IF st.shape = "union" THEN <<st.table>> ELSE <<>>)
    \o (IF st.with # "none" THEN <<st.over, "with">> ELSE <<>>)

DML == {"insert", "update", "delete", "merge"}

\* containsWrite
Writes(st) == st.kind \in DML \/ st.with = "delete"
-----------------------------------------------------------------------------
(* PostgreSQL: one statement on one database.                              *)

RECURSIVE Eval(_)
Eval(e) ==
    CASE e.kind = "string" -> {Value("unknown", 0, 0, e.sp)}
      [] e.kind = "param"  -> IF e.format = "text" THEN {Value("unknown", 0, 0, e.sp)}
                              ELSE Input(e.sp, "bigint")
      [] e.kind = "number" -> Input(e.sp, IF e.sp.fraction \o e.sp.exp = <<>>
                                          THEN "bigint" ELSE "numeric")
      [] e.kind = "cast"   -> UNION {Cast(v, e.type) : v \in Eval(e.arg)}
      [] e.kind = "sign"   -> {IF e.op = "-" THEN [v EXCEPT !.n = -v.n] ELSE v :
                               v \in {w \in Eval(e.arg) : w.type \in Numbers}}
      [] e.kind = "call"   -> UNION {Cast(v, IF v.type = "unknown" THEN "text" ELSE v.type) :
                                     v \in Eval(e.arg)}
      [] e.kind = "collate" -> {v \in Eval(e.arg) : v.type \in Strings \cup {"unknown", "null"}}
      [] e.kind = "null"   -> {Null}

RECURSIVE WellTyped(_, _)
WellTyped(p, t) ==
    CASE p.op = "none" -> TRUE
      [] p.op \in {"=", "<>"} ->
           \A i \in DOMAIN p.cols :
             \E v \in Eval(p.exprs[i]) : Comparable(ColumnType(t, p.cols[i]), v)
      [] OTHER -> \A i \in DOMAIN p.args : WellTyped(p.args[i], t)

ColumnValue(row, c) == IF c = 0 THEN row.v ELSE row.key[c]

\* column = e is true, false or unknown.
Truth(value, v, type) ==
    IF v.type = "null" THEN "n"
    ELSE IF \E w \in IF v.type = "unknown" THEN Input(v.sp, type) ELSE {v} : Equal(value, w)
    THEN "t" ELSE "f"

Compare(row, t, c, e) ==
    CHOOSE b \in {Truth(ColumnValue(row, c), v, ColumnType(t, c)) : v \in Eval(e)} : TRUE

Negation(b) == IF b = "t" THEN "f" ELSE IF b = "f" THEN "t" ELSE "n"
Conjunction(S) == IF "f" \in S THEN "f" ELSE IF "n" \in S THEN "n" ELSE "t"

\* The truth of a predicate from that of its parts.
Combined(op, parts) ==
    CASE op \in {"=", "and"}  -> Conjunction(parts)
      [] op \in {"<>", "not"} -> Negation(Conjunction(parts))
      [] op = "or"            -> Negation(Conjunction({Negation(b) : b \in parts}))

RECURSIVE Holds(_, _, _)
Holds(row, t, p) ==
    IF p.op = "none" THEN "t"
    ELSE Combined(p.op, IF p.op \in {"=", "<>"}
                        THEN {Compare(row, t, p.cols[i], p.exprs[i]) : i \in DOMAIN p.cols}
                        ELSE {Holds(row, t, p.args[i]) : i \in DOMAIN p.args})

Matching(db, t, p) == {row \in IF t = "none" THEN {} ELSE db[t] : Holds(row, t, p) = "t"}

Whole(n) == Value("bigint", n * Unit, 0, Plain(<<>>))

\* Tuples with one member of each set.
Tuples(sets) == {f \in [DOMAIN sets -> UNION Range(sets)] : \A i \in DOMAIN sets : f[i] \in sets[i]}

\* What is stored for an expression in a column of a table.
Stored(e, t, c, id) ==
    IF e # Default THEN UNION {Assign(v, ColumnType(t, c)) : v \in Eval(e)}
    ELSE IF c = 0 THEN {Whole(0)}
    ELSE IF t = "s" /\ schema.generated THEN {Whole(id)} ELSE {}

Given(cols, items, c) ==
    IF c \in ToSet(cols) THEN items[CHOOSE i \in DOMAIN cols : cols[i] = c] ELSE Default

\* The row a list of VALUES makes; a column that is not named has its default.
Made(st, items, id) ==
    LET cols == IF st.cols = <<>> THEN [i \in DOMAIN items |-> i] ELSE st.cols
        keys == DOMAIN KeyTypes(st.table)
        stored == [c \in {0} \cup keys |-> Stored(Given(cols, items, c), st.table, c, id)]
    IN  {[key |-> [c \in keys |-> f[c]], v |-> f[0]] : f \in Tuples(stored)}

SameKey(r, q) == \A c \in DOMAIN r.key : Equal(r.key[c], q.key[c])

Outcome(ok, db, rows, count) == [ok |-> ok, db |-> db, rows |-> rows, count |-> count]

\* What a SELECT returns for the rows it found.  A query over several relations
\* computes something from all the rows of each.
Returned(st, db, found) ==
    CASE Len(RelationNames(st)) > 1 ->
           SetToBag({[t \in ToSet(RelationNames(st)) \cap DOMAIN db |-> db[t]]})
      [] st.shape = "rows"  -> SetToBag(found)
      [] st.shape \in {"count", "aggregate"} -> SetToBag({Cardinality(found)})
      [] st.shape = "distinct" -> SetToBag({row.v : row \in found})

Refused(db) == Outcome(FALSE, db, EmptyBag, 0)
Changed(db, t, rows, count) == Outcome(TRUE, [db EXCEPT ![t] = rows], EmptyBag, count)

Clash(old, fresh) ==
    \/ fresh \cap old # {}
    \/ \E r \in fresh, q \in old \cup fresh : r # q /\ SameKey(r, q)

\* made: the set of rows each list of VALUES, or the table, makes; n: their number.
InsertRows(st, db, made, n) ==
    IF {} \in made /\ st.from = <<>> THEN Refused(db)
    ELSE IF Cardinality(UNION made) # n \/ Clash(db[st.table], UNION made)
         THEN Outcome(st.conflict, db, EmptyBag, 0)
    ELSE Changed(db, st.table, db[st.table] \cup UNION made, n)

RunInsert(st, db, id) ==
    IF st.from # <<>> THEN InsertRows(st, db, {db[st.from[1]]}, Cardinality(db[st.from[1]]))
    ELSE InsertRows(st, db, {Made(st, st.rows[i], id + i - 1) : i \in DOMAIN st.rows}, Len(st.rows))

Updated(row, column, v) == IF column = 0 THEN [row EXCEPT !.v = v] ELSE [row EXCEPT !.key[column] = v]

UpdateRows(st, db, found, values) ==
    IF values = {} THEN Refused(db)
    ELSE Changed(db, st.table,
                 (db[st.table] \ found) \cup {Updated(row, st.set[1], v) : row \in found, v \in values},
                 Cardinality(found))

RunOn(st, db, base, found, id) ==
    CASE st.explain = "explain" \/ (st.explain = "analyze" /\ ~Writes(st)) -> Outcome(TRUE, db, EmptyBag, 0)
      [] st.kind = "insert"   -> RunInsert(st, base, id)
      [] st.kind \in {"update", "merge"} ->
           UpdateRows(st, base, found, UNION {Assign(v, ColumnType(st.table, st.set[1])) : v \in Eval(st.set[2])})
      [] st.kind = "delete"   -> Changed(base, st.table, base[st.table] \ found, Cardinality(found))
      [] st.kind = "truncate" -> Changed(base, st.table, {}, 0)
      [] st.kind = "select"   -> Outcome(TRUE, base, Returned(st, db, found), 0)

\* A join with an empty table finds nothing.
Run(st, db, id) ==
    IF ~WellTyped(st.where, st.table) THEN Refused(db)
    ELSE RunOn(st, db, IF st.with = "delete" THEN [db EXCEPT ![st.over] = {}] ELSE db,
               IF \E i \in DOMAIN st.from : db[st.from[i]] = {} THEN {}
               ELSE Matching(db, st.table, st.where), id)
-----------------------------------------------------------------------------
(* The router.                                                             *)

\* placeholderRoutingParameters
Placeholder == Plain(<<0>>)

\* Mutant: binary parameters are not decoded.
RoutingParameterRaw(e, via) ==
    IF via = "parse" THEN Placeholder
    ELSE IF e.format # "text" THEN e.bytes ELSE e.sp

\* The text of a parameter the router works with: "0" at Parse; at Bind what was
\* sent, decoded when it is binary and its type is known.  Otherwise the text is the
\* bytes as they are: those of a small integer are no digits, but those of
\* 825373492 are 1234.
RoutingParameter(e, via) ==
    IF via = "parse" THEN Placeholder
    ELSE IF e.format = "untyped" THEN e.bytes ELSE e.sp

RECURSIVE RawScalarValue(_, _)
RawScalarValue(e, via) ==
    CASE e.kind \in {"string", "number"} -> {[sp |-> e.sp, type |-> ""]}
      [] e.kind = "param" -> {[sp |-> RoutingParameter(e, via), type |-> ""]}
      [] e.kind = "cast"  -> {[sp |-> c, type |-> e.type] :
                              c \in UNION {CanonicalScalar(r.sp, e.type) : r \in RawScalarValue(e.arg, via)}}
      [] e.kind = "collate" -> RawScalarValue(e.arg, via)
      [] e.kind = "sign"  -> {[r EXCEPT !.sp.sign = <<e.op>> \o @] : r \in RawScalarValue(e.arg, via)}
      [] OTHER            -> {}

ScalarValue(e, via, type) ==
    UNION {CanonicalScalar(r.sp, IF r.type # "" THEN r.type ELSE type) : r \in RawScalarValue(e, via)}

\* The column and expression of each equality a conjunction implies; it fails on
\* any other combination.
RECURSIVE Equalities(_)
Equalities(p) ==
    CASE p.op = "=" -> [ok |-> TRUE, found |-> [i \in DOMAIN p.cols |-> <<p.cols[i], p.exprs[i]>>]]
      [] p.op = "and" ->
           [ok |-> \A i \in DOMAIN p.args : Equalities(p.args[i]).ok,
            found |-> FlattenSeq([i \in DOMAIN p.args |-> Equalities(p.args[i]).found])]
      [] OTHER -> [ok |-> p.op = "<>", found |-> <<>>]

\* collectEqualities: a column has one value or the predicate is not understood.
CollectEqualities(p) ==
    {[c \in {e.found[i][1] : i \in DOMAIN e.found} |->
         e.found[CHOOSE i \in DOMAIN e.found : e.found[i][1] = c][2]] :
     e \in {q \in {Equalities(p)} :
             q.ok /\ \A i, j \in DOMAIN q.found : q.found[i][1] = q.found[j][1] => i = j}}

OrderedValues(values, via) ==
    LET n == DOMAIN schema.types
    IN  IF ~(n \subseteq DOMAIN values) THEN {}
        ELSE Tuples([c \in n |-> ScalarValue(values[c], via, schema.types[c])])

InsertKeyValues(st, via) ==
    IF st.with # "none" \/ Len(st.rows) # 1 \/ Len(st.rows[1]) # Len(st.cols) THEN {}
    ELSE OrderedValues([c \in ToSet(st.cols) |-> st.rows[1][CHOOSE i \in DOMAIN st.cols : st.cols[i] = c]], via)

PredicateKeyValues(p, via) == UNION {OrderedValues(values, via) : values \in CollectEqualities(p)}

\* Mutant: a shard key may be updated.
UpdatesShardKeyNever(st) == FALSE

UpdatesShardKey(st) == st.kind = "update" /\ st.set[1] # 0

\* BurrowForKey: one-indexed modulo placement.
BurrowForKey(vshard) ==
    LET remainder == vshard % Len(Burrows)
    IN  IF remainder = 0 THEN Last(Burrows) ELSE Burrows[remainder]

HashKey(key) == IF key = alone THEN 1 ELSE 0

\* TargetForTableShardKey
Target(values) ==
    {IF placement = "catalog" THEN Burrows[vshard + 1] ELSE BurrowForKey(vshard) :
     vshard \in {HashKey(key) % VirtualShards :
                 key \in IF placement = "absent" THEN {}
                         ELSE Tuples([c \in DOMAIN values |-> CanonicalScalar(values[c], schema.types[c])])}}

\* unsafeScatterReason.  An aggregate is known by its name.
UnsafeScatter(st) == st.shape \notin {"rows", "aggregate"} \/ Len(RelationNames(st)) > 1

\* What Prepare keeps of a statement.  EXPLAIN ANALYZE executes what it wraps.
Prepare(st) ==
    LET wrapped  == st.explain # "none"
        analyzed == st.explain = "analyze" /\ Writes(st)
        simple   == st.kind = "select" /\ st.with = "none" /\ st.shape # "union" /\ st.from = <<>>
        relation == IF \/ st.kind \in DML /\ (wrapped => analyzed)
                       \/ simple /\ ~wrapped
                    THEN st.table ELSE "none"
        opaque   == st.kind \in {"update", "delete"} /\ (st.with # "none" \/ st.from # <<>>)
    IN  IF st.multi
        THEN [write |-> Writes(st), read |-> FALSE, single |-> FALSE, relation |-> "none",
              where |-> NoWhere, relations |-> <<>>, unsafe |-> FALSE]
        ELSE [write |-> Writes(st), read |-> st.kind = "select" /\ ~wrapped,
              single |-> wrapped /\ ~analyzed, relation |-> relation,
              where |-> IF opaque THEN NoWhere ELSE st.where,
              relations |-> RelationNames(st),
              unsafe |-> st.kind = "select" /\ ~wrapped /\ UnsafeScatter(st)]

\* Analyze: the Burrow a statement on "s" must go to, if the statement says so.
Keyed(st, p, via) ==
    IF \/ Len(p.relations) # 1
       \/ st.kind = "insert" /\ st.conflict
       \/ UpdatesShardKey(st)
    THEN {}
    ELSE UNION {Target(values) : values \in
                IF st.kind = "insert" THEN InsertKeyValues(st, via) ELSE PredicateKeyValues(p.where, via)}

AllOf(S) == {{b} : b \in S}

\* A read of no sharded table.
Local(p) == p.read /\ ToSet(p.relations) \cap Sharded = {}

\* routePlan: the sets of Burrows a plan may be sent to, none when the Proxy
\* refuses it.
RoutePlan(p, target) ==
    CASE Local(p) \/ p.single               -> AllOf(IF mode = "primary" THEN {PrimaryBurrow} ELSE Names)
      [] target # {}                        -> AllOf(target)
      [] p.read /\ p.unsafe                 -> {}
      [] p.relation \in Sharded \cup {"none"} -> IF p.write THEN {} ELSE {Names}
      [] mode = "primary"                   -> {{PrimaryBurrow}}
      [] p.write                            -> {Names}
      [] OTHER                              -> AllOf(Names)

\* Analyze and routePlan of a prepared statement.
Planned(st, p, via) ==
    RoutePlan(p, IF p.relation \in Sharded /\ ~Local(p) THEN Keyed(st, p, via) ELSE {})

Routes(st, via) == Planned(st, Prepare(st), via)
-----------------------------------------------------------------------------
(* The Proxy.                                                              *)

\* RewriteGeneratedInsert applies: a single row whose generated key is left out
\* or DEFAULT.
Generated(st) ==
    /\ st.kind = "insert" /\ st.table = "s" /\ schema.generated
    /\ st.explain = "none" /\ ~st.multi /\ st.with = "none"
    /\ Len(st.rows) = 1 /\ Len(st.rows[1]) = Len(st.cols)
    /\ \A i \in DOMAIN st.cols : st.cols[i] = 1 => st.rows[1][i] = Default

\* The statement with the id from the global sequence in it.
Rewritten(st, id) ==
    LET value == Number(Output(Whole(id)))
    IN  IF ~Generated(st) THEN st
        ELSE IF 1 \in ToSet(st.cols)
             THEN [st EXCEPT !.rows[1] = [i \in DOMAIN st.cols |-> IF st.cols[i] = 1 THEN value ELSE @[i]]]
        ELSE [st EXCEPT !.cols = Append(@, 1), !.rows[1] = Append(@, value)]

\* A simple Query is routed once; an extended statement must pass at Parse, with
\* "0" for every parameter, and at Bind.
Accepted(st, via) ==
    IF via = "simple" \/ Routes(st, "parse") # {} THEN Routes(st, "bind") ELSE {}

\* QueryOne and QueryAll: the statement runs on its Burrows.
Results(st, T, id) == [b \in T |-> Run(st, fleet[b], id)]

\* merge: rows are appended, row counts added up; an error is an error.
Merged(results) ==
    [ok    |-> \A b \in DOMAIN results : results[b].ok,
     rows  |-> FoldFunction(LAMBDA x, y : x (+) y, EmptyBag, [b \in DOMAIN results |-> results[b].rows]),
     count |-> SumFunction([b \in DOMAIN results |-> results[b].count])]

\* The statement `sent' for st runs on one of the sets of Burrows it may go to.
Send(st, sent, routes) ==
    \/ /\ routes = {}
       /\ UNCHANGED <<fleet, ideal>>
    \/ \E T \in routes :
         /\ fleet' = [b \in Names |-> IF b \in T THEN Run(sent, fleet[b], nextID).db ELSE fleet[b]]
         /\ ideal' = Run(st, ideal, nextID).db

\* An extended statement takes its id at Bind, when Parse has accepted it.
Spent(st, sent, via) == Generated(st) /\ (via = "simple" \/ Routes(sent, "parse") # {})

\* handleQuery, and Parse, Bind and Execute.  A simple Query takes its id before it
\* is routed.
Execute(st, via) ==
    /\ st.kind = "insert" => Cardinality(ideal[st.table]) < MaxRows
    /\ Generated(st) => nextID < MaxID
    /\ \E sent \in {Rewritten(st, nextID)} :
         /\ nextID' = IF Spent(st, sent, via) THEN nextID + 1 ELSE nextID
         /\ Send(st, sent, Accepted(sent, via))
    /\ UNCHANGED <<schema, placement, mode, alone>>

EmptyDatabase == [t \in {"s", "u"} |-> {}]

\* The canonical keys the statements can name.
Keys(types) ==
    LET exprs(st) == ToSet(FlattenSeq(st.rows))
        scalars(c) == UNION {ScalarValue(e, "bind", types[c]) : e \in UNION {exprs(st) : st \in Statements(schema, mode)}}
    IN  Tuples([c \in DOMAIN types |-> UNION {CanonicalScalar(sp, types[c]) : sp \in scalars(c)}])

Init ==
    /\ schema \in Schemas
    /\ \E d \in Deployments : placement = d.placement /\ mode = d.mode
    /\ alone \in Keys(schema.types)
    /\ fleet = [b \in Names |-> EmptyDatabase]
    /\ ideal = EmptyDatabase
    /\ nextID = 1

\* A statement that only reads leaves everything as it is (AnswersAsOne is about
\* what it returns).
Changing == {st \in Statements(schema, mode) : Writes(st) \/ st.kind = "truncate"}

Next == \E st \in Changing, via \in {"simple", "extended"} : Execute(st, via)

Spec == Init /\ [][Next]_vars
-----------------------------------------------------------------------------
(* Correctness.                                                            *)

\* The fleet stores one table: every row of "s" is on one Burrow, and together
\* they are the rows one PostgreSQL would have after the same statements; every
\* copy of "u" that reads can reach is PostgreSQL's (Analyze and routePlan).  This
\* takes statements in which no WITH clause changes a replicated "u", and no binary
\* parameter whose bytes the router takes for the digits of another key.
OneTable ==
    /\ ideal["s"] = UNION {fleet[b]["s"] : b \in Names}
    /\ \A a, b \in Names : a # b => fleet[a]["s"] \cap fleet[b]["s"] = {}
    /\ \A b \in Names : mode = "replicated" \/ b = PrimaryBurrow => fleet[b]["u"] = ideal["u"]

AnswersAgree(told, right, copies) ==
    /\ told.ok = right.ok
    /\ told.rows = right.rows
    /\ told.count = right.count \/ copies

\* A client cannot tell the fleet from one PostgreSQL: every statement that the
\* Proxy accepts, on whichever Burrows it chooses, has PostgreSQL's error, rows
\* and row count, but for the count of a replicated write, which counts copies
\* (unsafeScatterReason, routePlan and merge).  This takes the statements of OneTable,
\* and no aggregate over "s" that isBuiltInAggregateName does not list.
AnswersAsOne ==
    \A st \in Statements(schema, mode) : \A T \in Accepted(Rewritten(st, nextID), "simple") :
      AnswersAgree(Merged(Results(Rewritten(st, nextID), T, nextID)), Run(st, ideal, nextID),
                   st.table = "u" /\ mode = "replicated")

RECURSIVE Inline(_)
Inline(e) ==
    CASE e.kind = "param" -> Text(e.sp)
      [] e.kind \in {"cast", "sign", "call"} -> [e EXCEPT !.arg = Inline(@)]
      [] OTHER -> e

RECURSIVE InlineWhere(_)
InlineWhere(p) ==
    CASE p.op \in {"=", "<>"} -> [p EXCEPT !.exprs = [i \in DOMAIN @ |-> Inline(@[i])]]
      [] p.op = "none"        -> p
      [] OTHER                -> [p EXCEPT !.args = [i \in DOMAIN @ |-> InlineWhere(@[i])]]

\* The statement with its parameters as literals.
Inlined(st) ==
    [st EXCEPT !.where = InlineWhere(@),
               !.rows = [r \in DOMAIN @ |-> [i \in DOMAIN @[r] |-> Inline(@[r][i])]]]

\* A parameter in binary whose type Parse did not give, and whose bytes are no number.
Undecoded(st) ==
    \E e \in {q[2] : q \in ToSet(Equalities(st.where).found)} \cup ToSet(FlattenSeq(st.rows)) :
      e.kind = "param" /\ e.format = "untyped" /\ CanonicalInteger(e.bytes) = {}

\* Simple and extended execution use the same plan: a statement with parameters
\* is refused, or sent to the same Burrows, as the simple Query with the bound
\* values in their place, and "0" for a parameter at Parse refuses nothing more.
\* A parameter that the Proxy does not decode, and whose bytes are no number, never
\* leads to another single Burrow (routingParameters, routePortal).
SamePlan ==
    \A st \in Statements(schema, mode) :
      LET sent == Rewritten(st, nextID)
      IN  \/ Inlined(sent) = sent
          \/ Accepted(sent, "extended") = Accepted(Inlined(sent), "simple")
          \/ Undecoded(st) /\ Accepted(sent, "extended") \subseteq {Names}
=============================================================================
