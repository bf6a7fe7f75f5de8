----------------------------- MODULE MCRouting -----------------------------
(* Statements on small tables for TLC.                                     *)
EXTENDS Routing

TwoBurrows == <<"b1", "b2">>

AllSchemas ==
    {[types |-> t, generated |-> FALSE] : t \in {<<"numeric">>, <<"text">>, <<"bpchar">>, <<"bigint", "text">>}}
    \cup {[types |-> <<"bigint">>, generated |-> g] : g \in BOOLEAN}

\* What happens without a placement for "s" does not depend on the mode.
AllDeployments ==
    {[placement |-> "catalog", mode |-> m] : m \in {"primary", "replicated"}}
    \cup {[placement |-> p, mode |-> "primary"] : p \in {"modulo", "absent"}}

Zero     == Plain(<<0>>)
MinusNil == Spelling(<<"-">>, <<0>>, <<>>, <<>>, 0)
One      == Plain(<<1>>)
ZeroOne  == Plain(<<0, 1>>)
PlusOne  == Spelling(<<"+">>, <<1>>, <<>>, <<>>, 0)
Padded   == Spelling(<<>>, <<1>>, <<>>, <<>>, 1)
OneNil   == Spelling(<<>>, <<1>>, <<0>>, <<>>, 0)
TenTenth == Spelling(<<>>, <<1, 0>>, <<>>, <<-1>>, 0)
Ten      == Plain(<<1, 0>>)
OneE1    == Spelling(<<>>, <<1>>, <<>>, <<1>>, 0)
Half     == Spelling(<<>>, <<>>, <<5, 0>>, <<>>, 0)
HalfE    == Spelling(<<>>, <<5>>, <<>>, <<-1>>, 0)

\* The expressions a client gives for a column of a type.
Exprs(type) ==
    CASE type = "bigint" ->
           {Text(sp) : sp \in {Zero, MinusNil, ZeroOne, PlusOne}}
           \cup {Number(One), Number(OneNil), Signed("-", Number(One)), NullValue, Call(Number(One)),
                 Param(ZeroOne, "text"), Param(One, "typed"), Param(One, "untyped"), Collated(Text(ZeroOne)), Collated(Number(One)),
                 AsType(Text(OneNil), "numeric"), AsType(AsType(Text(TenTenth), "numeric"), "bigint"),
                 AsType(Text(Half), "numeric")}
      [] type = "numeric" ->
           {Text(sp) : sp \in {MinusNil, One, Ten, TenTenth, Half}}
           \cup {Number(OneE1), Number(HalfE), Signed("-", Number(Half)), NullValue, Call(Number(OneNil)),
                 Param(OneNil, "text"), AsType(Text(ZeroOne), "bigint"), Signed("+", AsType(Param(OneNil, "text"), "numeric"))}
      [] type = "text" ->
           {Text(sp) : sp \in {One, ZeroOne, Padded}}
           \cup {Number(One), Number(OneNil), NullValue, Call(Text(One)), Param(One, "text"), Collated(Text(ZeroOne)), Collated(Param(Padded, "text")),
                 AsType(Text(Padded), "bpchar"), AsType(Param(Padded, "text"), "text"),
                 AsType(AsType(Text(ZeroOne), "bigint"), "text")}
      [] type = "bpchar" ->
           {Text(sp) : sp \in {One, ZeroOne, Padded}}
           \cup {Param(Padded, "text"), Collated(Text(Padded)), AsType(Text(Padded), "text"), AsType(Text(Padded), "bpchar")}

Literal(type) == IF type \in Numbers THEN Number(One) ELSE Text(One)
Respelled(type) == IF type = "bigint" THEN Text(ZeroOne) ELSE IF type = "numeric" THEN Text(OneNil) ELSE Text(ZeroOne)

\* Predicates over the key.
Keyed1(type) == {Eq(1, e) : e \in Exprs(type)}
Keyed2 ==
    {And(<<Eq(1, a), Eq(2, b)>>) : a \in {Number(One), Text(ZeroOne)}, b \in {Text(One), Param(One, "text"), Text(Padded)}}
    \cup {RowEq(<<2, 1>>, <<Text(One), Text(ZeroOne)>>), Eq(1, Number(One)), Eq(2, Text(One))}

Others(type) ==
    LET a == Literal(type) b == Respelled(type)
    IN  {NoWhere, And(<<Eq(1, a), Eq(0, Number(Zero))>>), And(<<Eq(1, a), Eq(1, b)>>),
         And(<<Eq(1, a), Or(<<Eq(0, Number(One)), Eq(1, b)>>)>>), And(<<Eq(1, b), Other(0, Number(One))>>),
         Or(<<Eq(1, a), Eq(0, Number(Zero))>>), Not(Eq(1, a)), Other(1, a)}

Predicates(types) == Others(types[1]) \cup IF Len(types) = 2 THEN Keyed2 ELSE Keyed1(types[1])

Inserts(types) ==
    LET a == Literal(types[1]) b == Respelled(types[1])
    IN  {Insert("s", <<0, 1>>, <<<<a, b>>, <<a, Call(a)>>>>), Insert("s", <<>>, <<<<a>>>>),
         Insert("s", <<0>>, <<<<Number(One)>>>>), Insert("s", <<0, 1>>, <<<<Number(One), Default>>>>),
         [Insert("s", <<1>>, <<<<a>>>>) EXCEPT !.conflict = TRUE],
         [Insert("s", <<1>>, <<<<a>>>>) EXCEPT !.with = "read"],
         [Insert("s", <<1>>, <<<<a>>>>) EXCEPT !.multi = TRUE],
         [Insert("s", <<1>>, <<<<b>>>>) EXCEPT !.explain = "analyze"],
         [Insert("s", <<1>>, <<<<b>>>>) EXCEPT !.explain = "explain"],
         [Insert("s", <<1>>, <<>>) EXCEPT !.from = <<"u">>]}
        \cup IF Len(types) = 2
             THEN {Insert("s", <<2, 1>>, <<<<e, d>>>>) : e \in {Text(One), Text(Padded)}, d \in {Number(One), Text(ZeroOne)}}
             ELSE {Insert("s", <<1>>, <<<<e>>>>) : e \in Exprs(types[1])}

Reads(types) ==
    LET p == Eq(1, Literal(types[1]))
    IN  {Select("s", shape, q) : shape \in {"rows", "count", "distinct"}, q \in Predicates(types)}
        \cup {[Select("s", "rows", p) EXCEPT !.from = <<"u">>], [Select("u", "rows", NoWhere) EXCEPT !.from = <<"s">>],
              [Select("s", "rows", p) EXCEPT !.with = "read"], [Select("u", "rows", NoWhere) EXCEPT !.with = "delete"],
              [Select("none", "rows", NoWhere) EXCEPT !.with = "read", !.over = "u"], Select("u", "aggregate", NoWhere),
              Select("s", "union", p), Select("none", "rows", NoWhere), Select("u", "count", NoWhere),
              Select("u", "union", NoWhere), Select("u", "rows", Eq(1, Number(One))),
              [Select("s", "count", NoWhere) EXCEPT !.explain = "analyze"]}

Changes(types) ==
    LET a == Literal(types[1]) p == Eq(1, a)
    IN  {Update("s", <<0, Number(One)>>, q) : q \in Predicates(types)}
        \cup {Delete("s", q) : q \in Predicates(types)}
        \cup {Update("s", <<1, Respelled(types[1])>>, p), [Update("s", <<0, Number(One)>>, p) EXCEPT !.from = <<"u">>],
              [Delete("s", p) EXCEPT !.from = <<"u">>], [Delete("s", p) EXCEPT !.with = "read"],
              [Statement("merge", "s") EXCEPT !.from = <<"u">>, !.set = <<0, Number(One)>>],
              [Delete("s", p) EXCEPT !.explain = "analyze"], [Delete("s", NoWhere) EXCEPT !.explain = "analyze"],
              Statement("truncate", "s")}

Unsharded ==
    {Insert("u", <<0, 1>>, <<<<Number(One), Number(One)>>>>), Update("u", <<0, Number(One)>>, NoWhere),
     Delete("u", Eq(1, Text(ZeroOne))), [Statement("merge", "u") EXCEPT !.from = <<"u">>, !.set = <<0, Number(One)>>]}

\* WITH d AS (DELETE FROM u RETURNING ...) SELECT ...
DeletingRead == [Select("none", "rows", NoWhere) EXCEPT !.with = "delete", !.over = "u"]

AllStatements(sch, m) ==
    Inserts(sch.types) \cup Reads(sch.types) \cup Changes(sch.types) \cup Unsharded
    \cup IF m = "primary" THEN {DeletingRead} ELSE {}

\* What the code takes for something else: a read that deletes from one copy of "u",
\* an aggregate it has no name for, and an integer whose bytes are another's digits.
Mistaken(sch, m) ==
    Unsharded \cup Inserts(sch.types) \cup
    CASE m = "replicated"           -> {DeletingRead}
      [] sch.types = <<"numeric">>  -> {Select("s", "aggregate", NoWhere)}
      [] sch.types = <<"bigint">>   -> {Insert("s", <<1>>, <<<<[Param(One, "untyped") EXCEPT !.bytes = Zero]>>>>)}
      [] OTHER                      -> {}
=============================================================================
