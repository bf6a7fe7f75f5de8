-------------------------- MODULE MCSessionCatalog --------------------------
(* Statements on three names for TLC: enough for a table, its index and    *)
(* the name either is renamed to.                                          *)
EXTENDS SessionCatalog, TLC

Plain == {Rel("plain", n) : n \in Names}
Qualified == {Rel(schema, n) : schema \in {"pg_temp", "public"}, n \in Names}

Creates ==
    {Create(rel, temp, FALSE) : rel \in Plain, temp \in BOOLEAN}
    \cup {Create(rel, rel.schema = "pg_temp", FALSE) : rel \in Qualified}
    \cup {Create(Rel("pg_temp", n), FALSE, FALSE) : n \in Names}
    \cup {Create(rel, TRUE, TRUE) : rel \in Plain}
    \cup {[Create(rel, temp, temp) EXCEPT !.guard = TRUE] : rel \in Plain, temp \in BOOLEAN}
    \cup {[Create(rel, FALSE, FALSE) EXCEPT !.as = TRUE] : rel \in Plain}

Drops ==
    {Drop("table", {rel}, cascade) : rel \in Plain, cascade \in BOOLEAN}
    \cup {Drop(what, {rel}, FALSE) : what \in {"index", "view"}, rel \in Plain}
    \cup {Drop("table", {rel}, FALSE) : rel \in Qualified}
    \cup {Drop("table", {a, b}, FALSE) : <<a, b>> \in {p \in Plain \X Plain : p[1] # p[2]}}

Others ==
    UNION {{Index(Rel(schema, n), m) : schema \in {"plain", "pg_temp"}, m \in Names \ {n}} : n \in Names}
    \cup UNION {{[Index(Rel("plain", n), m) EXCEPT !.again = TRUE] : m \in Names \ {n}} : n \in Names}
    \cup UNION {{Rename(Rel(schema, n), m) : schema \in {"plain", "public"}, m \in Names \ {n}} : n \in Names}
    \cup UNION {{View(Rel("plain", n), temp, Rel("plain", m)) : temp \in BOOLEAN, m \in Names \ {n}} : n \in Names}
    \cup {Alter(rel) : rel \in Plain}
    \cup {Discard}

\* Batches whose second statement depends on what the first did to the same name.
Pairs ==
    UNION {{<<a, b>> : a \in {Create(rel, TRUE, TRUE), Drop("table", {rel}, FALSE), Discard},
                       b \in {Create(rel, temp, FALSE) : temp \in BOOLEAN} \cup
                             {Drop("table", {rel}, FALSE), Alter(rel)}} : rel \in Plain}
    \cup UNION {{<<Create(Rel("plain", n), TRUE, TRUE), Rename(Rel("plain", n), m)>>,
                 <<Create(Rel("plain", n), TRUE, TRUE), Index(Rel("plain", n), m)>>,
                 <<Index(Rel("plain", n), m), Drop("table", {Rel("plain", n)}, FALSE)>>} :
                <<n, m>> \in {p \in Names \X Names : p[1] # p[2]}}

AllBatches == {<<st>> : st \in Creates \cup Drops \cup Others} \cup Pairs

Symmetry == Permutations(Names)
=============================================================================
