--------------------------- MODULE MCCopySession ---------------------------
EXTENDS CopySession

\* Well-formed and malformed rows, the last row's newline included or not.
CSVRows == { <<"k1", "d", "n">>, <<"q", "k2", "q", "d", "k1", "n">>,
             <<"k1", "d", "q", "n", "q", "n">>, <<"k2", "d", "q", "d", "q", "q", "q", "n">>,
             <<"k2", "d">>, <<"k1", "n">>, <<"k1", "d", "q", "n">>, <<"d", "k1", "q", "n">> }

TextRows == { <<"k1", "d", "n">>, <<"k2", "d", "e", "d", "n">>, <<"k2", "d", "e", "e", "n">>,
              <<"k1", "d", "e", "n">>, <<"d", "k1", "n">>, <<"eof", "n">> }

BinaryRows == { <<"c", "l1", "k1">>, <<"c", "l1", "k2">>, <<"c", "null">>, <<"c", "l1">>,
                <<"c", "huge">>, <<"l1">> }

Upto2(S) == {<<>>} \cup S \cup {r \o s : r, s \in S}
Upto3(S) == Upto2(S) \cup {r \o s : r \in S, s \in Upto2(S)}

BinaryData == {<<"h1", "h2">> \o d \o t : d \in Upto2(BinaryRows), t \in {<<>>, <<"t">>, <<"t", "c">>}}
              \cup {<<>>, <<"h1">>, <<"h2", "h1", "t">>}

Req(kind, format, header, data, exports, transaction) ==
    [kind |-> kind, option |-> "plain", format |-> format, header |-> header, query |-> FALSE, where |-> FALSE, data |-> data,
     exports |-> exports, transaction |-> transaction]

None == <<<<>>, <<>>>>

\* With a WHERE clause.
Filtered(r) == [r EXCEPT !.where = TRUE]

\* An unquoted field of a CSV header holds no quote.
FromRequests ==
    {Req("sharded", "csv", FALSE, d, None, tx) : d \in Upto2(CSVRows), tx \in BOOLEAN}
    \cup {Req("sharded", "csv", FALSE, d, None, FALSE) : d \in Upto3(CSVRows)}
    \cup {Req("sharded", "csv", TRUE, d, None, FALSE) :
            d \in {<<>>} \cup {h \o d : h \in {<<"k1", "n">>, <<"q", "n", "q", "d", "n">>}, d \in CSVRows}}
    \cup {Req("sharded", "text", FALSE, d, None, FALSE) : d \in Upto2(TextRows)}
    \cup {Req("sharded", "text", TRUE, <<"d", "n">> \o d, None, FALSE) : d \in TextRows}
    \cup {Req("sharded", "binary", FALSE, d, None, FALSE) : d \in BinaryData}
    \cup {Filtered(Req(kind, "csv", FALSE, r \o s, None, tx)) :
            kind \in {"sharded", "replicated"}, r, s \in {<<"k1", "d", "n">>, <<"k2", "d", "n">>}, tx \in BOOLEAN}
    \cup {Req("replicated", "csv", TRUE, <<"d", "n">> \o d, None, tx) : d \in CSVRows, tx \in BOOLEAN}

CSVOutput(r) == <<"q", "n", "q", "d", "n">> \o r
BinaryOutput(r) == <<"h1", "h2">> \o r \o <<"t">>

\* A quoted header longer than the row limit.
LongHeader == <<"q", "n", "n", "n", "n", "n", "n", "n", "q", "n">>

OutRequests ==
    {Req("out", "csv", TRUE, <<>>, <<CSVOutput(r), CSVOutput(s)>>, FALSE) :
        r, s \in {<<>>, <<"k1", "d", "n">>, <<"k1", "d", "q", "n", "q", "n">>}}
    \cup {Req("out", "csv", TRUE, <<>>, <<LongHeader, LongHeader>>, tx) : tx \in BOOLEAN}
    \cup {Req("out", "binary", FALSE, <<>>, <<BinaryOutput(r), BinaryOutput(s)>>, tx) :
        r, s \in {<<>>, <<"c", "l1", "k1">>, <<"c", "null", "c", "l1", "k2">>}, tx \in BOOLEAN}
    \cup {Req("out", "text", FALSE, <<>>, <<<<"k1", "d", "n">>, <<"k2", "d", "n">>>>, FALSE)}

\* Options and file names, on a table of each kind.
OtherRequests ==
    {[Req(kind, "csv", FALSE, <<"k1", "d", "n">>, <<<<"k1", "d", "n">>, <<>>>>, tx) EXCEPT !.option = option] :
        kind \in {"sharded", "replicated", "out", "file"}, option \in {"plain", "unsupported", "invalid"},
        tx \in BOOLEAN}

AllRequests == FromRequests \cup OutRequests \cup OtherRequests

\* A COPY of a query, whose options the plan does not know.
QueryRequests ==
    {[Req("out", "binary", FALSE, <<>>, <<BinaryOutput(<<>>), BinaryOutput(<<>>)>>, FALSE) EXCEPT !.query = TRUE]}
=============================================================================
