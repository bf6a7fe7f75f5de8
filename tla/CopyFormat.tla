----------------------------- MODULE CopyFormat -----------------------------
(***************************************************************************)
(* internal/copyrouter/copy.go: the framing of COPY data.                  *)
(*                                                                         *)
(* Bytes are tokens: "k1" and "k2" are key (or payload) characters that    *)
(* hash to Burrows 1 and 2, "d" the delimiter, "n" the newline, "q" the    *)
(* CSV quote and escape, "e" the backslash of the text format and "eof"    *)
(* its end-of-data line.  A row has two columns, the first its shard key.  *)
(* In the binary format "h1" "h2" are the envelope's header, "c" a correct *)
(* field count, "l1" and "null" field lengths, and "t" the trailer; a row  *)
(* is its key alone.                                                       *)
(***************************************************************************)
EXTENDS Integers, SequencesExt, FiniteSetsExt

Keys == {"k1", "k2"}

\* router.TargetForTableShardKey, of a key the table's type accepts.
Owner(k) == IF k = "k1" THEN 1 ELSE 2

-----------------------------------------------------------------------------
(* Delimited records *)

\* The position of the first newline that ends a CSV record, 0 if there is none,
\* and whether the scan stops inside quotes.  A quote opens a field only at the
\* field's start.
ScanCSV(s) ==
    LET scan[i \in 1 .. Len(s) + 2, inQuotes \in BOOLEAN, fieldStart \in BOOLEAN] ==
          IF i > Len(s) THEN [end |-> 0, quoted |-> inQuotes]
          ELSE IF inQuotes THEN
                 IF s[i] = "q" /\ i < Len(s) /\ s[i + 1] = "q"
                   THEN scan[i + 2, TRUE, fieldStart]
                   ELSE scan[i + 1, s[i] # "q", fieldStart]
          ELSE IF fieldStart /\ s[i] = "q" THEN scan[i + 1, TRUE, FALSE]
          ELSE IF s[i] = "n" THEN [end |-> i, quoted |-> FALSE]
          ELSE scan[i + 1, FALSE, s[i] = "d"]
    IN  scan[1, FALSE, TRUE]

\* Mutant of DelimitedEnd: a newline ends a CSV record wherever it stands.
NewlineEnd(s, format) ==
    LET ends == {i \in DOMAIN s : s[i] = "n"}
    IN  [end |-> IF ends = {} THEN 0 ELSE Min(ends), quoted |-> FALSE]

DelimitedEnd(s, format) ==
    IF format = "csv" THEN ScanCSV(s)
    ELSE LET ends == {i \in DOMAIN s : s[i] = "n"}
         IN  [end |-> IF ends = {} THEN 0 ELSE Min(ends), quoted |-> FALSE]

Trimmed(record) ==
    IF record # <<>> /\ Last(record) = "n" THEN Front(record) ELSE record

\* The position of the quote that closes a field opened before i; 0 if none does.
CloseQuote(s, i) ==
    LET close[j \in 1 .. Len(s) + 2] ==
          IF j > Len(s) THEN 0
          ELSE IF s[j] # "q" THEN close[j + 1]
          ELSE IF j < Len(s) /\ s[j + 1] = "q" THEN close[j + 2]
          ELSE j
    IN  close[i]

\* parseCSVRecord: the position behind the field that starts at p; 0 if it is malformed.
CSVFieldEnd(s, p) ==
    LET close == CloseQuote(s, p + 1)
        stops == {i \in p .. Len(s) : s[i] = "d"} \cup {Len(s) + 1}
    IN  IF p <= Len(s) /\ s[p] = "q"
          THEN IF close = 0 \/ (close < Len(s) /\ s[close + 1] # "d") THEN 0 ELSE close + 1
          ELSE IF \E i \in p .. Min(stops) - 1 : s[i] = "q" THEN 0 ELSE Min(stops)

\* Backslashes directly before position i.
Backslashes(s, i) == Max({n \in 0 .. i - 1 : \A j \in i - n .. i - 1 : s[j] = "e"})

\* parseTextRecord: delimiters without a backslash of their own separate fields.
TextFieldEnd(s, p) ==
    LET stops == {i \in p .. Len(s) : s[i] = "d" /\ Backslashes(s, i) % 2 = 0} \cup {Len(s) + 1}
        end == Min(stops)
    IN  IF end > p /\ Backslashes(s, end) % 2 = 1 THEN 0 ELSE end

FieldEnd(s, p, format) == IF format = "csv" THEN CSVFieldEnd(s, p) ELSE TextFieldEnd(s, p)

\* targetForRecord: the Burrow of a row of exactly two columns, 0 if the row or its
\* key is refused.
RowTarget(record, format) ==
    Max({0} \cup
        {Owner(k) : k \in
           {k \in Keys : \E first \in 1 .. Len(record) :
              /\ first = FieldEnd(record, 1, format)
              /\ FieldEnd(record, first + 1, format) = Len(record) + 1
              /\ \/ SubSeq(record, 1, first - 1) = <<k>>
                 \/ format = "csv" /\ SubSeq(record, 1, first - 1) = <<"q", k, "q">>}})

-----------------------------------------------------------------------------
(* Stream: routing of COPY FROM STDIN *)

\* A chunk for Burrow 0 is for every Burrow.
Chunk(to, data) == [to |-> to, data |-> data]

\* consumeDelimited: the records of the buffer from position p on, the first of which
\* ends at e, or nowhere if e is p.  st is the stream [buffer, header, trailer, rows,
\* error] with the chunks it has produced; `final` at CopyDone.
ConsumeDelimited(st, format, final) ==
    LET s == st.buffer
        Scan(p) == DelimitedEnd(SubSeq(s, p + 1, Len(s)), format)
        End(p) == p + Scan(p).end
        Stop(p, header, error) == [st EXCEPT !.buffer = SubSeq(s, p + 1, Len(s)),
                                             !.header = header, !.error = error]
        from[p \in 0 .. Len(s), e \in 0 .. Len(s), header \in BOOLEAN] ==
          LET end == IF e = p THEN Len(s) ELSE e
              record == SubSeq(s, p + 1, end)
              target == RowTarget(Trimmed(record), format)
              Go(to, row) == [from[end, End(end), FALSE] EXCEPT !.rows = @ + row,
                                                                !.chunks = <<Chunk(to, record)>> \o @]
          IN  IF p = Len(s) \/ (e = p /\ ~final) THEN Stop(p, header, FALSE)
              ELSE IF e = p /\ Scan(p).quoted THEN Stop(p, header, TRUE)
              ELSE IF header \/ (format = "text" /\ Trimmed(record) = <<"eof">>) THEN Go(0, 0)
              ELSE IF target = 0 THEN Stop(end, header, TRUE)
              ELSE Go(target, 1)
    IN  from[0, End(0), st.header]

\* The tokens of the binary row at the front of s; 0 if it is incomplete, -1 if its
\* field count or a field length is refused.
BinaryRow(s) ==
    IF s[1] # "c" THEN -1
    ELSE IF Len(s) = 1 THEN 0
    ELSE IF s[2] = "null" THEN 2
    ELSE IF s[2] = "huge" THEN -1
    ELSE IF Len(s) = 2 THEN 0 ELSE 3

\* The header, a row or the trailer at the front of the buffer.
BinaryPart(st) ==
    LET s == st.buffer
        n == BinaryRow(s)
        Fail == [st EXCEPT !.error = TRUE]
        Go(to, size, row) == [st EXCEPT !.buffer = SubSeq(s, size + 1, Len(s)),
                                        !.header = FALSE, !.rows = @ + row,
                                        !.trailer = s[1] = "t",
                                        !.chunks = Append(@, Chunk(to, SubSeq(s, 1, size)))]
    IN  IF st.error THEN st
        ELSE IF st.header THEN IF Len(s) < 2 THEN st
                               ELSE IF SubSeq(s, 1, 2) # <<"h1", "h2">> THEN Fail
                               ELSE Go(0, 2, 0)
        ELSE IF s = <<>> THEN st
        ELSE IF st.trailer THEN Fail
        ELSE IF s[1] = "t" THEN Go(0, 1, 0)
        ELSE IF n = 0 THEN st
        ELSE IF n # 3 \/ s[3] \notin Keys THEN Fail
        ELSE Go(Owner(s[3]), 3, 1)

\* consumeBinary
ConsumeBinary(st) ==
    LET after[n \in 0 .. Len(st.buffer)] == IF n = 0 THEN st ELSE BinaryPart(after[n - 1])
    IN  after[Len(st.buffer)]

Consume(st, format, final) ==
    IF format = "binary" THEN ConsumeBinary(st) ELSE ConsumeDelimited(st, format, final)

\* NewStream.  The binary header is always expected.
NewStream(format, header) ==
    [buffer |-> <<>>, header |-> header \/ format = "binary", trailer |-> FALSE, rows |-> 0,
     error |-> FALSE, chunks |-> <<>>]

\* Mutant of Write: a row that ended in an earlier frame is looked for in this frame alone.
ForgetBuffer(st, format, data, maxRow) ==
    Consume([st EXCEPT !.buffer = data, !.chunks = <<>>], format, FALSE)

\* Write: the limit is on what stays buffered.
Write(st, format, data, maxRow) ==
    LET after == Consume([st EXCEPT !.buffer = @ \o data, !.chunks = <<>>], format, FALSE)
    IN  [after EXCEPT !.error = @ \/ Len(after.buffer) > maxRow]

\* Mutant of Finish: the row a missing newline leaves behind is dropped.
DropLastRow(st, format) == [st EXCEPT !.buffer = <<>>, !.chunks = <<>>]

Finish(st, format) ==
    LET after == Consume([st EXCEPT !.chunks = <<>>], format, TRUE)
    IN  [after EXCEPT !.error = \/ @
                                \/ after.header
                                \/ format = "binary" /\ (after.buffer # <<>> \/ ~after.trailer)]

\* Mutant of ChunksFor: what is for every Burrow reaches the first.
HeaderToFirst(b, chunks) == FlattenSeq([i \in DOMAIN chunks |->
                                IF chunks[i].to = b \/ (chunks[i].to = 0 /\ b = 1) THEN chunks[i].data ELSE <<>>])

\* sendCopyChunks: what Burrow b is sent.
ChunksFor(b, chunks) == FlattenSeq([i \in DOMAIN chunks |->
                            IF chunks[i].to \in {0, b} THEN chunks[i].data ELSE <<>>])

-----------------------------------------------------------------------------
(* OutputStream: merging of COPY TO STDOUT *)

\* Mutant of OutputHeader: every Burrow's CSV header is relayed.
EveryHeader(format, header, index) == FALSE

\* NewOutputStream: whose CSV header is removed.
OutputHeader(format, header, index) == format = "csv" /\ header /\ index > 1

NewOutputStream(format, header, index) ==
    [buffer |-> <<>>, header |-> format = "binary" \/ OutputHeader(format, header, index),
     trailer |-> FALSE, error |-> FALSE, out |-> <<>>]

\* The part at the front of the output of Burrow `index` of 1 .. 2.
OutputPart(st, index) ==
    LET s == st.buffer
        n == BinaryRow(s)
        Go(size, relayed) ==
            [st EXCEPT !.buffer = SubSeq(s, size + 1, Len(s)), !.header = FALSE,
                       !.trailer = s[1] = "t",
                       !.out = IF relayed THEN @ \o SubSeq(s, 1, size) ELSE @]
    IN  IF st.error THEN st
        ELSE IF st.header THEN IF Len(s) < 2 THEN st ELSE Go(2, index = 1)
        ELSE IF s = <<>> \/ st.trailer THEN [st EXCEPT !.error = s # <<>>]
        ELSE IF s[1] = "t" THEN Go(1, index = 2)
        ELSE IF n = 0 THEN st
        ELSE IF n = -1 THEN [st EXCEPT !.error = TRUE]
        ELSE Go(n, TRUE)

\* consumeBinaryOutput
ConsumeOutput(st, index) ==
    LET after[n \in 0 .. Len(st.buffer)] == IF n = 0 THEN st ELSE OutputPart(after[n - 1], index)
    IN  after[Len(st.buffer)]

\* OutputStream.Write: the limit is on what stays buffered, of a CSV header only
\* inside quotes.
WriteOutput(st, format, index, data, maxRow) ==
    LET buffer == st.buffer \o data
        scan == DelimitedEnd(buffer, format)
        end == scan.end
        binary == ConsumeOutput([st EXCEPT !.buffer = buffer, !.out = <<>>], index)
    IN  IF format = "binary" THEN [binary EXCEPT !.error = @ \/ Len(binary.buffer) > maxRow]
        ELSE IF ~st.header THEN [st EXCEPT !.out = data]
        ELSE IF end = 0 THEN [st EXCEPT !.buffer = buffer, !.out = <<>>,
                                        !.error = scan.quoted /\ Len(buffer) > maxRow]
        ELSE [st EXCEPT !.header = FALSE, !.buffer = <<>>, !.out = SubSeq(buffer, end + 1, Len(buffer))]

\* OutputStream.Finish: whether the stream ended where it may.
OutputComplete(st, format) ==
    /\ ~st.header
    /\ format = "binary" => st.trailer /\ st.buffer = <<>>

=============================================================================
