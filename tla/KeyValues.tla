----------------------------- MODULE KeyValues -----------------------------
(***************************************************************************)
(* The values of shard keys, as a client spells them, as the router hashes *)
(* them (canonicalScalar and canonicalDecimal of router.go) and as         *)
(* PostgreSQL understands them.  A spelling is the text of a literal: its  *)
(* signs, the digits before and after the point, an exponent (<<>> when    *)
(* there is none) and the blanks that follow.  An operator that can fail   *)
(* returns the set of its results: empty, or with one member.              *)
(***************************************************************************)
EXTENDS Integers, Sequences, SequencesExt

Digits == 0 .. 9

Spelling(sign, whole, fraction, exp, pad) ==
    [sign |-> sign, whole |-> whole, fraction |-> fraction, exp |-> exp, pad |-> pad]

Plain(whole) == Spelling(<<>>, whole, <<>>, <<>>, 0)

Numbers == {"bigint", "numeric"}
Strings == {"text", "bpchar"}
-----------------------------------------------------------------------------
(* The router.                                                             *)

\* strings.TrimLeft(digits, "0"), and the run of zeros at the end.
TrimLeft(digits) ==
    LET kept == {i \in DOMAIN digits : \E j \in 1 .. i : digits[j] # 0}
    IN  SubSeq(digits, Len(digits) - Cardinality(kept) + 1, Len(digits))

TrailingZeros(digits) ==
    Cardinality({i \in DOMAIN digits : \A j \in i .. Len(digits) : digits[j] = 0})

Zeros(n) == [i \in 1 .. n |-> 0]

Negative(sp) == IF sp.sign = <<"-">> THEN <<"-">> ELSE <<>>

\* big.Int's SetString and String.
CanonicalInteger(sp) ==
    LET digits == TrimLeft(sp.whole)
    IN  IF Len(sp.sign) > 1 \/ sp.fraction # <<>> \/ sp.exp # <<>> THEN {}
        ELSE IF digits = <<>> THEN {Plain(<<0>>)}
        ELSE {Spelling(Negative(sp), digits, <<>>, <<>>, 0)}

\* The digits with the point `scale' places from their end.
PlacePoint(sign, digits, scale) ==
    CASE scale <= 0           -> Spelling(sign, digits \o Zeros(-scale), <<>>, <<>>, 0)
      [] scale >= Len(digits) -> Spelling(sign, <<0>>, Zeros(scale - Len(digits)) \o digits, <<>>, 0)
      [] OTHER                -> Spelling(sign, SubSeq(digits, 1, Len(digits) - scale),
                                          SubSeq(digits, Len(digits) - scale + 1, Len(digits)), <<>>, 0)

Exponent(sp) == IF sp.exp = <<>> THEN 0 ELSE sp.exp[1]

\* The number digits / 10^scale; zeros at the end of its fraction are dropped.
Decimal(sp, digits, scale) ==
    IF Len(sp.sign) > 1 THEN {}
    ELSE IF digits = <<>> THEN {Plain(<<0>>)}
    ELSE {PlacePoint(Negative(sp), SubSeq(digits, 1, Len(digits) - drop), scale - drop) :
          drop \in {IF scale <= 0 THEN 0 ELSE Min({TrailingZeros(digits), scale})}}

\* Mutant: the scale forgets the exponent.
CanonicalDecimalNoExponent(sp) ==
    Decimal(sp, TrimLeft(sp.whole \o sp.fraction), Len(sp.fraction))

\* Decimal digits and a scale without superfluous zeros on either side.
CanonicalDecimal(sp) ==
    Decimal(sp, TrimLeft(sp.whole \o sp.fraction), Len(sp.fraction) - Exponent(sp))

\* The text that is hashed for a value of a type; "" is an unknown type.
CanonicalScalar(sp, type) ==
    CASE type = "bigint"       -> CanonicalInteger(sp)
      [] type = "numeric"      -> CanonicalDecimal(sp)
      [] type \in {"text", ""} -> {sp}
      [] type = "bpchar"       -> {[sp EXCEPT !.pad = 0]}
      [] OTHER                 -> {}
-----------------------------------------------------------------------------
(* PostgreSQL.  A value has a type; a number is n / Unit and displays      *)
(* `scale' digits after the point.  An "unknown" is a literal in quotes or *)
(* a parameter before its type is settled.                                 *)

Unit == 10000

Value(type, n, scale, sp) == [type |-> type, n |-> n, scale |-> scale, sp |-> sp]

Null == Value("null", 0, 0, Plain(<<>>))

FromDigits(digits) == FoldLeft(LAMBDA n, d : 10 * n + d, 0, digits)

\* How many units the spelling denotes (its exponents stay within Unit).
Amount(sp) ==
    (IF sp.sign = <<"-">> THEN -1 ELSE 1)
    * FromDigits(sp.whole \o sp.fraction) * 10 ^ (4 - Len(sp.fraction) + Exponent(sp))

DisplayScale(sp) == Max({Len(sp.fraction) - Exponent(sp), 0})

\* The input functions of the types.
Input(sp, type) ==
    IF type \in Strings
    THEN {Value(type, 0, 0, IF type = "bpchar" THEN [sp EXCEPT !.pad = 0] ELSE sp)}
    ELSE IF Len(sp.sign) > 1 \/ (type = "bigint" /\ (sp.fraction # <<>> \/ sp.exp # <<>>)) THEN {}
    ELSE {Value(type, Amount(sp), DisplayScale(sp), Plain(<<>>))}

\* The output function of a number.
Size(n) == IF n < 0 THEN -n ELSE n
Width(whole) == CHOOSE k \in 1 .. 9 : whole < 10 ^ k /\ (k = 1 \/ whole >= 10 ^ (k - 1))
DigitsOf(size, width, first, count) ==
    [i \in 1 .. count |-> (size \div 10 ^ (4 + width - first - i)) % 10]
Written(v, size, width) ==
    Spelling(IF v.n < 0 THEN <<"-">> ELSE <<>>,
             DigitsOf(size, width, 0, width), DigitsOf(size, width, width, v.scale), <<>>, 0)

Output(v) == Written(v, Size(v.n), Width(Size(v.n) \div Unit))

Round(n) == (IF n < 0 THEN -Unit ELSE Unit) * ((Size(n) + Unit \div 2) \div Unit)

\* v::type
Cast(v, type) ==
    CASE v.type = "null"    -> {v}
      [] v.type = "unknown" -> Input(v.sp, type)
      [] v.type \in Numbers /\ type = "bigint"   -> {Value(type, Round(v.n), 0, Plain(<<>>))}
      [] v.type \in Numbers /\ type = "numeric"  -> {Value(type, v.n, v.scale, Plain(<<>>))}
      [] v.type \in Numbers /\ type \in Strings  -> {Value(type, 0, 0, Output(v))}
      [] v.type \in Strings -> Input(v.sp, type)

\* What INSERT stores in a column of the type: a string is no number.
Assign(v, type) ==
    IF v.type = "null" \/ (v.type \in Strings /\ type \in Numbers) THEN {} ELSE Cast(v, type)

\* The operator = between a column of the type and v: does it exist, is v valid?
Comparable(type, v) ==
    \/ v.type = "null"
    \/ v.type = "unknown" /\ Input(v.sp, type) # {}
    \/ \E family \in {Numbers, Strings} : {type, v.type} \subseteq family

\* Two values of one family are equal.
Equal(v, w) == v.n = w.n /\ v.sp = w.sp
=============================================================================
