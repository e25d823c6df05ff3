--------------------------- MODULE TypeConversion ---------------------------
(***************************************************************************)
(* How a value of a Postgres column becomes a DuckDB value, and a DuckDB   *)
(* value a Postgres value: numerics, dates, timestamps, times with a zone  *)
(* and uuids, with the widths of the integers that hold them.              *)
(*                                                                         *)
(* Values are records with a kind.  Numerics and dates are the real ones,  *)
(* as far as 32 bits hold them; the timestamps' 64 bits and a uuid's       *)
(* length are constants, to be given small values of the same order.       *)
(***************************************************************************)
EXTENDS Integers, Sequences, FiniteSetsExt, SequencesExt

CONSTANTS
  INT64_MAX,
  DUCK_TIMESTAMP_OFFSET,
  MIN_TIMESTAMP_VALUE,
  MAX_TIMESTAMP_VALUE,
  Unit        \* microseconds in a unit of TIMESTAMP_S and TIMESTAMP_MS, and
              \* nanoseconds in a microsecond

(* A value or a type that the conversion refuses with an error.            *)
Refused == [kind |-> "refused"]

(* Signed overflow: whatever the build makes of it, not the value.         *)
Overflow == [kind |-> "overflow"]

---------------------------------------------------------------------------
(* Postgres numerics: digits in base NBASE, the first of them of the given *)
(* weight, without zeros at either end.                                    *)

NBASE == 10000
DEC_DIGITS == 4

make_result(var) ==
  LET used == {i \in DOMAIN var.digits : var.digits[i] # 0}
  IN IF used = {}
     THEN [var EXCEPT !.sign = 1, !.weight = 0, !.digits = <<>>]
     ELSE [var EXCEPT !.weight = @ - (Min(used) - 1),
                      !.digits = SubSeq(@, Min(used), Max(used))]

(* The reference: n / 10^scale, from the decimal digits of n.              *)
AbsOf(n) == IF n < 0 THEN -n ELSE n
SignOf(n) == IF n < 0 THEN -1 ELSE 1
DecimalDigit(n, p) == IF p \in 0..8 THEN (AbsOf(n) \div 10^p) % 10 ELSE 0
BaseDigit(n, scale, w) ==
  LET D(k) == DecimalDigit(n, DEC_DIGITS * w + k + scale)
  IN D(0) + 10 * D(1) + 100 * D(2) + 1000 * D(3)
Numeric(n, width, scale) ==
  make_result([kind |-> "numeric", width |-> width, dscale |-> scale,
               sign |-> SignOf(n), weight |-> 2,
               digits |-> [i \in 1..6 |-> BaseDigit(n, scale, 3 - i)]])

(* NUMERIC's type modifier and the DECIMAL it stands for.                  *)
VARHDRSZ == 4
make_numeric_typmod(precision, scale) ==
  precision * 65536 + (scale % 2048) + VARHDRSZ
numeric_typmod_precision(typmod) == ((typmod - VARHDRSZ) \div 65536) % 65536
numeric_typmod_scale(typmod) ==
  LET s == (typmod - VARHDRSZ) % 2048 IN IF s >= 1024 THEN s - 2048 ELSE s
NumericType(typmod) ==
  LET precision == numeric_typmod_precision(typmod)
      scale == numeric_typmod_scale(typmod)
  IN IF \/ typmod = -1 \/ precision \notin 1..38
        \/ scale \notin 0..38 \/ scale > precision
     THEN Refused
     ELSE [width |-> precision, scale |-> scale]

(* The integer T that holds a DECIMAL of that width; 64 and 128 bits are   *)
(* beyond TLC's integers.                                                  *)
TypeMax(width) == IF width <= 4 THEN 32767 ELSE 2147483647
AsT(width, x) == IF x > TypeMax(width) THEN ((x + 32768) % 65536) - 32768
                 ELSE x

(* ConvertDecimal, from a numeric to the integer n.                        *)
IntegralPart(num) ==
  LET Digit(i) == IF i <= Len(num.digits) THEN num.digits[i] ELSE 0
  IN AsT(num.width, 10^num.dscale *
       FoldLeft(LAMBDA n, i : AsT(num.width, n * NBASE) + Digit(i), 0,
                [i \in 1..(num.weight + 1) |-> i]))

FractionalPart(num) ==
  LET ndigits == Len(num.digits)
      power == (ndigits - num.weight - 1) * DEC_DIGITS
      correction == power - num.dscale
      Compensated(x) == IF correction >= 0 THEN x \div 10^correction
                        ELSE AsT(num.width, x * 10^(-correction))
      first == Max({0, num.weight + 1}) + 1
      leading == FoldLeft(LAMBDA n, d : n * NBASE + d, 0,
                          SubSeq(num.digits, first, ndigits - 1))
  IN IF ndigits <= num.weight + 1 THEN 0
     ELSE AsT(num.width, leading * Compensated(NBASE))
          + Compensated(num.digits[ndigits])

ConvertDecimal(num) ==
  IF num.digits = <<>> THEN 0
  ELSE num.sign * (IntegralPart(num) + FractionalPart(num))

(* ConvertNumeric, back to a numeric.  The fraction is moved to the left   *)
(* of its last digit in T, where it may not fit.                           *)
BaseDigits(n, count) ==
  [i \in 1..count |-> (n \div NBASE^(count - i)) % NBASE]

ConvertNumeric(n, width, scale) ==
  LET integer_part == AbsOf(n) \div 10^scale
      fractional_part == AbsOf(n) % 10^scale
      integral_ndigits == Min({k \in 0..3 : k = 3 \/ integer_part < NBASE^k})
      fractional_ndigits == (scale + DEC_DIGITS - 1) \div DEC_DIGITS
      correction == fractional_ndigits * DEC_DIGITS - scale
  IN IF fractional_part > TypeMax(width) \div 10^correction
     THEN Overflow
     ELSE make_result(
            [kind |-> "numeric", width |-> width, dscale |-> scale,
             sign |-> SignOf(n), weight |-> integral_ndigits - 1,
             digits |-> BaseDigits(integer_part, integral_ndigits) \o
                        BaseDigits(fractional_part * 10^correction,
                                   fractional_ndigits)])

---------------------------------------------------------------------------
(* Dates: days since 2000 in PostgreSQL, since 1970 in DuckDB.             *)

DUCK_DATE_OFFSET == 10957
DATEVAL_NOBEGIN == -2147483647 - 1
DATEVAL_NOEND == 2147483647
DateInfinity == 2147483647
DateNinfinity == -2147483647
PG_MIN_DATE_VALUE == -2440588
PG_MAX_DATE_VALUE == 2145042905

ValidDate(d) == \/ d \in {DateInfinity, DateNinfinity}
                \/ d \in PG_MIN_DATE_VALUE..PG_MAX_DATE_VALUE

AppendDate(d) ==
  CASE d = DATEVAL_NOBEGIN -> DateNinfinity
    [] d = DATEVAL_NOEND -> DateInfinity
    [] OTHER -> d + DUCK_DATE_OFFSET

ConvertDateDatum(d) ==
  CASE ~ValidDate(d) -> Refused
    [] d = DateNinfinity -> [kind |-> "date", n |-> DATEVAL_NOBEGIN]
    [] d = DateInfinity -> [kind |-> "date", n |-> DATEVAL_NOEND]
    [] OTHER -> [kind |-> "date", n |-> d - DUCK_DATE_OFFSET]

---------------------------------------------------------------------------
(* Timestamps, with and without a zone: microseconds.                      *)

DT_NOBEGIN == -INT64_MAX - 1
DT_NOEND == INT64_MAX
Infinity == INT64_MAX
Ninfinity == -INT64_MAX
Wrap64(x) ==
  ((x + INT64_MAX + 1) % (2 * (INT64_MAX + 1))) - (INT64_MAX + 1)

ValidTimestamp(x) == MIN_TIMESTAMP_VALUE <= x /\ x < MAX_TIMESTAMP_VALUE

AppendTimestamp(n) ==
  LET x == Wrap64(n + DUCK_TIMESTAMP_OFFSET)
  IN CASE n = DT_NOBEGIN -> [kind |-> "timestamp", n |-> Ninfinity]
       [] n = DT_NOEND -> [kind |-> "timestamp", n |-> Infinity]
       [] OTHER -> IF ValidTimestamp(x) THEN [kind |-> "timestamp", n |-> x]
                   ELSE Refused

(* DuckDB's cast to a TIMESTAMP_S, _MS or _NS, and the way back.           *)
Truncated(n, d) == IF n < 0 THEN -((-n) \div d) ELSE n \div d
CastFits(unit, n) ==
  unit = "nanos" /\ n \notin {Infinity, Ninfinity}
    => AbsOf(n) < INT64_MAX \div Unit
CastTo(unit, n) ==
  CASE unit = "micros" \/ n \in {Infinity, Ninfinity} -> n
    [] unit = "coarse" -> Truncated(n, Unit)
    [] unit = "nanos" -> n * Unit

ConvertTimestampDatum(unit, n) ==
  LET x == CASE unit = "coarse" -> Wrap64(n * Unit)
             [] unit = "nanos" -> Truncated(n, Unit)
             [] OTHER -> n
  IN CASE n = Ninfinity -> [kind |-> "timestamp", n |-> DT_NOBEGIN]
       [] n = Infinity -> [kind |-> "timestamp", n |-> DT_NOEND]
       [] OTHER -> IF ValidTimestamp(x)
                   THEN [kind |-> "timestamp",
                         n |-> x - DUCK_TIMESTAMP_OFFSET]
                   ELSE Refused

---------------------------------------------------------------------------
(* Uuids: bytes in PostgreSQL, a signed integer in DuckDB whose last byte  *)
(* in memory is the first of the uuid, with its highest bit flipped.       *)

Flipped(byte) == (byte + 128) % 256

(* Mutant: the highest bit is left as it is.                               *)
DatumGetUUIDUnflipped(bytes) == Reverse(bytes)

DatumGetUUID(bytes) == Reverse([bytes EXCEPT ![1] = Flipped(@)])
ConvertUUIDDatum(bytes) == [Reverse(bytes) EXCEPT ![1] = Flipped(@)]

(* The integer that the bytes in memory are.                               *)
AsSigned(bytes) ==
  LET n == FoldRight(LAMBDA byte, high : byte + 256 * high, bytes, 0)
  IN IF bytes[Len(bytes)] >= 128 THEN n - 256^Len(bytes) ELSE n

---------------------------------------------------------------------------
(* GetPostgresToDuckValueFn and ConvertDuckToPostgresValue: by the type.   *)

PgToDuck(v) ==
  CASE v.kind = "numeric" ->
         LET type == NumericType(make_numeric_typmod(v.width, v.dscale))
         IN IF type = Refused THEN Refused
            ELSE [kind |-> "decimal", type |-> type, n |-> ConvertDecimal(v)]
    [] v.kind = "date" -> [kind |-> "date", n |-> AppendDate(v.n)]
    [] v.kind = "timestamp" -> AppendTimestamp(v.n)
    [] v.kind = "timetz" -> [v EXCEPT !.zone = -@]
    [] v.kind = "uuid" -> [v EXCEPT !.bytes = DatumGetUUID(@)]
    [] OTHER -> v

DuckToPg(v, unit) ==
  CASE v.kind = "decimal" -> ConvertNumeric(v.n, v.type.width, v.type.scale)
    [] v.kind = "date" -> ConvertDateDatum(v.n)
    [] v.kind = "timestamp" ->
         IF CastFits(unit, v.n)
         THEN ConvertTimestampDatum(unit, CastTo(unit, v.n)) ELSE Refused
    [] v.kind = "timetz" -> [v EXCEPT !.zone = -@]
    [] v.kind = "uuid" -> [v EXCEPT !.bytes = ConvertUUIDDatum(@)]
    [] OTHER -> v

---------------------------------------------------------------------------
(* What the two systems compare.  A uuid is compared byte by byte in       *)
(* PostgreSQL, a numeric by its sign, weight and digits.                   *)

LexLess(s, t) ==
  \E i \in 1..Max({Len(s), Len(t)}) :
    /\ \A j \in 1..(i - 1) : j \in DOMAIN s /\ j \in DOMAIN t /\ s[j] = t[j]
    /\ i \in DOMAIN t /\ (i \in DOMAIN s => s[i] < t[i])

NumericMagnitudeLess(a, b) ==
  /\ b.digits # <<>>
  /\ \/ a.digits = <<>> \/ a.weight < b.weight
     \/ a.weight = b.weight /\ LexLess(a.digits, b.digits)

PgLess(a, b) ==
  CASE a.kind = "numeric" ->
         IF a.sign # b.sign THEN a.sign < b.sign
         ELSE IF a.sign = 1 THEN NumericMagnitudeLess(a, b)
         ELSE NumericMagnitudeLess(b, a)
    [] a.kind = "uuid" -> LexLess(a.bytes, b.bytes)
    [] OTHER -> a.n < b.n

DuckLess(a, b) ==
  IF a.kind = "uuid" THEN AsSigned(a.bytes) < AsSigned(b.bytes)
  ELSE a.n < b.n
=============================================================================
