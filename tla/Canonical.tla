------------------------------ MODULE Canonical ------------------------------
(***************************************************************************)
(* Money as text, and data as bytes: canonical.ts, the amounts of cycle.ts *)
(* and ageing.ts, and the content hash.  An amount travels as decimal text *)
(* and is added up in whole paise; a payload is hashed to see whether it   *)
(* changed, so the same figures must come out as the same bytes however    *)
(* Tally wrote and ordered them, and other figures as others.              *)
(*                                                                         *)
(* An amount as text is [sign, whole, frac, other]: its digits before and  *)
(* after the point, and whether anything else is in it.                    *)
(***************************************************************************)
EXTENDS Integers, Sequences, FiniteSets, SequencesExt, TLC

CONSTANTS
  Thrown,    \* the outcome of a call that throws
  MANTISSA,  \* bits of the significand of a number: 53
  FIELDS     \* names of fields, in the order of their code units

MAX_SAFE_INTEGER == 2 ^ MANTISSA - 1

Magn(n) == IF n < 0 THEN -n ELSE n

Number(digits) == FoldLeft(LAMBDA n, d : 10 * n + d, 0, digits)

Digits[n \in Nat] == IF n < 10 THEN <<n>> ELSE Append(Digits[n \div 10], n % 10)

PadEnd(digits) == digits \o [i \in 1 .. 2 - Len(digits) |-> 0]

PadStart(digits) == [i \in 1 .. 3 - Len(digits) |-> 0] \o digits

Signed(paise, whole, frac) ==
  [sign |-> IF paise < 0 THEN "-" ELSE "", whole |-> whole, frac |-> frac, other |-> FALSE]

Or(x, Then(_)) == IF x = Thrown THEN Thrown ELSE Then(x)

-----------------------------------------------------------------------------
(* Whole paise *)

\* Text that is no amount of two decimals, or too large to be exact, throws.
parseAmountToPaise(text) ==
  LET paise == Number(text.whole \o PadEnd(text.frac))
  IN  CASE text.other \/ text.whole = <<>> \/ Len(text.frac) > 2 -> Thrown
        [] paise > MAX_SAFE_INTEGER -> Thrown
        [] OTHER -> IF text.sign = "-" THEN -paise ELSE paise

paiseToDecimalString(paise) ==
  LET frac == Magn(paise) % 100
  IN  Signed(paise, Digits[Magn(paise) \div 100], <<frac \div 10, frac % 10>>)

canonicalAmountFromPaise(paise) ==
  LET digits == PadStart(Digits[Magn(paise)])
      point == Len(digits) - 2
  IN  Signed(paise, SubSeq(digits, 1, point), SubSeq(digits, point + 1, Len(digits)))

\* A total that is no longer exact throws, and so does a sum one part of which did.
sumPaise(paise) ==
  LET Plus(total, p) ==
        IF total = Thrown \/ p = Thrown THEN Thrown
        ELSE IF Magn(total + p) > MAX_SAFE_INTEGER THEN Thrown ELSE total + p
  IN  FoldLeft(Plus, 0, paise)

-----------------------------------------------------------------------------
(* Rupees: floating point numbers, as fractions [n, d].  *)

\* The nearest number with so many bits, the even one of two.
Float(n, d) ==
  LET m == Magn(n)
      k == CHOOSE j \in 0 .. 2 * MANTISSA :
             m * 2 ^ j < 2 ^ MANTISSA * d /\ m * 2 ^ (j + 1) >= 2 ^ MANTISSA * d
      quotient == (m * 2 ^ k) \div d
      twice == 2 * ((m * 2 ^ k) % d)
      nearest == IF twice > d \/ (twice = d /\ quotient % 2 = 1) THEN quotient + 1 ELSE quotient
  IN  IF m = 0 \/ m >= 2 ^ MANTISSA * d THEN [n |-> n, d |-> d]
      ELSE [n |-> (IF n < 0 THEN -1 ELSE 1) * nearest, d |-> 2 ^ k]

\* Math.round: a half goes up, also below zero.
Round(x) == (2 * x.n + x.d) \div (2 * x.d)

fromPaise(paise) == Float(paise, 100)

MAX_SAFE_AMOUNT == Float(MAX_SAFE_INTEGER, 100)

toPaise(rupees) ==
  LET paise == Round(Float(100 * rupees.n, rupees.d))
  IN  IF Magn(rupees.n) * MAX_SAFE_AMOUNT.d > MAX_SAFE_AMOUNT.n * rupees.d \/ Magn(paise) > MAX_SAFE_INTEGER
        THEN Thrown ELSE paise

\* toFixed(2), of the magnitude: the exact value of the float to the nearest hundredth.
canonicalAmount(rupees) ==
  LET paise == toPaise(rupees)
      printed == Float(Magn(paise), 100)
      hundredths == Round([n |-> 100 * printed.n, d |-> printed.d])
  IN  IF paise = Thrown THEN Thrown
      ELSE [paiseToDecimalString(hundredths) EXCEPT !.sign = IF paise < 0 THEN "-" ELSE ""]

-----------------------------------------------------------------------------
(* canonicalStringify: a value is [t, v], an object a sequence of <<field,   *)
(* value>> in the order it was built in, a number [t, v, integer].           *)

Text(s) == [t |-> "text", v |-> s]

Joined(parts) ==
  FlattenSeq([i \in DOMAIN parts |-> IF i = 1 THEN parts[i] ELSE <<",">> \o parts[i]])

Place(field) == CHOOSE i \in DOMAIN FIELDS : FIELDS[i] = field

\* Only what JSON can say, and no fractions: a hole, an undefined field, a date
\* would vanish from the text or become "{}", so they throw.
RECURSIVE canonicalStringify(_)
canonicalStringify(value) ==
  LET Bracketed(open, parts, close) ==
        IF \E i \in DOMAIN parts : parts[i] = Thrown THEN Thrown
        ELSE <<open>> \o Joined(parts) \o <<close>>
      Field(field) ==
        LET text == canonicalStringify(field[2])
        IN  IF text = Thrown THEN Thrown ELSE <<"key", field[1]>> \o text
      InOrder == SortSeq(value.v, LAMBDA a, b : Place(a[1]) < Place(b[1]))
  IN  CASE value.t = "text"   -> <<"text", value.v>>
        [] value.t = "number" -> IF value.integer THEN <<ToString(value.v)>> ELSE Thrown
        [] value.t = "null"   -> <<"null">>
        [] value.t = "array"  -> Bracketed("[", [i \in DOMAIN value.v |-> canonicalStringify(value.v[i])], "]")
        [] value.t = "object" -> Bracketed("{", [i \in DOMAIN InOrder |-> Field(InOrder[i])], "}")
        [] OTHER              -> Thrown

\* SHA-256 tells any two texts apart.
contentHashOf(payload) == canonicalStringify(payload)

\* A mutant: rows as they came.
sortRowsNot(rows) == rows

\* By the key of every section, a name; rows of the same key stay as they came.
sortRows(rows) ==
  LET Before(i, j) == rows[i].name < rows[j].name \/ (rows[i].name = rows[j].name /\ i < j)
      order == SetToSortSeq(DOMAIN rows, Before)
  IN  [i \in DOMAIN rows |-> rows[order[i]]]

-----------------------------------------------------------------------------
(* The rows of a section, [name, amount], as cycle.ts and ageing.ts put them *)
(* into a payload.                                                           *)

amountFrom(text) == Or(parseAmountToPaise(text), paiseToDecimalString)

negatedAmount(amount) ==
  LET Minus(paise) == paiseToDecimalString(-paise)
  IN  Or(parseAmountToPaise(amount), Minus)

\* Through rupees, although what it is given is the text of whole paise.
ageingAmount(amount) ==
  LET Rupees(paise) == canonicalAmount(fromPaise(paise))
  IN  Or(parseAmountToPaise(amount), Rupees)

\* A bill whose amount cannot be read is left out; it does not cost the section.
Readable(row) == parseAmountToPaise(row.amount) # Thrown

PayloadAmount(route, text) ==
  CASE route = "plain"  -> amountFrom(text)
    [] route = "stock"  -> Or(amountFrom(text), negatedAmount)
    [] route = "ageing" -> ageingAmount(canonicalAmountFromPaise(parseAmountToPaise(text)))

PayloadRows(route, rows) ==
  LET kept == IF route = "ageing" THEN SelectSeq(rows, Readable) ELSE rows
  IN  sortRows([i \in DOMAIN kept |->
                  [name |-> kept[i].name, amount |-> PayloadAmount(route, kept[i].amount)]])

\* What is hashed; "built" is the order the fields were put in.
Payload(rows, built) ==
  LET Cell(row, field) ==
        CASE field = "name"      -> Text(ToString(row.name))
          [] field = "billCount" -> [t |-> "number", v |-> 1, integer |-> TRUE]
          [] field = "amount"    ->
               IF row.amount = Thrown THEN [t |-> "undefined"] ELSE Text(ToString(row.amount))
  IN  [t |-> "array", v |-> [i \in DOMAIN rows |->
         [t |-> "object", v |-> [j \in DOMAIN built |-> <<built[j], Cell(rows[i], built[j])>>]]]]

\* What a card reads of a payload, and what it adds up to.
paiseOf(rows) == [i \in DOMAIN rows |-> parseAmountToPaise(rows[i].amount)]
=============================================================================
