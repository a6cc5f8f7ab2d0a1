-------------------------------- MODULE Money --------------------------------
(***************************************************************************)
(* Exact money: the decimal values of the shared kernel, from the text of  *)
(* a request to the NUMERIC column and back to the text of a response, and *)
(* the rounding of calculated values.  A Decimal is sign, coefficient and  *)
(* exponent, as in Python, with its negative zero; a text of the accepted  *)
(* grammar is sign, digits without leading zeros, and decimal places.      *)
(* Other texts, types and infinities are refused before anything is read.  *)
(* The calculation context has more digits than any sum of two stored      *)
(* values, so it never rounds by itself.                                   *)
(*                                                                         *)
(* The functions keep no state: a step applies one of them, and `made`     *)
(* holds what it was given and what it returned.                           *)
(***************************************************************************)
EXTENDS Integers, FiniteSetsExt

CONSTANTS
    Precision, Scale,   \* the NUMERIC column: digits in all, and after the point
    Currencies,         \* the codes of the registry
    AccountingScale,    \* decimal places of each
    MaxCoefficient, MaxPlaces,   \* bounds on the inputs
    Invalid             \* NumericValueError, and no value yet

VARIABLE made

ASSUME MoneyAssumption ==
    /\ Precision \in Nat /\ Scale \in Nat /\ Scale < Precision
    /\ AccountingScale \in [Currencies -> 0..Scale]

-----------------------------------------------------------------------------
(* Decimals.                                                               *)

Zero == [neg |-> FALSE, c |-> 0, e |-> 0]
Digits(n) == CHOOSE k \in 1..(n + 1) : n < 10^k /\ (k > 1 => 10^(k - 1) <= n)

\* The value of d in units of 10^e, for e at most d's exponent.
Units(d, e) == (IF d.neg THEN -1 ELSE 1) * d.c * 10^(d.e - e)
Least(d1, d2) == Min({d1.e, d2.e})
SameNumber(d1, d2) == Units(d1, Least(d1, d2)) = Units(d2, Least(d1, d2))
FromUnits(n, e) == [neg |-> n < 0, c |-> IF n < 0 THEN -n ELSE n, e |-> e]

IntegerDigits(d) == IF d.c = 0 THEN 1 ELSE Max({1, Digits(d.c) + d.e})
ScaleOf(d) == Max({0, -d.e})

\* validate_decimal against MONEY_STORAGE.
Validated(d) ==
    IF ScaleOf(d) > Scale \/ IntegerDigits(d) > Precision - Scale THEN Invalid
    ELSE IF d.c = 0 THEN Zero ELSE d

\* n / unit, ties to the even neighbour.
Rounded(n, unit) ==
    LET q == n \div unit
        r == n % unit IN
    IF 2 * r > unit \/ (2 * r = unit /\ q % 2 = 1) THEN q + 1 ELSE q

QuantizeExact(d, scale) ==
    Validated([neg |-> d.neg, e |-> -scale,
               c |-> IF d.e >= -scale THEN d.c * 10^(d.e + scale) ELSE Rounded(d.c, 10^(-scale - d.e))])

AddExact(d1, d2) == Validated(FromUnits(Units(d1, Least(d1, d2)) + Units(d2, Least(d1, d2)), Least(d1, d2)))
SubtractExact(d1, d2) == Validated(FromUnits(Units(d1, Least(d1, d2)) - Units(d2, Least(d1, d2)), Least(d1, d2)))

ParseExactDecimal(text, scale) ==
    IF text.neg \/ text.places > scale THEN Invalid
    ELSE Validated([neg |-> FALSE, c |-> text.c, e |-> -text.places])

CanonicalDecimal(d, scale) ==
    IF Validated(d) = Invalid \/ ScaleOf(Validated(d)) > scale THEN Invalid
    ELSE [neg |-> Validated(d).neg, c |-> Validated(d).c * 10^(Validated(d).e + scale), places |-> scale]

-----------------------------------------------------------------------------
(* Money, as the finance commands and representations use it.              *)

\* Bug: the text is checked against the column, not the currency.
ParseOrdinaryStorable(text, currency) ==
    LET parsed == ParseExactDecimal(text, Scale) IN
    IF parsed = Invalid \/ parsed = Zero THEN Invalid ELSE parsed

ParseOrdinary(text, currency) ==
    LET parsed == ParseExactDecimal(text, AccountingScale[currency]) IN
    IF parsed = Invalid \/ parsed = Zero THEN Invalid ELSE parsed

FromCalculated(d, currency) == QuantizeExact(d, AccountingScale[currency])
ToStorageAmount(d) == QuantizeExact(d, Scale)
ToApi(d, currency) == CanonicalDecimal(d, AccountingScale[currency])

\* Money.add and Money.subtract of two amounts of one currency.
AddMoney(d1, d2, currency) ==
    LET d == AddExact(d1, d2) IN IF d = Invalid THEN Invalid ELSE FromCalculated(d, currency)
SubtractMoney(d1, d2, currency) ==
    LET d == SubtractExact(d1, d2) IN IF d = Invalid THEN Invalid ELSE FromCalculated(d, currency)

\* The column pads to its scale.
Column(d) == [neg |-> d.neg, c |-> d.c * 10^(d.e + Scale), e |-> -Scale]

\* _representation: INVALID_STORED_MONEY if the amount is none of the currency.
Representation(stored, currency) ==
    LET exact == FromCalculated(stored, currency) IN
    IF exact = Invalid \/ ~SameNumber(exact, stored) THEN Invalid ELSE ToApi(exact, currency)

-----------------------------------------------------------------------------
(* One use of the functions.                                               *)

Texts == [neg : BOOLEAN, c : 0..MaxCoefficient, places : 0..MaxPlaces]
Decimals == [neg : BOOLEAN, c : 0..MaxCoefficient, e : (-MaxPlaces)..1]

\* The amounts a currency can have in the column.
Amounts(currency) ==
    LET places == AccountingScale[currency] IN
    {Validated([neg |-> neg, c |-> c, e |-> -places]) :
        neg \in BOOLEAN, c \in 0..(10^(Precision - Scale + places) - 1)}

Unused == [by |-> "nothing", currency |-> Invalid, from |-> Invalid, value |-> Invalid]

MoneyInit == made = Unused

\* A command carries the text of an amount, which is stored when it is valid.
Submit(text, currency) ==
    made' = [by |-> "text", currency |-> currency, from |-> text,
             value |-> LET parsed == ParseOrdinary(text, currency) IN
                       IF parsed = Invalid THEN Invalid ELSE Column(ToStorageAmount(parsed))]

\* A result is calculated; `from` is the exact one.
Calculate(exact, value, currency) ==
    made' = [by |-> "calculation", currency |-> currency, from |-> exact, value |-> value]

MoneyNext ==
    /\ made = Unused
    /\ \E currency \in Currencies :
          \/ \E text \in Texts : Submit(text, currency)
          \/ \E d \in Decimals : Calculate(d, FromCalculated(d, currency), currency)
          \/ \E d1, d2 \in Amounts(currency) :
                LET e == -AccountingScale[currency] IN
                \/ Calculate(FromUnits(Units(d1, e) + Units(d2, e), e), AddMoney(d1, d2, currency), currency)
                \/ Calculate(FromUnits(Units(d1, e) - Units(d2, e), e), SubtractMoney(d1, d2, currency), currency)

-----------------------------------------------------------------------------
(* Properties.                                                             *)

\* The amounts accepted are the positive ones of the currency that fit the
\* column, and each comes back as the same number in a text that is accepted
\* for it again: no stored amount makes a list of events unreadable, and no
\* edit that sends back what was read changes an amount ("ordinary excess
\* scale is rejected, not rounded silently", docs/09_API_Design.md:587).
AmountsReadBack ==
    made.by = "text" =>
        LET text   == made.from
            places == AccountingScale[made.currency]
            read   == Representation(made.value, made.currency) IN
        IF made.value = Invalid
        THEN text.neg \/ text.c = 0 \/ text.places > places
                \/ text.c >= 10^(Precision - Scale + text.places)
        ELSE /\ ~text.neg /\ text.c > 0 /\ text.places <= places
             /\ read = [neg |-> FALSE, c |-> text.c * 10^(places - text.places), places |-> places]
             /\ Column(ToStorageAmount(ParseOrdinary(read, made.currency))) = made.value

\* Whether n, in units of 10^unit, is nearest to d, and even if another is as near.
Nearest(d, n, unit) ==
    LET e == Min({d.e, unit})
        off(k) == LET gap == k * 10^(unit - e) - Units(d, e) IN IF gap < 0 THEN -gap ELSE gap IN
    \A k \in {n - 1, n + 1} : off(n) < off(k) \/ (off(n) = off(k) /\ n % 2 = 0)

\* A calculated amount is the nearest one of the currency to the exact result,
\* the even one of two, and never shown as a negative zero; it is refused
\* when, and only when, none that fits the column is nearest.
ArithmeticIsExact ==
    made.by = "calculation" =>
        LET unit == -AccountingScale[made.currency] IN
        IF made.value = Invalid
        THEN ~\E d \in Amounts(made.currency) : Nearest(made.from, Units(d, unit), unit)
        ELSE /\ Nearest(made.from, Units(made.value, unit), unit)
             /\ LET shown == ToApi(made.value, made.currency) IN shown.neg => shown.c > 0

\* Both hold for every amount that enters, leaves or is calculated.
MoneyIsExact == AmountsReadBack /\ ArithmeticIsExact
=============================================================================
