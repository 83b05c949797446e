------------------------------- MODULE Quotes -------------------------------
(***************************************************************************)
(* Shipping quotes: use_cases/shipping_rates.py, which validates what a    *)
(* provider answers, and the provider that the program comes with.  A text *)
(* is the sequence of its characters' kinds, an amount is in thousandths   *)
(* of the currency unit.                                                   *)
(***************************************************************************)
EXTENDS Catalog, Integers

Sets == INSTANCE FiniteSetsExt

\* An amount or a weight that is a floating-point infinity, and an amount that
\* is not a number.  (A weight that is none fails the schema of the request.)
CONSTANTS Infinity, NaN

ASSUME InfinityAssumption ==
  /\ Infinity \in Nat /\ Infinity > 1000000000
  /\ NaN \notin Int

Kept == {"letter", "digit", "space", "dash"}

Strip(text) ==
  LET inner == {i \in DOMAIN text : text[i] # "space"}
  IN  IF inner = {} THEN <<>> ELSE SubSeq(text, Sets!Min(inner), Sets!Max(inner))

Cleaned(text) == LET Keeps(c) == c \in Kept IN SelectSeq(Strip(text), Keeps)

\* _clean_text and _clean_currency: the value, or NoRow for an error.
CleanText(text) ==
  LET cleaned == Cleaned(text)
  IN  IF cleaned = <<>> THEN NoRow
      ELSE SubSeq(cleaned, 1, IF Len(cleaned) < 64 THEN Len(cleaned) ELSE 64)

CleanCurrency(text) ==
  LET currency == Strip(text)
  IN  IF Len(currency) = 3 /\ \A i \in DOMAIN currency : currency[i] = "letter"
      THEN currency ELSE NoRow

\* The largest amount, 20000 of the currency unit.
MaxCents == 2000000

\* Mutant of CleanAmount: only the amount received is compared with 0.
CleanAmountOnce(mills) ==
  IF mills <= 0 \/ mills \div 10 > MaxCents THEN NoRow ELSE mills \div 10

\* _clean_amount of a finite amount; int() cuts off what is less than a cent.
CleanAmount(mills) ==
  LET amount_cents == mills \div 10
  IN  IF mills <= 0 \/ amount_cents <= 0 \/ amount_cents > MaxCents THEN NoRow
      ELSE amount_cents

\* Comparing NaN raises an InvalidOperation, int() of infinity an OverflowError;
\* both outside of the try of _clean_amount.
IsFinite(amount) == amount \notin {Infinity, NaN}

\* _validated_quote_from_upstream
Validated(upstream) ==
  LET quote == [carrier |-> CleanText(upstream.carrier),
                service_level |-> CleanText(upstream.service_level),
                currency |-> CleanCurrency(upstream.currency),
                amount_cents |-> IF IsFinite(upstream.amount)
                                 THEN CleanAmount(upstream.amount) ELSE NoRow]
  IN  IF \E f \in {"carrier", "service_level", "currency"} : quote[f] = NoRow
      THEN Conflict
      ELSE IF ~IsFinite(upstream.amount) THEN [Conflict EXCEPT !.verdict = "failed"]
      ELSE IF quote.amount_cents = NoRow THEN Conflict
      ELSE Ok(quote)

\* MockShippingRateProvider, of a weight in grams.
fetch_quote(country, grams) ==
  LET base == IF country = "PT" THEN 7500 ELSE 9000
      surcharge == IF grams > 1000 THEN ((grams - 1000) * 7) \div 4 ELSE 0
      text == <<"letter", "letter", "letter">>
  IN  [carrier |-> text \o <<"space">> \o text, service_level |-> text,
       currency |-> text,
       amount |-> IF grams = Infinity THEN Infinity
                  ELSE ((base + surcharge + 5) \div 10) * 10]

\* A weight is positive by the schema of the request; a JSON number may be
\* Infinity.  Other providers are those of the tests.
GetShippingQuote(r) ==
  IF Actor(r).role \notin {"admin", "store_owner", "customer"} THEN Denied
  ELSE IF job[r].grams <= 0 THEN Conflict
  ELSE Validated(IF job[r].upstream = NoRow
                 THEN fetch_quote(job[r].country, job[r].grams)
                 ELSE job[r].upstream)

read_shipping_quote(r) ==
  At(r, "read_shipping_quote", "begin") /\ Answer(r, GetShippingQuote(r))
=============================================================================
