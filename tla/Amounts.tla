------------------------------ MODULE Amounts ------------------------------
(***************************************************************************)
(* Token amounts as unsigned plancks (chain/amount.rs, and the decimals of *)
(* a chain as chain/mod.rs derives them).  A text is what the parser tells *)
(* apart: its sign, the digits before and after the first point, whether   *)
(* there is a point, and whether anything else is in it.  For TLC the 128  *)
(* bits are scaled down: MAX_DECIMALS is the most decimals within U128Max. *)
(***************************************************************************)
EXTENDS Integers, Sequences, SequencesExt

CONSTANTS
  U128Max, MAX_DECIMALS, ED_DECIMAL_OFFSET,
  Undeclared  \* tokenDecimals of a chain spec without a number there

\* 10u128.pow, unbounded.
pow10(k) == LET power[i \in 0..k] == IF i = 0 THEN 1 ELSE power[i - 1] * 10 IN power[k]

ASSUME AmountAssumption ==
  /\ U128Max \in Nat /\ MAX_DECIMALS \in Nat /\ ED_DECIMAL_OFFSET \in Nat
  /\ pow10(MAX_DECIMALS) <= U128Max /\ U128Max < pow10(MAX_DECIMALS + 1)

Text(sign, whole, point, fraction, junk) ==
  [sign |-> sign, whole |-> whole, point |-> point, fraction |-> fraction, junk |-> junk]

AmountText == [sign : {"", "+", "-"}, whole : Seq(0..9), point : BOOLEAN,
               fraction : Seq(0..9), junk : BOOLEAN]

Ok(value)  == [ok |-> TRUE, value |-> value]
bad_amount == [ok |-> FALSE, value |-> 0]

NotZero(d)    == d # 0
zeros(n)      == [i \in 1..n |-> 0]
all_zero(s)   == \A i \in DOMAIN s : s[i] = 0
number(s)     == LET value[i \in 0..Len(s)] == IF i = 0 THEN 0 ELSE value[i - 1] * 10 + s[i]
                 IN  value[Len(s)]
trim_start(s) == IF all_zero(s) THEN <<>> ELSE SubSeq(s, SelectInSeq(s, NotZero), Len(s))
trim_end(s)   == SubSeq(s, 1, SelectLastInSeq(s, NotZero))

\* str::parse::<u128>: an empty text and an overflow are errors.
parse_u128(s) == IF s # <<>> /\ number(s) <= U128Max THEN Ok(number(s)) ELSE bad_amount

-----------------------------------------------------------------------------
\* Digits on both sides of the point, or no point, and nothing else.
well_formed(t) == /\ t.sign # "-" /\ ~t.junk /\ t.whole # <<>>
                  /\ t.point <=> t.fraction # <<>>

\* Mutant: leading zeros are stripped and nothing is left of a zero.
parse_amount_NoZero(t, decimals) ==
  IF decimals > MAX_DECIMALS \/ ~well_formed(t) \/ Len(t.fraction) > decimals
    THEN bad_amount
  ELSE parse_u128(trim_start(t.whole \o t.fraction \o zeros(decimals - Len(t.fraction))))

\* The fraction is padded to the decimals and the whole read as one integer.
parse_amount(t, decimals) ==
  LET digits == t.whole \o t.fraction \o zeros(decimals - Len(t.fraction))
      parsed == parse_u128(trim_start(digits))
  IN  IF decimals > MAX_DECIMALS \/ ~well_formed(t) \/ Len(t.fraction) > decimals
        THEN bad_amount
      ELSE IF ~parsed.ok /\ all_zero(digits) THEN Ok(0)
      ELSE parsed

\* Decimal digits of a number, at least width of them.
padded(n, width) ==
  LET few == CHOOSE k \in 1..(MAX_DECIMALS + 1) :
               n < pow10(k) /\ (k = 1 \/ n >= pow10(k - 1))
      len == IF few < width THEN width ELSE few
  IN  [i \in 1..len |-> (n \div pow10(len - i)) % 10]

format_amount(plancks, decimals) ==
  LET digits   == padded(plancks, decimals + 1)
      split    == Len(digits) - decimals
      fraction == trim_end(SubSeq(digits, split + 1, Len(digits)))
  IN  Text("", SubSeq(digits, 1, split), fraction # <<>>, fraction, FALSE)

\* 10u128.pow: beyond the largest decimals it overflows, which panics in a
\* debug build and wraps in a release build.
one_token(decimals) ==
  IF pow10(decimals) <= U128Max THEN {Ok(pow10(decimals))}
  ELSE {bad_amount, Ok(pow10(decimals) % (U128Max + 1))}

as_u8(n) == n % 256

\* The exponent of an existential deposit that is a power of ten, else what
\* the chain spec declares, cut to eight bits, or 0 where it declares nothing.
decimals_effective(ed, declared) ==
  LET exponents == {e \in 0..MAX_DECIMALS : pow10(e) = ed}
  IN  IF exponents # {} THEN as_u8((CHOOSE e \in exponents : TRUE) + ED_DECIMAL_OFFSET)
      ELSE IF declared = Undeclared THEN 0 ELSE as_u8(declared)
=============================================================================
