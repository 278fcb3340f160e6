--------------------------- MODULE PaymentAmounts ---------------------------
(***************************************************************************)
(* The amounts that identify an order: a whole number of tokens, the       *)
(* price, and a fraction whose non-zero digits are the order's identifier. *)
(* Amounts are integers in the smallest unit of the token.  Pure           *)
(* functions; the code's constants are parameters so that TLC can take     *)
(* small ones.                                                             *)
(***************************************************************************)
EXTENDS Integers, Sequences, FiniteSetsExt

CONSTANTS
    Decimals,      \* USDT_DECIMALS: 6
    PrefixLength,  \* the zeros of PAYMENT_IDENTIFIER_PREFIX: 2
    Digits         \* an identifier is written with the digits 1..Digits: 9

ASSUME DigitsAssumption ==
    Decimals \in Nat /\ PrefixLength \in 0..Decimals /\ Digits \in 1..9

-----------------------------------------------------------------------------
(* Numerals.                                                               *)

Power(base, exponent) ==
    LET power[n \in 0..exponent] == IF n = 0 THEN 1 ELSE base * power[n - 1]
    IN power[exponent]

\* The digit of a value at a place, counted from the last one at 0: what is
\* left over after so many divisions by the base.
Digit(value, base, place) ==
    LET rest[n \in 0..place] == IF n = 0 THEN value ELSE rest[n - 1] \div base
    IN rest[place] % base

\* The value of a decimal numeral.
Written(numeral) ==
    LET upTo[p \in 0..Len(numeral)] == IF p = 0 THEN 0 ELSE 10 * upTo[p - 1] + numeral[p]
    IN upTo[Len(numeral)]

\* A numeral without its zeros.
WithoutZeros(numeral) ==
    LET upTo[p \in 0..Len(numeral)] ==
            IF p = 0 THEN <<>>
            ELSE IF numeral[p] = 0 THEN upTo[p - 1] ELSE Append(upTo[p - 1], numeral[p])
    IN upTo[Len(numeral)]

-----------------------------------------------------------------------------
(* Identifiers and the amounts that carry them.                            *)

Unit == Power(10, Decimals)

MaxLength == Decimals - PrefixLength

\* How many identifiers are shorter than a length.
Shorter(length) ==
    LET sum[l \in 0..(length - 1)] == IF l = 0 THEN 0 ELSE sum[l - 1] + Power(Digits, l)
    IN sum[length - 1]

\* The number of identifiers there are; the code throws beyond it.
Capacity == Shorter(MaxLength + 1)

LengthOf(index) ==
    CHOOSE l \in 1..MaxLength : Shorter(l) < index /\ index <= Shorter(l + 1)

\* The index-th identifier: shorter ones first, then in numerical order.  (The
\* mutant counts digits from zero.)
PaymentIdentifierFromZero(index) ==
    LET length == LengthOf(index)
    IN [d \in 1..length |-> Digit(index - 1 - Shorter(length), Digits, length - d)]
PaymentIdentifierFor(index) ==
    LET length == LengthOf(index)
    IN [d \in 1..length |-> Digit(index - 1 - Shorter(length), Digits, length - d) + 1]

\* The decimals that hold the identifier's digits, in their order, at the given
\* positions after the point, and zeros elsewhere.
Spread(identifier, positions) ==
    [p \in 1..Decimals |-> IF p \in positions
                           THEN identifier[Cardinality({q \in positions : q <= p})]
                           ELSE 0]

\* The canonical amount: the identifier right after the prefix.
AmountFor(tickets, index) ==
    LET identifier == PaymentIdentifierFor(index)
        positions == (PrefixLength + 1)..(PrefixLength + Len(identifier))
    IN tickets * Unit + Written(Spread(identifier, positions))

\* The canonical amount and all of its aliases.
PaymentAmountsFor(tickets, index) ==
    LET identifier == PaymentIdentifierFor(index)
    IN {tickets * Unit + Written(Spread(identifier, positions)) :
           positions \in kSubset(Len(identifier), 1..Decimals)}

\* What an amount says: the digits of its fraction without the zeros.
PaymentIdentifierFromAmount(amount) ==
    WithoutZeros([p \in 1..Decimals |-> Digit(amount % Unit, 10, Decimals - p)])
=============================================================================
