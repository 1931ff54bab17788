--------------------------- MODULE NumbersToWords ---------------------------
(***************************************************************************)
(* The words for numbers that name the methods of a derived builder        *)
(* (src/derive-extras/src/numbers_to_words.rs).  A text is a sequence of   *)
(* words and separators, which the code joins.                             *)
(***************************************************************************)
EXTENDS Naturals, Sequences

CONSTANT UsizeMax   \* the largest number there is
Usize == 0 .. UsizeMax

Sep == "sep"    \* stands for the separator between words

DIGITS ==
  <<"zero", "one", "two", "three", "four", "five", "six", "seven", "eight", "nine",
    "ten", "eleven", "twelve", "thirteen", "fourteen", "fifteen", "sixteen",
    "seventeen", "eighteen", "nineteen">>
TENS ==
  <<"twenty", "thirty", "forty", "fifty", "sixty", "seventy", "eighty", "ninety">>
ORDERS ==
  <<"thousand", "million", "billion", "trillion", "quadrillion", "quintillion",
    "sextillion", "septillion", "octillion", "nonillion", "decillion", "undecillion">>

DIGITS_ORDINAL ==
  <<"zeroth", "first", "second", "third", "fourth", "fifth", "sixth", "seventh",
    "eighth", "ninth", "tenth", "eleventh", "twelfth", "thirteenth", "fourteenth",
    "fifteenth", "sixteenth", "seventeenth", "eighteenth", "nineteenth">>
TENS_ORDINAL ==
  <<"twentieth", "thirtieth", "fortieth", "fiftieth", "sixtieth", "seventieth",
    "eightieth", "ninetieth">>
ORDERS_ORDINAL ==
  <<"thousandth", "millionth", "billionth", "trillionth", "quadrillionth",
    "quintillionth", "sextillionth", "septillionth", "octillionth", "nonillionth",
    "decillionth", "undecillionth">>

\* Slip: the tens are taken to start at ten.
TensFromTen(n, tens, digits) ==
  LET t == n \div 10
  IN  IF n % 10 = 0 THEN <<tens[t]>> ELSE <<TENS[t], Sep, digits[(n % 10) + 1]>>

\* From 20 to 99: tens that stand alone are of the table `tens`.
Tens(n, tens, digits) ==
  LET t == n \div 10 - 1
  IN  IF n % 10 = 0 THEN <<tens[t]>> ELSE <<TENS[t], Sep, digits[(n % 10) + 1]>>

\* As many powers of a thousand as there are names for.
Powers[k \in DOMAIN ORDERS] == IF k = 1 THEN 1 ELSE 1000 * Powers[k - 1]

\* Every number has one that is above its thousandth part: `find` finds it.
ASSUME UsizeAssumption ==
  /\ UsizeMax \in Nat /\ UsizeMax >= 65535
  /\ \E k \in DOMAIN ORDERS : Powers[k] > UsizeMax \div 1000

\* The first power of a thousand above number / 1000 comes with the order that has
\* its place, which is one too high for it: 1000 is "one million".
Order(n) ==
  CHOOSE k \in DOMAIN ORDERS : /\ Powers[k] > n \div 1000
                               /\ k = 1 \/ Powers[k - 1] <= n \div 1000
Div(n) == Powers[Order(n)]

\* "and" is not parted from what follows it.
encode[n \in Usize] ==
  CASE n <= 19 -> <<DIGITS[n + 1]>>
    [] n \in 20 .. 99 -> Tens(n, TENS, DIGITS)
    [] n \in 100 .. 999 ->
         <<DIGITS[(n \div 100) + 1], Sep, "hundred">>
           \o IF n % 100 = 0 THEN <<>> ELSE <<Sep, "and">> \o encode[n % 100]
    [] OTHER ->
         encode[n \div Div(n)] \o <<Sep, ORDERS[Order(n)]>>
           \o IF n % Div(n) = 0 THEN <<>> ELSE <<Sep>> \o encode[n % Div(n)]

encode_ordinal[n \in Usize] ==
  CASE n <= 19 -> <<DIGITS_ORDINAL[n + 1]>>
    [] n \in 20 .. 99 -> Tens(n, TENS_ORDINAL, DIGITS_ORDINAL)
    [] n \in 100 .. 999 ->
         IF n % 100 = 0 THEN <<DIGITS[(n \div 100) + 1], Sep, "hundredth">>
         ELSE <<DIGITS[(n \div 100) + 1], Sep, "hundred", Sep, "and", Sep>>
                \o encode_ordinal[n % 100]
    [] OTHER ->
         IF n % Div(n) = 0 THEN encode[n \div Div(n)] \o <<Sep, ORDERS_ORDINAL[Order(n)]>>
         ELSE encode[n \div Div(n)] \o <<Sep, ORDERS[Order(n)], Sep>>
                \o encode_ordinal[n % Div(n)]

=============================================================================
