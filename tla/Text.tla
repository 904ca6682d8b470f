-------------------------------- MODULE Text --------------------------------
(* Texts for the formatters and the parsers. A text is a sequence of        *)
(* characters, each a string of length one, except that a month's, a        *)
(* weekday's or a zone's name is one item. A parser reads at a cursor: its  *)
(* result is [at, value], the cursor behind what it read and what that      *)
(* stands for, or NoMatch.                                                  *)
EXTENDS Integers, Sequences
LOCAL INSTANCE SequencesExt

Digit   == <<"0", "1", "2", "3", "4", "5", "6", "7", "8", "9">>
Digits  == {Digit[i] : i \in 1..10}
DigitValue == [c \in Digits |-> (CHOOSE i \in 1..10 : Digit[i] = c) - 1]
Spaces  == {" ", "\t", "\n"}

Abs(n) == IF n < 0 THEN -n ELSE n

\* What a text is written from: characters and names as they are, numbers of at
\* least so many digits ("%.<width>d", the sign not counted) and numbers of two
\* places ("%2d").
Chars(items)    == [items |-> items]
Num(n, width)   == [n |-> n, width |-> width, fill |-> "0"]
SpacedNum(n)    == [n |-> n, width |-> IF n \in 0..9 THEN 2 ELSE 1, fill |-> " "]

Figures(num) ==
    LET figures[m \in Nat] ==
          IF m < 10 THEN <<Digit[m + 1]>> ELSE figures[m \div 10] \o <<Digit[(m % 10) + 1]>>
        Filled(shown) == [i \in 1 .. num.width - Len(shown) |-> num.fill] \o shown
    IN  (IF num.n < 0 THEN <<"-">> ELSE <<>>) \o Filled(figures[Abs(num.n)])

Rendered(pieces) ==
    FlattenSeq([i \in DOMAIN pieces |->
        IF "items" \in DOMAIN pieces[i] THEN pieces[i].items ELSE Figures(pieces[i])])

Padded(n, width) == Figures(Num(n, width))
Plain(n)         == Padded(n, 1)

NoMatch == [at |-> 0, value |-> 0]
Found(p, v) == [at |-> p, value |-> v]
Failed(r) == r.at = 0

Has(text, p, chars) == p \in 1 .. Len(text) /\ text[p] \in chars

\* How many characters of a set follow from p on.
RunLength(text, p, chars) ==
    LET run[q \in p .. Len(text) + 1] == IF Has(text, q, chars) THEN 1 + run[q + 1] ELSE 0
    IN  IF p > Len(text) THEN 0 ELSE run[p]

\* The value of the n digits at p.
ValueOf(text, p, n) ==
    LET value[k \in 0..n] == IF k = 0 THEN 0 ELSE value[k - 1] * 10 + DigitValue[text[p + k - 1]]
    IN  value[n]

\* From least to most digits, as many as there are.
Unsigned(text, p, least, most) ==
    LET Read(n)   == IF n < least THEN NoMatch ELSE Found(p + n, ValueOf(text, p, n))
        Upto(run) == Read(IF run < most THEN run ELSE most)
    IN  Upto(RunLength(text, p, Digits))

\* The same behind an optional sign.
Signed(text, p, least, most) ==
    LET q == IF Has(text, p, {"+", "-"}) THEN p + 1 ELSE p
        With(r) == IF Failed(r) THEN NoMatch
                   ELSE Found(r.at, IF Has(text, p, {"-"}) THEN -r.value ELSE r.value)
    IN  With(Unsigned(text, q, least, most))

SkipSpaces(text, p) == p + RunLength(text, p, Spaces)
=============================================================================
