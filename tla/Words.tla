-------------------------------- MODULE Words --------------------------------
(***************************************************************************)
(* The amount of an invoice in words, as the invoice document prints it,   *)
(* and a reader of such words as the reference.  A text is a sequence of   *)
(* words; an amount has a whole part and thousandths.                      *)
(***************************************************************************)
EXTENDS Integers, Sequences

CONSTANT Totals   \* of the invoices that are shown

Thousands(n) == n \div 1000

\* There is no word for a thousand trillion, to which a larger total would round.
ASSUME WordsAssumption ==
  /\ Totals \subseteq [whole : Nat, mils : 0..999]
  /\ \A v \in Totals : Thousands(Thousands(Thousands(Thousands(v.whole + 1)))) < 1000

VARIABLE shownTotal    \* of the invoice document that is open

-----------------------------------------------------------------------------
Ones == <<"One", "Two", "Three", "Four", "Five", "Six", "Seven", "Eight", "Nine", "Ten",
          "Eleven", "Twelve", "Thirteen", "Fourteen", "Fifteen", "Sixteen", "Seventeen",
          "Eighteen", "Nineteen">>
\* The entry of ten, which is never written, is the empty word: "-" here.
Tens == <<"-", "Twenty", "Thirty", "Forty", "Fifty", "Sixty", "Seventy", "Eighty", "Ninety">>
Scales == <<"Thousand", "Million", "Billion", "Trillion">>

OneWord(words, n) == IF n = 0 THEN <<>> ELSE <<words[n]>>

\* Mutant: the teens are not taken for words of their own.
ThreeDigitsWithoutTeens(n) ==
  (IF n >= 100 THEN <<Ones[n \div 100], "Hundred">> ELSE <<>>)
  \o OneWord(Tens, (n % 100) \div 10) \o OneWord(Ones, n % 10)

\* The hyphen between tens and ones is a space here.
ThreeDigitsWords(n) ==
  LET rest == n % 100
  IN  (IF n >= 100 THEN <<Ones[n \div 100], "Hundred">> ELSE <<>>)
      \o (IF rest < 20 THEN OneWord(Ones, rest)
          ELSE <<Tens[rest \div 10]>> \o OneWord(Ones, rest % 10))

\* A group of three digits and its scale; empty ones are skipped.
GroupWords(group, i) ==
  IF group = 0 THEN <<>> ELSE ThreeDigitsWords(group) \o OneWord(Scales, i)

NumberToWords(n) ==
  LET r1 == Thousands(n)
      r2 == Thousands(r1)
      r3 == Thousands(r2)
      r4 == Thousands(r3)
  IN  IF n = 0 THEN <<"Zero">>
      ELSE GroupWords(r4 % 1000, 4) \o GroupWords(r3 % 1000, 3) \o GroupWords(r2 % 1000, 2)
           \o GroupWords(r1 % 1000, 1) \o GroupWords(n % 1000, 0)

\* Math.round to cents, the whole part and the cents; a total is never negative.
AmountInWords(v) ==
  LET raw == (v.mils + 5) \div 10
  IN  [words |-> NumberToWords(v.whole + raw \div 100), cents |-> raw % 100]

-----------------------------------------------------------------------------
(* Reading                                                                 *)

PlaceOf(words, w) == CHOOSE i \in DOMAIN words : words[i] = w
IsOneOf(words, w) == \E i \in DOMAIN words : words[i] = w

\* 1000 to the power of i times n.
Scaled(n, i) ==
  CASE i = 1 -> n * 1000
    [] i = 2 -> n * 1000 * 1000
    [] i = 3 -> n * 1000 * 1000 * 1000
    [] i = 4 -> n * 1000 * 1000 * 1000 * 1000

\* A number is read word by word: "of" is the group so far, "sum" those before.
Nothing == [of |-> 0, sum |-> 0]

ReadWord(acc, w) ==
  CASE w \in {"Zero", "-"} -> acc
    [] IsOneOf(Ones, w)   -> [acc EXCEPT !.of = @ + PlaceOf(Ones, w)]
    [] IsOneOf(Tens, w)   -> [acc EXCEPT !.of = @ + 10 * PlaceOf(Tens, w)]
    [] w = "Hundred"      -> [acc EXCEPT !.of = @ * 100]
    [] IsOneOf(Scales, w) -> [of |-> 0, sum |-> acc.sum + Scaled(acc.of, PlaceOf(Scales, w))]

\* What is understood after each word of a text.
Understood(text) ==
  LET acc[i \in 0..Len(text)] == IF i = 0 THEN Nothing ELSE ReadWord(acc[i - 1], text[i])
  IN  acc

Read(text) == LET end == Understood(text)[Len(text)] IN end.sum + end.of

\* No English number has two of the words up to nineteen side by side.
English(text) ==
  \A i \in 1..Len(text) - 1 : ~(IsOneOf(Ones, text[i]) /\ IsOneOf(Ones, text[i + 1]))

-----------------------------------------------------------------------------
\* No invoice is open yet.
WordsInit == shownTotal = [whole |-> 0, mils |-> 0]

\* The user opens another invoice.
ShowTotal(v) == shownTotal' = v

WordsNext == \E v \in Totals : ShowTotal(v)

WordsSpec == WordsInit /\ [][WordsNext]_shownTotal

\* Read as English, the words and the cents are the total to half a cent, for
\* totals of every shape (lib/format.ts numberToWords, amountInWords).
WordsReadBack ==
  LET said == AmountInWords(shownTotal)
      over == 1000 * (Read(said.words) - shownTotal.whole) + 10 * said.cents - shownTotal.mils
  IN  English(said.words) /\ said.cents \in 0..99 /\ over \in -5..5
=============================================================================
