----------------------------- MODULE BooksProofs -----------------------------
(***************************************************************************)
(* Lemmas about calls, headers and rows that the proofs about the engine   *)
(* and about the gateway share.                                            *)
(***************************************************************************)
EXTENDS Books, FiniteSetTheorems, TLAPS

\* The fields of a call.
LEMMA CallFields ==
  ASSUME NEW c \in Calls
  PROVE  /\ c # None
         /\ c.op \in {"transfer", "cross", "fund", "reverse"}
         /\ c.op = "reverse" => c \in Reversal /\ c.target \in Requests
         /\ c.op # "reverse" => /\ c \in Payment
                                /\ c.key \in Keys
                                /\ c.src \in Accounts /\ c.dst \in Accounts /\ c.from \in Currencies
                                /\ c.to \in Currencies /\ c.amt \in Int /\ c.rate \in Nat
BY BooksAssumption DEF Payment, Reversal

\* FundAccount names one account and one currency.
LEMMA FundKind ==
  ASSUME NEW c \in Calls, c.op = "fund"
  PROVE  c.src = c.dst /\ c.from = c.to
BY BooksAssumption

-----------------------------------------------------------------------------
(* The types of headers and rows                                           *)

\* A currency with settlement accounts has one that the engine uses.
LEMMA SettlementAccount ==
  ASSUME NEW cur, SettlementAccounts(cur) # {}
  PROVE  Settlement(cur) \in Accounts
BY DEF Settlement, SettlementAccounts

\* Rounding a quotient gives an integer ...
LEMMA QuotientInt ==
  ASSUME NEW n \in Int, NEW d \in Nat \ {0}
  PROVE  RoundedQuotient(n, d) \in Int
BY DEF RoundedQuotient

\* ... and keeps it from becoming negative.
LEMMA QuotientNat ==
  ASSUME NEW n \in Nat, NEW d \in Nat \ {0}
  PROVE  RoundedQuotient(n, d) \in Nat
BY DEF RoundedQuotient

\* The header a payment records; it carries a rate only across borders.
LEMMA HeaderType ==
  ASSUME NEW c \in Calls, c.op # "reverse"
  PROVE  /\ HeaderOf(c) \in Header /\ HeaderOf(c) # None
         /\ HeaderOf(c).key = c.key /\ HeaderOf(c).src = c.src /\ HeaderOf(c).dst = c.dst
         /\ HeaderOf(c).fx > 0 => c.op = "cross"
         /\ HeaderOf(c).status = "SUCCESS"
<1>1. StoredRate(c.rate) \in Nat
  BY CallFields, QuotientNat, BooksAssumption DEF StoredRate
<1> QED
  BY <1>1, CallFields, BooksAssumption DEF HeaderOf, Header

\* The rows of a payment touch its two accounts and, across borders, the
\* settlement accounts.
LEMMA PaymentRowsType ==
  ASSUME NEW r \in Requests, NEW c \in Calls, c.op # "reverse", WellFormed(c), Authorised(c)
  PROVE  /\ PaymentRows(r, c) \subseteq Row
         /\ \A e \in PaymentRows(r, c) :
              \/ e.acct \in {c.src, c.dst}
              \/ c.op = "cross" /\ e.acct \in {Settlement(c.from), Settlement(c.to)}
<1>1. CASE c.op = "transfer"
  BY <1>1, CallFields DEF PaymentRows, DoubleEntry, NewRow, Row, Leg
<1>2. CASE c.op = "fund"
  BY <1>2, CallFields DEF PaymentRows, NewRow, Row, Leg
<1>3. CASE c.op = "cross"
  <2>1. Settlement(c.from) \in Accounts /\ Settlement(c.to) \in Accounts
    BY <1>3, SettlementAccount DEF Authorised
  <2> DEFINE n == Exchanged(c.amt, c.rate, RateUnit * RateGrain)
  <2>2. c.rate \in Nat \ {0} /\ c.amt \in Int
    BY <1>3, CallFields DEF WellFormed
  <2>4. RateUnit * RateGrain \in Int
    BY BooksAssumption
  <2>5. c.amt * (RateUnit * RateGrain) \in Int
    BY <2>2, <2>4
  <2>3. n \in Int
    BY <2>2, <2>5, QuotientInt DEF Exchanged
  <2> HIDE DEF n
  <2>6. PaymentRows(r, c) = CrossBorderEntries(r, r, c.src, Settlement(c.from), Settlement(c.to), c.dst, c.amt, n)
    BY <1>3 DEF PaymentRows, n
  <2> QED
    BY <1>3, <2>1, <2>2, <2>3, <2>6, CallFields DEF CrossBorderEntries, NewRow, Row, Leg
<1> QED
  BY <1>1, <1>2, <1>3, CallFields

\* The rows of a reversal touch the accounts of the header it reverses.
LEMMA ContraRowsType ==
  ASSUME NEW r \in Requests, NEW h \in Requests, NEW hd \in Header,
         hd.fx > 0 => /\ SettlementAccounts(AccountCurrency[hd.src]) # {}
                      /\ SettlementAccounts(AccountCurrency[hd.dst]) # {}
  PROVE  /\ ContraRows(r, h, hd) \subseteq Row
         /\ \A e \in ContraRows(r, h, hd) :
              \/ e.acct \in {hd.src, hd.dst}
              \/ hd.fx > 0 /\ e.acct \in {Settlement(AccountCurrency[hd.src]),
                                          Settlement(AccountCurrency[hd.dst])}
<1>1. hd.src \in Accounts /\ hd.dst \in Accounts /\ hd.amt \in Int /\ hd.fx \in Nat
  BY DEF Header
<1>2. CASE ~(hd.fx > 0)
  BY <1>1, <1>2 DEF ContraRows, DoubleEntry, NewRow, Row, Leg
<1>3. CASE hd.fx > 0
  <2> DEFINE n == Exchanged(hd.amt, hd.fx, RateUnit)
  <2>1. hd.amt * RateUnit \in Int /\ hd.fx \in Nat \ {0}
    BY <1>1, <1>3, BooksAssumption
  <2>2. n \in Int
    BY <2>1, QuotientInt DEF Exchanged
  <2>3. /\ Settlement(AccountCurrency[hd.src]) \in Accounts
        /\ Settlement(AccountCurrency[hd.dst]) \in Accounts
    BY <1>3, SettlementAccount
  <2> HIDE DEF n
  <2>4. ContraRows(r, h, hd) =
          CrossBorderEntries(r, h, hd.src, Settlement(AccountCurrency[hd.src]),
                             Settlement(AccountCurrency[hd.dst]), hd.dst, -hd.amt, -n)
    BY <1>3 DEF ContraRows, n
  <2> QED
    BY <1>1, <1>3, <2>2, <2>3, <2>4 DEF CrossBorderEntries, NewRow, Row, Leg
<1> QED
  BY <1>2, <1>3

-----------------------------------------------------------------------------
(* Rates                                                                   *)

\* A common factor does not change a quotient.
LEMMA CommonFactor ==
  ASSUME NEW n \in Nat, NEW d \in Nat \ {0}, NEW k \in Nat \ {0}
  PROVE  (k * n) \div (k * d) = n \div d
<1> DEFINE q == n \div d
<1> DEFINE m == n % d
<1>1. q \in Nat /\ m \in 0..(d - 1) /\ n = d * q + m OBVIOUS
<1> HIDE DEF q, m
<1>2. k * n = (k * d) * q + k * m BY <1>1
<1>3. k * m \in Nat /\ k * m < k * d BY <1>1
<1>4. k * d \in Nat \ {0} BY <1>3, <1>1
<1>5. (k * n) \div (k * d) = q BY <1>1, <1>2, <1>3, <1>4
<1> QED BY <1>5 DEF q

\* Division without a remainder.
LEMMA ExactMultiple ==
  ASSUME NEW n \in Nat \ {0}, NEW d \in Nat \ {0}, n % d = 0
  PROVE  \E q \in Nat \ {0} : n = q * d
<1> DEFINE q == n \div d
<1> DEFINE m == n % d
<1>1. q \in Nat /\ m \in 0..(d - 1) /\ n = d * q + m OBVIOUS
<1>2. m = 0 OBVIOUS
<1> HIDE DEF q, m
<1>3. n = q * d /\ q # 0 BY <1>1, <1>2
<1> QED BY <1>1, <1>3

\* A rate that the column stores exactly exchanges like the stored one.
THEOREM ExactRate ==
  ASSUME NEW a \in Nat, NEW q \in Nat \ {0}
  PROVE  /\ StoredRate(q * RateGrain) = q
         /\ Exchanged(a, q * RateGrain, RateUnit * RateGrain) = Exchanged(a, q, RateUnit)
<1>1. RateUnit \in Nat \ {0} /\ RateGrain \in Nat \ {0} BY BooksAssumption
<1>2. StoredRate(q * RateGrain) = q
  <2>1. 2 * (q * RateGrain) + RateGrain = (2 * RateGrain) * q + RateGrain BY <1>1
  <2>2. RateGrain < 2 * RateGrain BY <1>1
  <2>3. (2 * (q * RateGrain) + RateGrain) \div (2 * RateGrain) = q BY <1>1, <2>1, <2>2
  <2> QED BY <2>3 DEF StoredRate, RoundedQuotient
<1>3. Exchanged(a, q * RateGrain, RateUnit * RateGrain) = Exchanged(a, q, RateUnit)
  <2> DEFINE n == 2 * (a * RateUnit) + q
  <2>1. n \in Nat /\ 2 * q \in Nat \ {0} BY <1>1
  <2>2. a * (RateUnit * RateGrain) = RateGrain * (a * RateUnit) BY <1>1
  <2>3. 2 * (a * (RateUnit * RateGrain)) + q * RateGrain = RateGrain * n BY <1>1, <2>2
  <2>4. 2 * (q * RateGrain) = RateGrain * (2 * q) BY <1>1
  <2>5. (RateGrain * n) \div (RateGrain * (2 * q)) = n \div (2 * q) BY <1>1, <2>1, CommonFactor
  <2> QED BY <2>3, <2>4, <2>5 DEF Exchanged, RoundedQuotient
<1> QED BY <1>2, <1>3

-----------------------------------------------------------------------------
(* Sums.  A sum over a set folds it with a recursive function; the lemmas  *)
(* show that such a function exists and what it computes.  Each induction  *)
(* is a minimal counterexample in the order of strict inclusion.           *)

\* The element that the fold takes out first.
Picked(s) == CHOOSE x \in s : TRUE

\* One step of the fold on every subset of S, by what g says of smaller ones; w
\* is what each element counts.
SumStep(g, S, w) ==
  [s \in SUBSET S |-> IF s = {} THEN 0 ELSE w[Picked(s)] + g[s \ {Picked(s)}]]

\* g sums every subset of S; SumFcn(S, w) is such a function, if there is one.
IsSum(g, S, w) == g = SumStep(g, S, w)

SumFcn(S, w) == CHOOSE g : IsSum(g, S, w)

SumBy(S, w) == SumFcn(S, w)[S]

\* Every set of finite sets has a smallest member.
LEMMA SmallestSet ==
  ASSUME NEW S, IsFiniteSet(S), NEW B \in SUBSET SUBSET S, B # {}
  PROVE  \E s \in B : \A t \in SUBSET s : t # s => t \notin B
<1>1. B \subseteq FiniteSubsetsOf(S)
  BY FS_FiniteSubsetsOfFinite
<1>2. PICK s \in B : \A t \in B : <<t, s>> \notin StrictSubsetOrdering(S)
  BY <1>1, FS_StrictSubsetOrderingWellFounded, WFMin
<1> QED
  BY <1>2 DEF StrictSubsetOrdering

\* What comes out of a set is in it, and leaves a smaller one.
LEMMA PickedIn ==
  ASSUME NEW s, s # {}
  PROVE  Picked(s) \in s /\ s \ {Picked(s)} \subseteq s /\ s \ {Picked(s)} # s
BY DEF Picked

\* Two functions that sum agree where both do.
LEMMA SumUnique ==
  ASSUME NEW S, IsFiniteSet(S), NEW T, NEW w, NEW g, NEW h, IsSum(g, S, w), IsSum(h, T, w),
         NEW s \in SUBSET (S \cap T)
  PROVE  g[s] = h[s]
<1> DEFINE B == {t \in SUBSET (S \cap T) : g[t] # h[t]}
<1> SUFFICES ASSUME B # {} PROVE FALSE
  OBVIOUS
<1>1. PICK t \in B : \A u \in SUBSET t : u # t => u \notin B
  <2>1. B \in SUBSET SUBSET S
    OBVIOUS
  <2> HIDE DEF B
  <2> QED
    BY <2>1, SmallestSet
<1>2. /\ g[t] = IF t = {} THEN 0 ELSE w[Picked(t)] + g[t \ {Picked(t)}]
      /\ h[t] = IF t = {} THEN 0 ELSE w[Picked(t)] + h[t \ {Picked(t)}]
  BY DEF IsSum, SumStep
<1>3. t # {} => g[t \ {Picked(t)}] = h[t \ {Picked(t)}]
  BY <1>1, PickedIn
<1> QED
  BY <1>2, <1>3

\* A finite set has a function that sums it ...
LEMMA SumExists ==
  ASSUME NEW S, IsFiniteSet(S), NEW w
  PROVE  IsSum(SumFcn(S, w), S, w)
<1> DEFINE B == {s \in SUBSET S : ~ \E g : IsSum(g, s, w)}
<1> SUFFICES ASSUME B # {} PROVE FALSE
  BY DEF SumFcn
<1>1. PICK s \in B : \A t \in SUBSET s : t # s => t \notin B
  <2>1. B \in SUBSET SUBSET S
    OBVIOUS
  <2> HIDE DEF B
  <2> QED
    BY <2>1, SmallestSet
<1>2. \A t \in SUBSET s : t # s => IsSum(SumFcn(t, w), t, w)
  BY <1>1 DEF SumFcn
<1>3. ASSUME NEW t \in SUBSET s, t # s
      PROVE  SumFcn(t, w)[t] = IF t = {} THEN 0
                               ELSE w[Picked(t)] + SumFcn(t \ {Picked(t)}, w)[t \ {Picked(t)}]
  <2>1. IsSum(SumFcn(t, w), t, w)
    BY <1>2, <1>3
  <2>2. SumFcn(t, w)[t] = IF t = {} THEN 0 ELSE w[Picked(t)] + SumFcn(t, w)[t \ {Picked(t)}]
    BY <2>1 DEF IsSum, SumStep
  <2>3. CASE t # {}
    <3> DEFINE u == t \ {Picked(t)}
    <3>1. u \subseteq t /\ u # s
      BY <1>3, <2>3, PickedIn
    <3>2. IsSum(SumFcn(u, w), u, w)
      BY <1>2, <3>1
    <3>3. IsFiniteSet(t)
      BY FS_Subset
    <3> HIDE DEF u
    <3>4. SumFcn(t, w)[u] = SumFcn(u, w)[u]
      BY <2>1, <3>1, <3>2, <3>3, SumUnique
    <3> QED
      BY <2>2, <2>3, <3>4 DEF u
  <2> QED
    BY <2>2, <2>3
<1> DEFINE g == [t \in SUBSET s |-> IF t = {} THEN 0
                                    ELSE w[Picked(t)] + SumFcn(t \ {Picked(t)}, w)[t \ {Picked(t)}]]
<1>4. \A t \in SUBSET s : t # s => g[t] = SumFcn(t, w)[t]
  BY <1>3
<1>5. \A t \in SUBSET s : t # {} => t \ {Picked(t)} \in SUBSET s /\ t \ {Picked(t)} # s
  BY PickedIn
<1>6. \A t \in SUBSET s : g[t] = IF t = {} THEN 0 ELSE w[Picked(t)] + g[t \ {Picked(t)}]
  BY <1>4, <1>5
<1>7. g = SumStep(g, s, w)
  BY <1>6 DEF SumStep
<1> QED
  BY <1>1, <1>7 DEF IsSum

\* ... so nothing sums to zero ...
LEMMA SumEmpty ==
  ASSUME NEW w
  PROVE  SumBy({}, w) = 0
<1> DEFINE g == SumFcn({}, w)
<1>1. g = SumStep(g, {}, w)
  BY FS_EmptySet, SumExists DEF IsSum
<1> HIDE DEF g
<1>2. g[{}] = 0
  BY <1>1 DEF SumStep
<1> QED
  BY <1>2 DEF SumBy, g

\* ... and the fold takes its element out of the sum.
LEMMA SumPicked ==
  ASSUME NEW S, IsFiniteSet(S), S # {}, NEW w
  PROVE  SumBy(S, w) = w[Picked(S)] + SumBy(S \ {Picked(S)}, w)
<1> DEFINE R == S \ {Picked(S)}
<1>1. R \subseteq S
  OBVIOUS
<1>2. IsFiniteSet(R)
  BY <1>1, FS_Subset
<1>3. IsSum(SumFcn(S, w), S, w) /\ IsSum(SumFcn(R, w), R, w)
  BY <1>2, SumExists
<1>4. SumFcn(S, w)[S] = w[Picked(S)] + SumFcn(S, w)[R]
  BY <1>3 DEF IsSum, SumStep
<1> HIDE DEF R
<1>5. SumFcn(S, w)[R] = SumFcn(R, w)[R]
  BY <1>1, <1>3, SumUnique
<1> QED
  BY <1>4, <1>5 DEF R, SumBy

\* A sum of integers is one.
LEMMA SumInt ==
  ASSUME NEW U, NEW w \in [U -> Int], NEW S \in SUBSET U, IsFiniteSet(S)
  PROVE  SumBy(S, w) \in Int
<1> DEFINE B == {s \in SUBSET S : SumBy(s, w) \notin Int}
<1> SUFFICES ASSUME B # {} PROVE FALSE
  OBVIOUS
<1>1. PICK s \in B : \A t \in SUBSET s : t # s => t \notin B
  <2>1. B \in SUBSET SUBSET S
    OBVIOUS
  <2> HIDE DEF B
  <2> QED
    BY <2>1, SmallestSet
<1>2. s # {}
  BY SumEmpty
<1>3. SumBy(s, w) = w[Picked(s)] + SumBy(s \ {Picked(s)}, w)
  BY <1>2, FS_Subset, SumPicked
<1>4. w[Picked(s)] \in Int /\ SumBy(s \ {Picked(s)}, w) \in Int
  BY <1>1, <1>2, PickedIn
<1> QED
  BY <1>3, <1>4

\* The order does not matter: any element can be taken out first.
LEMMA SumRemove ==
  ASSUME NEW U, NEW w \in [U -> Int], NEW S \in SUBSET U, IsFiniteSet(S), NEW e \in S
  PROVE  SumBy(S, w) = w[e] + SumBy(S \ {e}, w)
<1> DEFINE B == {s \in SUBSET S : \E x \in s : SumBy(s, w) # w[x] + SumBy(s \ {x}, w)}
<1> SUFFICES ASSUME B # {} PROVE FALSE
  OBVIOUS
<1>1. PICK s \in B : \A t \in SUBSET s : t # s => t \notin B
  <2>1. B \in SUBSET SUBSET S
    OBVIOUS
  <2> HIDE DEF B
  <2> QED
    BY <2>1, SmallestSet
<1>2. PICK x \in s : SumBy(s, w) # w[x] + SumBy(s \ {x}, w)
  OBVIOUS
<1> DEFINE p == Picked(s)
<1>3. p \in s /\ w[p] \in Int /\ w[x] \in Int
  BY PickedIn
<1> HIDE DEF p
<1>4. SumBy(s, w) = w[p] + SumBy(s \ {p}, w)
  BY FS_Subset, SumPicked DEF p
<1>5. p # x
  BY <1>2, <1>4
<1>6. SumBy(s \ {p}, w) = w[x] + SumBy((s \ {p}) \ {x}, w)
  <2>1. s \ {p} \in SUBSET s /\ s \ {p} # s /\ x \in s \ {p}
    BY <1>3, <1>5
  <2> QED
    BY <1>1, <2>1
<1>7. SumBy(s \ {x}, w) = w[p] + SumBy((s \ {p}) \ {x}, w)
  <2>1. s \ {x} \in SUBSET s /\ s \ {x} # s /\ p \in s \ {x}
    BY <1>3, <1>5
  <2>2. SumBy(s \ {x}, w) = w[p] + SumBy((s \ {x}) \ {p}, w)
    BY <1>1, <2>1
  <2>3. (s \ {x}) \ {p} = (s \ {p}) \ {x}
    OBVIOUS
  <2> QED
    BY <2>2, <2>3
<1>8. SumBy((s \ {p}) \ {x}, w) \in Int
  <2>1. (s \ {p}) \ {x} \in SUBSET S
    OBVIOUS
  <2>2. IsFiniteSet((s \ {p}) \ {x})
    BY <2>1, FS_Subset
  <2> QED
    BY <2>1, <2>2, SumInt
<1> HIDE DEF B
<1> QED
  BY <1>2, <1>3, <1>4, <1>6, <1>7, <1>8

\* Sums over different elements add up.
LEMMA SumUnion ==
  ASSUME NEW U, NEW w \in [U -> Int], NEW S \in SUBSET U, NEW T \in SUBSET U,
         IsFiniteSet(S), IsFiniteSet(T), S \cap T = {}
  PROVE  SumBy(S \cup T, w) = SumBy(S, w) + SumBy(T, w)
<1> DEFINE B == {t \in SUBSET T : SumBy(S \cup t, w) # SumBy(S, w) + SumBy(t, w)}
<1> SUFFICES ASSUME B # {} PROVE FALSE
  OBVIOUS
<1>1. PICK t \in B : \A u \in SUBSET t : u # t => u \notin B
  <2>1. B \in SUBSET SUBSET T
    OBVIOUS
  <2> HIDE DEF B
  <2> QED
    BY <2>1, SmallestSet
<1>2. t # {}
  BY SumEmpty, SumInt
<1>3. PICK e \in t : TRUE
  BY <1>2
<1> DEFINE u == t \ {e}
<1>4. IsFiniteSet(t) /\ IsFiniteSet(u) /\ IsFiniteSet(S \cup t)
  BY FS_Subset, FS_Union
<1>5. SumBy(t, w) = w[e] + SumBy(u, w) /\ SumBy(S \cup t, w) = w[e] + SumBy(S \cup u, w)
  <2>1. (S \cup t) \ {e} = S \cup u
    OBVIOUS
  <2> QED
    BY <1>4, <2>1, SumRemove
<1>6. SumBy(S \cup u, w) = SumBy(S, w) + SumBy(u, w)
  BY <1>1
<1>7. w[e] \in Int /\ SumBy(S, w) \in Int /\ SumBy(u, w) \in Int
  BY <1>4, SumInt
<1> QED
  BY <1>5, <1>6, <1>7

-----------------------------------------------------------------------------
(* Sums of rows                                                            *)

RowAmount == [e \in Row |-> e.amt]

\* Total is the sum of the rows' amounts.
LEMMA TotalIsSum ==
  ASSUME NEW S \in SUBSET Row, IsFiniteSet(S)
  PROVE  Total(S) = SumBy(S, RowAmount)
<1> DEFINE Fold(g) == [s \in SUBSET S |-> IF s = {} THEN 0 ELSE Picked(s).amt + g[s \ {Picked(s)}]]
<1> DEFINE f == CHOOSE g : g = Fold(g)
<1>1. Total(S) = f[S]
  BY DEF Total, MapThenSumSet, MapThenFoldSet, Picked
<1>2. \A g : Fold(g) = SumStep(g, S, RowAmount)
  <2>1. \A s \in SUBSET S : s # {} => RowAmount[Picked(s)] = Picked(s).amt
    BY PickedIn DEF RowAmount
  <2> QED
    BY <2>1 DEF SumStep
<1> HIDE DEF Fold
<1>3. IsSum(SumFcn(S, RowAmount), S, RowAmount)
  BY SumExists
<1>4. f = Fold(f)
  BY <1>2, <1>3 DEF IsSum
<1>5. IsSum(f, S, RowAmount)
  BY <1>2, <1>4 DEF IsSum
<1> HIDE DEF f
<1>6. f[S] = SumFcn(S, RowAmount)[S]
  BY <1>3, <1>5, SumUnique
<1> QED
  BY <1>1, <1>6 DEF SumBy

LEMMA RowAmountType == RowAmount \in [Row -> Int] /\ \A e \in Row : RowAmount[e] = e.amt
BY DEF RowAmount, Row

LEMMA TotalEmpty == Total({}) = 0
BY FS_EmptySet, TotalIsSum, SumEmpty

\* A sum of rows is an amount.
LEMMA TotalInt ==
  ASSUME NEW S \in SUBSET Row, IsFiniteSet(S)
  PROVE  Total(S) \in Int
BY TotalIsSum, SumInt, RowAmountType

\* The order of the rows does not matter: any one can be taken out first.
LEMMA TotalRemove ==
  ASSUME NEW S \in SUBSET Row, IsFiniteSet(S), NEW e \in S
  PROVE  Total(S) = e.amt + Total(S \ {e})
<1>1. SumBy(S, RowAmount) = RowAmount[e] + SumBy(S \ {e}, RowAmount)
  BY RowAmountType, SumRemove
<1>2. S \ {e} \in SUBSET Row /\ IsFiniteSet(S \ {e})
  BY FS_Subset
<1> QED
  BY <1>1, <1>2, RowAmountType, TotalIsSum

\* Sums of different rows add up.
LEMMA TotalUnion ==
  ASSUME NEW S \in SUBSET Row, NEW T \in SUBSET Row, IsFiniteSet(S), IsFiniteSet(T), S \cap T = {}
  PROVE  Total(S \cup T) = Total(S) + Total(T)
<1>1. SumBy(S \cup T, RowAmount) = SumBy(S, RowAmount) + SumBy(T, RowAmount)
  BY RowAmountType, SumUnion
<1>2. S \cup T \in SUBSET Row /\ IsFiniteSet(S \cup T)
  BY FS_Union
<1> QED
  BY <1>1, <1>2, TotalIsSum

\* A sum of debits is not positive.
LEMMA TotalDebits ==
  ASSUME NEW S \in SUBSET Row, IsFiniteSet(S), \A e \in S : e.amt <= 0
  PROVE  Total(S) <= 0
<1> DEFINE B == {s \in SUBSET S : ~(Total(s) <= 0)}
<1> SUFFICES ASSUME B # {} PROVE FALSE
  OBVIOUS
<1>1. PICK s \in B : \A t \in SUBSET s : t # s => t \notin B
  <2>1. B \in SUBSET SUBSET S
    OBVIOUS
  <2> HIDE DEF B
  <2> QED
    BY <2>1, SmallestSet
<1>2. s # {}
  BY TotalEmpty
<1>3. PICK e \in s : TRUE
  BY <1>2
<1>4. IsFiniteSet(s) /\ IsFiniteSet(s \ {e})
  BY FS_Subset
<1>5. Total(s) = e.amt + Total(s \ {e})
  BY <1>4, TotalRemove
<1>6. Total(s \ {e}) <= 0
  BY <1>1
<1>7. e.amt \in Int /\ e.amt <= 0 /\ Total(s \ {e}) \in Int
  BY <1>4, TotalInt DEF Row
<1> QED
  BY <1>5, <1>6, <1>7

\* A sum of credits is not negative.
LEMMA TotalCredits ==
  ASSUME NEW S \in SUBSET Row, IsFiniteSet(S), \A e \in S : 0 <= e.amt
  PROVE  0 <= Total(S)
<1> DEFINE B == {s \in SUBSET S : ~(0 <= Total(s))}
<1> SUFFICES ASSUME B # {} PROVE FALSE
  OBVIOUS
<1>1. PICK s \in B : \A t \in SUBSET s : t # s => t \notin B
  <2>1. B \in SUBSET SUBSET S
    OBVIOUS
  <2> HIDE DEF B
  <2> QED
    BY <2>1, SmallestSet
<1>2. s # {}
  BY TotalEmpty
<1>3. PICK e \in s : TRUE
  BY <1>2
<1>4. IsFiniteSet(s) /\ IsFiniteSet(s \ {e})
  BY FS_Subset
<1>5. Total(s) = e.amt + Total(s \ {e})
  BY <1>4, TotalRemove
<1>6. 0 <= Total(s \ {e})
  BY <1>1
<1>7. e.amt \in Int /\ 0 <= e.amt /\ Total(s \ {e}) \in Int
  BY <1>4, TotalInt DEF Row
<1> QED
  BY <1>5, <1>6, <1>7

\* What remains of a sum when only the rows in A count.
Share(e, A) == IF e \in A THEN e.amt ELSE 0

\* A row that is added to a sum counts if it is in A.
LEMMA TotalAdd ==
  ASSUME NEW S \in SUBSET Row, IsFiniteSet(S), NEW e \in Row, e \notin S, NEW A
  PROVE  /\ IsFiniteSet(S \cup {e})
         /\ Total((S \cup {e}) \cap A) = Share(e, A) + Total(S \cap A)
<1>1. IsFiniteSet(S \cup {e})
  BY FS_AddElement
<1>2. CASE e \in A
  <2>1. ((S \cup {e}) \cap A) \in SUBSET Row
    OBVIOUS
  <2>2. IsFiniteSet((S \cup {e}) \cap A)
    BY <1>1, FS_Subset
  <2>3. ((S \cup {e}) \cap A) \ {e} = S \cap A /\ e \in (S \cup {e}) \cap A
    BY <1>2
  <2>4. Total((S \cup {e}) \cap A) = e.amt + Total(S \cap A)
    BY <2>1, <2>2, <2>3, TotalRemove
  <2> QED
    BY <1>1, <1>2, <2>4 DEF Share
<1>3. CASE e \notin A
  <2>1. (S \cup {e}) \cap A = S \cap A
    BY <1>3
  <2>2. S \cap A \in SUBSET S /\ S \cap A \in SUBSET Row
    OBVIOUS
  <2>3. Total(S \cap A) \in Int
    BY <2>2, FS_Subset, TotalInt
  <2>4. Total((S \cup {e}) \cap A) = Total(S \cap A)
    BY <2>1
  <2>5. Share(e, A) = 0
    BY <1>3 DEF Share
  <2>6. Total((S \cup {e}) \cap A) = Share(e, A) + Total(S \cap A)
    BY <2>3, <2>4, <2>5
  <2> QED
    BY <1>1, <2>6
<1> QED
  BY <1>2, <1>3

\* The sum over one row, as a funding inserts.
LEMMA TotalOfOne ==
  ASSUME NEW x \in Row, NEW A
  PROVE  IsFiniteSet({x}) /\ Total({x} \cap A) = Share(x, A)
<1>1. Total({x} \cap A) = Share(x, A)
  <2> DEFINE none == {}
  <2>1. none \in SUBSET Row /\ x \notin none /\ none \cup {x} = {x} /\ none \cap A = none
    OBVIOUS
  <2>2. IsFiniteSet(none) /\ Total(none) = 0
    BY FS_EmptySet, TotalEmpty
  <2>4. Share(x, A) \in Int
    BY DEF Share, Row
  <2> HIDE DEF none
  <2>3. Total((none \cup {x}) \cap A) = Share(x, A) + Total(none \cap A)
    BY <2>1, <2>2, TotalAdd
  <2>5. Total({x} \cap A) = Share(x, A) + Total(none)
    BY <2>1, <2>3, Zenon
  <2> QED
    BY <2>2, <2>4, <2>5
<1>2. IsFiniteSet({x})
  BY FS_Singleton
<1> QED
  BY <1>1, <1>2

\* Two rows, as writeDoubleEntry inserts.
LEMMA TotalOfTwo ==
  ASSUME NEW x \in Row, NEW y \in Row, x # y, NEW A
  PROVE  IsFiniteSet({x, y}) /\ Total({x, y} \cap A) = Share(x, A) + Share(y, A)
<1>1. {x, y} = {y} \cup {x}
  OBVIOUS
<1>2. IsFiniteSet({y}) /\ {y} \in SUBSET Row /\ x \notin {y}
  BY TotalOfOne
<1> DEFINE rest == {y}
<1> HIDE DEF rest
<1>3. IsFiniteSet(rest) /\ rest \in SUBSET Row /\ x \notin rest /\ Total(rest \cap A) = Share(y, A)
  BY <1>2, TotalOfOne DEF rest
<1>4. IsFiniteSet(rest \cup {x}) /\ Total((rest \cup {x}) \cap A) = Share(x, A) + Total(rest \cap A)
  BY <1>3, TotalAdd
<1> QED
  BY <1>1, <1>3, <1>4 DEF rest

\* Four rows, as writeCrossBorderEntries inserts.
LEMMA TotalOfFour ==
  ASSUME NEW x \in Row, NEW y \in Row, NEW z \in Row, NEW w \in Row,
         x # y, x # z, x # w, y # z, y # w, z # w,
         NEW S, S = {x, y, z, w}, NEW A
  PROVE  /\ IsFiniteSet(S) /\ S \subseteq Row
         /\ Total(S \cap A) = Share(x, A) + Share(y, A) + Share(z, A) + Share(w, A)
<1> DEFINE T == {z, w}
<1> DEFINE U == T \cup {y}
<1>1. T \in SUBSET Row /\ y \notin T /\ U \in SUBSET Row /\ x \notin U /\ S = U \cup {x}
  OBVIOUS
<1>2. IsFiniteSet(T) /\ Total(T \cap A) = Share(z, A) + Share(w, A)
  BY TotalOfTwo
<1> HIDE DEF T
<1>3. IsFiniteSet(U) /\ Total(U \cap A) = Share(y, A) + Total(T \cap A)
  BY <1>1, <1>2, TotalAdd
<1> HIDE DEF U
<1>4. IsFiniteSet(U \cup {x}) /\ Total((U \cup {x}) \cap A) = Share(x, A) + Total(U \cap A)
  BY <1>1, <1>3, TotalAdd
<1>5. IsFiniteSet(S) /\ Total(S \cap A) = Share(x, A) + Total(U \cap A)
  BY <1>1, <1>4
<1>6. Share(x, A) \in Int /\ Share(y, A) \in Int /\ Share(z, A) \in Int /\ Share(w, A) \in Int
  BY DEF Share, Row
<1> QED
  BY <1>1, <1>2, <1>3, <1>5, <1>6

\* The rows that an operation writes on some of the accounts.
RowsAt(rows, M) == {e \in rows : e.acct \in M}

\* What an entry of n on account a counts there.
At(a, M, n) == IF a \in M THEN n ELSE 0

\* A balance is the sum over one account.
LEMMA BalanceAt ==
  ASSUME NEW rows, NEW a
  PROVE  Balance(rows, a) = Total(RowsAt(rows, {a}))
<1>1. {e \in rows : e.acct = a} = RowsAt(rows, {a})
  BY DEF RowsAt
<1> QED
  BY <1>1 DEF Balance

\* Rows that are added to others add their amounts, account by account.
LEMMA RowsAtUnion ==
  ASSUME NEW S \in SUBSET Row, NEW T \in SUBSET Row, IsFiniteSet(S), IsFiniteSet(T), S \cap T = {}, NEW M
  PROVE  /\ Total(RowsAt(S \cup T, M)) = Total(RowsAt(S, M)) + Total(RowsAt(T, M))
         /\ Total(RowsAt(S, M)) \in Int /\ Total(RowsAt(T, M)) \in Int
<1> DEFINE U == RowsAt(S, M)
<1> DEFINE V == RowsAt(T, M)
<1>1. U \subseteq S /\ V \subseteq T /\ RowsAt(S \cup T, M) = U \cup V
  BY DEF RowsAt
<1> HIDE DEF U, V
<1>2. IsFiniteSet(U) /\ IsFiniteSet(V) /\ U \in SUBSET Row /\ V \in SUBSET Row /\ U \cap V = {}
  BY <1>1, FS_Subset
<1>3. Total(U \cup V) = Total(U) + Total(V)
  BY <1>2, TotalUnion
<1>4. Total(U) \in Int /\ Total(V) \in Int
  BY <1>2, TotalInt
<1> QED
  BY <1>1, <1>3, <1>4 DEF U, V

\* The debits among some rows are all that can lower their sum.
LEMMA DebitsBelowTotal ==
  ASSUME NEW S \in SUBSET Row, IsFiniteSet(S)
  PROVE  Total({e \in S : e.amt < 0}) <= Total(S)
<1> DEFINE D == {e \in S : e.amt < 0}
<1> DEFINE C == S \ D
<1>1. D \cup C = S /\ D \cap C = {} /\ D \in SUBSET Row /\ C \in SUBSET Row /\ D \subseteq S /\ C \subseteq S
  OBVIOUS
<1>2. \A e \in C : 0 <= e.amt
  BY DEF Row
<1> HIDE DEF D, C
<1>3. IsFiniteSet(D) /\ IsFiniteSet(C)
  BY <1>1, FS_Subset
<1>4. Total(D) \in Int /\ Total(C) \in Int /\ 0 <= Total(C)
  BY <1>1, <1>2, <1>3, TotalInt, TotalCredits
<1>5. Total(S) = Total(D) + Total(C)
  BY <1>1, <1>3, TotalUnion
<1>6. Total(D) <= Total(S)
  BY <1>4, <1>5
<1> QED
  BY <1>6 DEF D

\* The debit and the credit of a double entry, on the accounts in M.
LEMMA DoubleEntrySum ==
  ASSUME NEW r \in Requests, NEW h \in Requests, NEW s \in Accounts, NEW d \in Accounts,
         NEW n \in Int, NEW M
  PROVE  LET rows == DoubleEntry(r, h, s, d, n)
         IN  /\ IsFiniteSet(rows) /\ rows \subseteq Row
             /\ Total(RowsAt(rows, M)) = At(s, M, -n) + At(d, M, n)
<1> DEFINE x == NewRow(r, h, "debit", s, -n)
<1> DEFINE y == NewRow(r, h, "credit", d, n)
<1> DEFINE A == {e \in {x, y} : e.acct \in M}
<1>1. x \in Row /\ y \in Row /\ x # y
  BY DEF NewRow, Row, Leg
<1>2. DoubleEntry(r, h, s, d, n) = {x, y} /\ RowsAt({x, y}, M) = {x, y} \cap A
  BY DEF DoubleEntry, RowsAt
<1>3. Share(x, A) = At(s, M, -n) /\ Share(y, A) = At(d, M, n)
  BY DEF Share, At, NewRow
<1> HIDE DEF x, y, A
<1>4. IsFiniteSet({x, y}) /\ {x, y} \subseteq Row
  BY <1>1, TotalOfTwo
<1>5. Total({x, y} \cap A) = Share(x, A) + Share(y, A)
  BY <1>1, TotalOfTwo
<1>6. RowsAt(DoubleEntry(r, h, s, d, n), M) = {x, y} \cap A
  BY <1>2
<1> QED
  BY <1>2, <1>3, <1>4, <1>5, <1>6

\* The two pairs of a payment across the border, on the accounts in M.
LEMMA CrossBorderSum ==
  ASSUME NEW r \in Requests, NEW h \in Requests, NEW s \in Accounts, NEW f \in Accounts,
         NEW t \in Accounts, NEW d \in Accounts, NEW n \in Int, NEW m \in Int, NEW M
  PROVE  LET rows == CrossBorderEntries(r, h, s, f, t, d, n, m)
         IN  /\ IsFiniteSet(rows) /\ rows \subseteq Row
             /\ Total(RowsAt(rows, M)) = At(s, M, -n) + At(f, M, n) + At(t, M, -m) + At(d, M, m)
<1> DEFINE x == NewRow(r, h, "debit", s, -n)
<1> DEFINE y == NewRow(r, h, "settleCredit", f, n)
<1> DEFINE z == NewRow(r, h, "settleDebit", t, -m)
<1> DEFINE w == NewRow(r, h, "credit", d, m)
<1> DEFINE A == {e \in {x, y, z, w} : e.acct \in M}
<1>1. /\ x \in Row /\ y \in Row /\ z \in Row /\ w \in Row
      /\ x # y /\ x # z /\ x # w /\ y # z /\ y # w /\ z # w
  BY DEF NewRow, Row, Leg
<1> DEFINE S == CrossBorderEntries(r, h, s, f, t, d, n, m)
<1>2. S = {x, y, z, w} /\ RowsAt(S, M) = S \cap A
  BY DEF CrossBorderEntries, RowsAt
<1>3. /\ Share(x, A) = At(s, M, -n) /\ Share(y, A) = At(f, M, n)
      /\ Share(z, A) = At(t, M, -m) /\ Share(w, A) = At(d, M, m)
  BY DEF Share, At, NewRow
<1> HIDE DEF x, y, z, w, A, S
<1>4. /\ IsFiniteSet(S) /\ S \subseteq Row
      /\ Total(S \cap A) = Share(x, A) + Share(y, A) + Share(z, A) + Share(w, A)
  BY <1>1, <1>2, TotalOfFour
<1>5. Total(RowsAt(S, M)) = At(s, M, -n) + At(f, M, n) + At(t, M, -m) + At(d, M, m)
  BY <1>2, <1>3, <1>4
<1> QED
  BY <1>4, <1>5 DEF S

\* The amounts of a payment, account by account.
LEMMA PaymentSum ==
  ASSUME NEW r \in Requests, NEW c \in Calls, c.op # "reverse", WellFormed(c), Authorised(c), NEW M
  PROVE  LET rows == PaymentRows(r, c)
             n == Exchanged(c.amt, c.rate, RateUnit * RateGrain)
         IN  /\ IsFiniteSet(rows) /\ rows \subseteq Row
             /\ c.op = "transfer" =>
                  Total(RowsAt(rows, M)) = At(c.src, M, -c.amt) + At(c.dst, M, c.amt)
             /\ c.op = "fund" => Total(RowsAt(rows, M)) = At(c.src, M, c.amt)
             /\ c.op = "cross" =>
                  /\ n \in Nat
                  /\ Total(RowsAt(rows, M)) =
                       At(c.src, M, -c.amt) + At(Settlement(c.from), M, c.amt)
                         + At(Settlement(c.to), M, -n) + At(c.dst, M, n)
<1> DEFINE rows == PaymentRows(r, c)
<1>1. /\ c.src \in Accounts /\ c.dst \in Accounts /\ c.amt \in Int /\ c.amt > 0
      /\ c.op \in {"transfer", "cross", "fund"}
  BY CallFields DEF WellFormed
<1>2. CASE c.op = "transfer"
  <2>1. rows = DoubleEntry(r, r, c.src, c.dst, c.amt)
    BY <1>2 DEF PaymentRows
  <2> QED
    BY <1>1, <1>2, <2>1, DoubleEntrySum
<1>3. CASE c.op = "fund"
  <2> DEFINE e == NewRow(r, r, "credit", c.src, c.amt)
  <2>1. e \in Row /\ e.acct = c.src /\ e.amt = c.amt
    BY <1>1 DEF NewRow, Row, Leg
  <2>2. rows = {e}
    BY <1>3 DEF PaymentRows
  <2> DEFINE A == {x \in rows : x.acct \in M}
  <2>3. RowsAt(rows, M) = {e} \cap A /\ (e \in A <=> c.src \in M)
    BY <2>1, <2>2 DEF RowsAt
  <2> HIDE DEF e, A
  <2>4. IsFiniteSet({e}) /\ Total({e} \cap A) = Share(e, A)
    BY <2>1, TotalOfOne
  <2>5. Share(e, A) = At(c.src, M, c.amt)
    BY <2>1, <2>3 DEF Share, At
  <2>6. Total(RowsAt(rows, M)) = Total({e} \cap A)
    BY <2>3
  <2>7. IsFiniteSet(rows) /\ rows \subseteq Row
    BY <2>1, <2>2, <2>4
  <2> QED
    BY <1>3, <2>4, <2>5, <2>6, <2>7
<1>4. CASE c.op = "cross"
  <2> DEFINE n == Exchanged(c.amt, c.rate, RateUnit * RateGrain)
  <2>1. Settlement(c.from) \in Accounts /\ Settlement(c.to) \in Accounts
    BY <1>4, SettlementAccount DEF Authorised
  <2>2. c.rate \in Nat \ {0} /\ c.amt \in Nat
    BY <1>1, <1>4, CallFields DEF WellFormed
  <2>3. c.amt * (RateUnit * RateGrain) \in Nat
    <3>1. RateUnit * RateGrain \in Nat
      BY BooksAssumption
    <3> QED
      BY <2>2, <3>1
  <2>4. n \in Nat
    BY <2>2, <2>3, QuotientNat DEF Exchanged
  <2>5. rows = CrossBorderEntries(r, r, c.src, Settlement(c.from), Settlement(c.to), c.dst, c.amt, n)
    BY <1>4 DEF PaymentRows
  <2> HIDE DEF n
  <2>6. n \in Int
    BY <2>4
  <2> QED
    BY <1>1, <1>4, <2>1, <2>4, <2>5, <2>6, CrossBorderSum DEF n
<1> QED
  BY <1>1, <1>2, <1>3, <1>4

\* The amounts of a reversal, account by account.
LEMMA ContraSum ==
  ASSUME NEW r \in Requests, NEW h \in Requests, NEW hd \in Header, hd.amt \in Nat,
         hd.fx > 0 => /\ SettlementAccounts(AccountCurrency[hd.src]) # {}
                      /\ SettlementAccounts(AccountCurrency[hd.dst]) # {},
         NEW M
  PROVE  LET rows == ContraRows(r, h, hd)
             n == Exchanged(hd.amt, hd.fx, RateUnit)
         IN  /\ IsFiniteSet(rows) /\ rows \subseteq Row
             /\ hd.fx = 0 =>
                  Total(RowsAt(rows, M)) = At(hd.src, M, hd.amt) + At(hd.dst, M, -hd.amt)
             /\ hd.fx > 0 =>
                  /\ n \in Nat
                  /\ Total(RowsAt(rows, M)) =
                       At(hd.src, M, hd.amt) + At(Settlement(AccountCurrency[hd.src]), M, -hd.amt)
                         + At(Settlement(AccountCurrency[hd.dst]), M, n) + At(hd.dst, M, -n)
<1> DEFINE rows == ContraRows(r, h, hd)
<1>1. hd.src \in Accounts /\ hd.dst \in Accounts /\ hd.amt \in Int /\ -hd.amt \in Int /\ hd.fx \in Nat
  BY DEF Header
<1>2. -(-hd.amt) = hd.amt
  BY <1>1
<1>3. CASE hd.fx = 0
  <2>1. rows = DoubleEntry(r, h, hd.src, hd.dst, -hd.amt)
    BY <1>3 DEF ContraRows
  <2> QED
    BY <1>1, <1>2, <1>3, <2>1, DoubleEntrySum
<1>4. CASE hd.fx > 0
  <2> DEFINE n == Exchanged(hd.amt, hd.fx, RateUnit)
  <2>1. /\ Settlement(AccountCurrency[hd.src]) \in Accounts
        /\ Settlement(AccountCurrency[hd.dst]) \in Accounts
    BY <1>4, SettlementAccount
  <2>2. hd.amt * RateUnit \in Nat /\ hd.fx \in Nat \ {0}
    BY <1>1, <1>4, BooksAssumption
  <2>3. n \in Nat
    BY <2>2, QuotientNat DEF Exchanged
  <2>4. rows = CrossBorderEntries(r, h, hd.src, Settlement(AccountCurrency[hd.src]),
                                  Settlement(AccountCurrency[hd.dst]), hd.dst, -hd.amt, -n)
    BY <1>4 DEF ContraRows
  <2> HIDE DEF n
  <2>5. n \in Int /\ -n \in Int /\ -(-n) = n
    BY <2>3
  <2>6. /\ IsFiniteSet(rows) /\ rows \subseteq Row
        /\ Total(RowsAt(rows, M)) =
             At(hd.src, M, -(-hd.amt)) + At(Settlement(AccountCurrency[hd.src]), M, -hd.amt)
               + At(Settlement(AccountCurrency[hd.dst]), M, -(-n)) + At(hd.dst, M, -n)
    <3> HIDE DEF rows
    <3> QED
      BY <1>1, <2>1, <2>4, <2>5, CrossBorderSum
  <2>7. Total(RowsAt(rows, M)) =
             At(hd.src, M, hd.amt) + At(Settlement(AccountCurrency[hd.src]), M, -hd.amt)
               + At(Settlement(AccountCurrency[hd.dst]), M, n) + At(hd.dst, M, -n)
    <3> HIDE DEF rows
    <3> QED
      BY <1>2, <2>5, <2>6, Zenon
  <2> QED
    BY <1>4, <2>3, <2>6, <2>7 DEF n
<1> QED
  BY <1>1, <1>3, <1>4

-----------------------------------------------------------------------------
(* What the sums say                                                       *)

InCurrency(cur) == {a \in Accounts : AccountCurrency[a] = cur}

\* A settlement account is in the currency it settles.
LEMMA SettlementCurrency ==
  ASSUME NEW cur, SettlementAccounts(cur) # {}
  PROVE  /\ Settlement(cur) \in Accounts
         /\ AccountCurrency[Settlement(cur)] = cur
         /\ AccountType[Settlement(cur)] = "SETTLEMENT"
BY DEF Settlement, SettlementAccounts

\* A payment sums to zero in every currency, but for the money a funding brings.
LEMMA PaymentBalances ==
  ASSUME NEW r \in Requests, NEW c \in Calls, c.op # "reverse", WellFormed(c), Authorised(c), NEW cur
  PROVE  Total(RowsAt(PaymentRows(r, c), InCurrency(cur)))
           = IF c.op = "fund" /\ AccountCurrency[c.src] = cur THEN c.amt ELSE 0
<1>1. /\ c.src \in Accounts /\ c.dst \in Accounts /\ c.amt \in Int
      /\ c.op \in {"transfer", "cross", "fund"}
      /\ AccountCurrency[c.src] = c.from /\ AccountCurrency[c.dst] = c.to
  BY CallFields DEF Authorised
<1>2. CASE c.op = "transfer"
  <2>1. c.from = c.to
    BY <1>2, BooksAssumption
  <2> QED
    BY <1>1, <1>2, <2>1, PaymentSum DEF At, InCurrency
<1>3. CASE c.op = "fund"
  BY <1>1, <1>3, PaymentSum DEF At, InCurrency
<1>4. CASE c.op = "cross"
  <2> DEFINE n == Exchanged(c.amt, c.rate, RateUnit * RateGrain)
  <2>1. /\ Settlement(c.from) \in Accounts /\ AccountCurrency[Settlement(c.from)] = c.from
        /\ Settlement(c.to) \in Accounts /\ AccountCurrency[Settlement(c.to)] = c.to
    BY <1>4, SettlementCurrency DEF Authorised
  <2>2. /\ n \in Nat
        /\ Total(RowsAt(PaymentRows(r, c), InCurrency(cur))) =
             At(c.src, InCurrency(cur), -c.amt) + At(Settlement(c.from), InCurrency(cur), c.amt)
               + At(Settlement(c.to), InCurrency(cur), -n) + At(c.dst, InCurrency(cur), n)
    BY <1>4, PaymentSum
  <2> HIDE DEF n
  <2> QED
    BY <1>1, <1>4, <2>1, <2>2 DEF At, InCurrency
<1> QED
  BY <1>1, <1>2, <1>3, <1>4

\* The header of a payment, as a reversal reads it.
LEMMA HeaderFields ==
  ASSUME NEW c \in Calls, c.op # "reverse", WellFormed(c), Authorised(c)
  PROVE  /\ HeaderOf(c) \in Header
         /\ HeaderOf(c).src = c.src /\ HeaderOf(c).dst = c.dst
         /\ HeaderOf(c).amt = c.amt /\ c.amt \in Nat
         /\ HeaderOf(c).fx = IF c.op = "cross" THEN StoredRate(c.rate) ELSE 0
         /\ HeaderOf(c).fx \in Nat
         /\ HeaderOf(c).fx > 0 => /\ SettlementAccounts(AccountCurrency[c.src]) # {}
                                  /\ SettlementAccounts(AccountCurrency[c.dst]) # {}
<1>1. HeaderOf(c) \in Header /\ (HeaderOf(c).fx > 0 => c.op = "cross")
  BY HeaderType
<1>2. c.amt \in Nat
  <2>1. c.op \in {"transfer", "cross", "fund"} /\ c.amt \in Int
    BY CallFields
  <2>2. c.amt > 0
    BY <2>1 DEF WellFormed
  <2> QED
    BY <2>1, <2>2
<1> QED
  BY <1>1, <1>2 DEF HeaderOf, Header, Authorised

\* A reversal sums to zero in every currency, if the header has kept the rate.
LEMMA ContraBalances ==
  ASSUME NEW r \in Requests, NEW h \in Requests, NEW c \in Calls,
         c.op # "reverse", WellFormed(c), Authorised(c),
         c.op = "cross" => StoredRate(c.rate) > 0, NEW cur
  PROVE  Total(RowsAt(ContraRows(r, h, HeaderOf(c)), InCurrency(cur))) = 0
<1> DEFINE hd == HeaderOf(c)
<1>1. /\ c.src \in Accounts /\ c.dst \in Accounts /\ c.amt \in Nat
      /\ c.op \in {"transfer", "cross", "fund"}
      /\ AccountCurrency[c.src] = c.from /\ AccountCurrency[c.dst] = c.to
  BY CallFields, HeaderFields DEF Authorised
<1>2. /\ hd \in Header /\ hd.src = c.src /\ hd.dst = c.dst /\ hd.amt = c.amt /\ hd.fx \in Nat
      /\ hd.fx = IF c.op = "cross" THEN StoredRate(c.rate) ELSE 0
      /\ hd.fx > 0 => /\ SettlementAccounts(AccountCurrency[hd.src]) # {}
                      /\ SettlementAccounts(AccountCurrency[hd.dst]) # {}
  BY HeaderFields
<1> HIDE DEF hd
<1>3. CASE c.op # "cross"
  <2>1. c.from = c.to /\ hd.fx = 0
    BY <1>1, <1>2, <1>3, BooksAssumption
  <2>2. Total(RowsAt(ContraRows(r, h, hd), InCurrency(cur)))
          = At(c.src, InCurrency(cur), c.amt) + At(c.dst, InCurrency(cur), -c.amt)
    BY <1>1, <1>2, <2>1, ContraSum
  <2> QED
    BY <1>1, <2>1, <2>2 DEF At, InCurrency, hd
<1>4. CASE c.op = "cross"
  <2> DEFINE n == Exchanged(hd.amt, hd.fx, RateUnit)
  <2>1. /\ Settlement(c.from) \in Accounts /\ AccountCurrency[Settlement(c.from)] = c.from
        /\ Settlement(c.to) \in Accounts /\ AccountCurrency[Settlement(c.to)] = c.to
    BY <1>4, SettlementCurrency DEF Authorised
  <2>2. hd.fx > 0 /\ hd.amt \in Nat
    BY <1>1, <1>2, <1>4
  <2>3. /\ n \in Nat
        /\ Total(RowsAt(ContraRows(r, h, hd), InCurrency(cur))) =
             At(hd.src, InCurrency(cur), hd.amt)
               + At(Settlement(AccountCurrency[hd.src]), InCurrency(cur), -hd.amt)
               + At(Settlement(AccountCurrency[hd.dst]), InCurrency(cur), n)
               + At(hd.dst, InCurrency(cur), -n)
    BY <1>2, <2>2, ContraSum
  <2> HIDE DEF n
  <2>4. Total(RowsAt(ContraRows(r, h, hd), InCurrency(cur))) =
             At(c.src, InCurrency(cur), c.amt) + At(Settlement(c.from), InCurrency(cur), -c.amt)
               + At(Settlement(c.to), InCurrency(cur), n) + At(c.dst, InCurrency(cur), -n)
    BY <1>1, <1>2, <2>3, Zenon
  <2> QED
    BY <1>1, <2>1, <2>3, <2>4 DEF At, InCurrency, hd
<1> QED
  BY <1>3, <1>4

\* What a payment and its reversal leave on an account: nothing on the source,
\* nothing at all if the header has the rate that the payment was made at, and
\* the difference between two exchanges if it has another rate.
LEMMA ContraLeaves ==
  ASSUME NEW r \in Requests, NEW h \in Requests, NEW c \in Calls,
         c.op \in {"transfer", "cross"}, WellFormed(c), Authorised(c), NEW a \in Accounts
  PROVE  LET left == Total(RowsAt(PaymentRows(h, c), {a})) + Total(RowsAt(ContraRows(r, h, HeaderOf(c)), {a}))
             gap == Exchanged(c.amt, c.rate, RateUnit * RateGrain) - Exchanged(c.amt, HeaderOf(c).fx, RateUnit)
         IN  /\ a = c.src \/ c.op = "transfer" => left = 0
             /\ c.op = "cross" /\ HeaderOf(c).fx > 0 =>
                  /\ gap \in Int
                  /\ left = At(c.dst, {a}, gap) - At(Settlement(c.to), {a}, gap)
<1> DEFINE hd == HeaderOf(c)
           M == {a}
           P == Total(RowsAt(PaymentRows(h, c), M))
           C == Total(RowsAt(ContraRows(r, h, hd), M))
           n == Exchanged(c.amt, c.rate, RateUnit * RateGrain)
           m == Exchanged(c.amt, hd.fx, RateUnit)
<1>1. /\ c.src \in Accounts /\ c.dst \in Accounts /\ c.amt \in Nat
      /\ AccountCurrency[c.src] = c.from /\ AccountCurrency[c.dst] = c.to
      /\ c.src # c.dst /\ AccountType[c.src] = "BUSINESS"
  BY CallFields, HeaderFields DEF Authorised, WellFormed
<1>2. /\ hd \in Header /\ hd.src = c.src /\ hd.dst = c.dst /\ hd.amt = c.amt /\ hd.fx \in Nat
      /\ hd.fx = IF c.op = "cross" THEN StoredRate(c.rate) ELSE 0
      /\ hd.fx > 0 => /\ SettlementAccounts(AccountCurrency[hd.src]) # {}
                      /\ SettlementAccounts(AccountCurrency[hd.dst]) # {}
  BY HeaderFields
<1>3. hd.fx = 0 => C = At(c.src, M, c.amt) + At(c.dst, M, -c.amt)
  <2> HIDE DEF hd
  <2> QED BY <1>1, <1>2, ContraSum
<1>4. CASE c.op = "transfer"
  <2>1. P = At(c.src, M, -c.amt) + At(c.dst, M, c.amt) BY <1>4, PaymentSum
  <2>2. C = At(c.src, M, c.amt) + At(c.dst, M, -c.amt) BY <1>2, <1>3, <1>4
  <2> HIDE DEF P, C
  <2>3. P + C = 0 BY <1>1, <2>1, <2>2 DEF At
  <2> QED BY <1>4, <2>3 DEF P, C, hd
<1>5. CASE c.op = "cross"
  <2>1. /\ n \in Nat
        /\ P = At(c.src, M, -c.amt) + At(Settlement(c.from), M, c.amt)
                 + At(Settlement(c.to), M, -n) + At(c.dst, M, n)
    BY <1>5, PaymentSum
  <2>2. Settlement(c.from) # c.src /\ Settlement(c.to) # c.src
    BY <1>1, <1>5, SettlementCurrency DEF Authorised
  <2>3. hd.fx > 0 =>
          /\ m \in Nat
          /\ C = At(c.src, M, c.amt) + At(Settlement(c.from), M, -c.amt)
                   + At(Settlement(c.to), M, m) + At(c.dst, M, -m)
    <3> SUFFICES ASSUME hd.fx > 0
                 PROVE  /\ m \in Nat
                        /\ C = At(c.src, M, c.amt) + At(Settlement(c.from), M, -c.amt)
                                 + At(Settlement(c.to), M, m) + At(c.dst, M, -m)
      OBVIOUS
    <3> HIDE DEF hd
    <3>1. /\ Exchanged(hd.amt, hd.fx, RateUnit) \in Nat
          /\ C = At(hd.src, M, hd.amt) + At(Settlement(AccountCurrency[hd.src]), M, -hd.amt)
                   + At(Settlement(AccountCurrency[hd.dst]), M, Exchanged(hd.amt, hd.fx, RateUnit))
                   + At(hd.dst, M, -Exchanged(hd.amt, hd.fx, RateUnit))
      BY <1>1, <1>2, ContraSum
    <3> QED BY <1>1, <1>2, <3>1, Zenon
  <2> HIDE DEF P, C, n, m
  <2>4. CASE hd.fx > 0
    <3>1. n - m \in Int /\ P + C = At(c.dst, M, n - m) - At(Settlement(c.to), M, n - m)
      BY <1>1, <2>1, <2>3, <2>4 DEF At
    <3>2. a = c.src => P + C = 0
      BY <1>1, <2>1, <2>2, <2>3, <2>4 DEF At
    <3> QED BY <1>5, <3>1, <3>2 DEF P, C, n, m, hd
  <2>5. CASE hd.fx = 0
    <3>1. C = At(c.src, M, c.amt) + At(c.dst, M, -c.amt) BY <1>3, <2>5
    <3>2. a = c.src => P + C = 0
      BY <1>1, <2>1, <2>2, <3>1 DEF At
    <3> QED BY <1>5, <2>5, <3>2 DEF P, C, n, m, hd
  <2> HIDE DEF hd
  <2> QED BY <1>2, <2>4, <2>5
<1> QED BY <1>4, <1>5
=============================================================================
