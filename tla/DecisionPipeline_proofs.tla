----------------------- MODULE DecisionPipeline_proofs -----------------------
(***************************************************************************)
(* What holds of the decision and of the order for any contexts, any       *)
(* chains, any answers of either prompt and any decisions posted:          *)
(*   SelectionAgrees         the pre-filter and the gate draw the same     *)
(*                           three limits;                                 *)
(*   ModificationsReachOrder the last change of each field is in the order *)
(*                           that is submitted;                            *)
(*   GateVouches             an order of the graph is in the right order   *)
(*                           of strikes and balanced, and, when nobody     *)
(*                           resized it, covered and affordable.           *)
(* The invariant is Carried: what was selected is a Proposal, a hypothesis *)
(* of the shape the four families build, it is what the gate cleared, and  *)
(* plan and order are made of it.  Under it are the lemmas on the model's  *)
(* operators: sums over legs and positions, the first of a ranking, the    *)
(* drafts between the changes, the one candidate of a contract.  Where     *)
(* they need induction they look for the least counterexample              *)
(* (NoLeastCounterexample).                                                *)
(***************************************************************************)
EXTENDS DecisionPipeline, SequenceTheorems, FiniteSetTheorems, WellFoundedInduction, TLAPS

-----------------------------------------------------------------------------
(* Least elements, sums and the first of a ranking. *)

\* A non-empty set of naturals has a least element.
LEMMA MinIsLeast ==
  ASSUME NEW S \in SUBSET Nat, S # {}
  PROVE  Min(S) \in S /\ \A n \in S : Min(S) <= n
<1> DEFINE Below == {0 .. n : n \in S}
<1>1. Below \subseteq FiniteSubsetsOf(Nat) /\ Below # {}
  <2>1. \A n \in S : IsFiniteSet(0 .. n) /\ 0 .. n \in SUBSET Nat
    BY FS_Interval
  <2> QED
    BY <2>1 DEF FiniteSubsetsOf
<1>2. PICK B \in Below : \A C \in Below : <<C, B>> \notin StrictSubsetOrdering(Nat)
  BY <1>1, FS_StrictSubsetOrderingWellFounded, WFMin
<1>3. PICK m \in S : B = 0 .. m
  BY <1>2
<1>4. ASSUME NEW n \in S
      PROVE  m <= n
  <2>1. 0 .. n \in Below /\ 0 .. n \in SUBSET Nat /\ 0 .. m \in SUBSET Nat
    BY <1>4
  <2>2. ~(0 .. n \subseteq 0 .. m /\ 0 .. n # 0 .. m)
    BY <1>2, <1>3, <2>1 DEF StrictSubsetOrdering
  <2>3. n \in 0 .. n /\ m \in 0 .. m
    BY <1>3, <1>4
  <2> QED
    BY <1>3, <1>4, <2>2, <2>3
<1> QED
  BY <1>4 DEF Min

\* What holds of no natural but for one below it holds of none.
LEMMA NoLeastCounterexample ==
  ASSUME NEW n \in Nat, NEW Good \in SUBSET (0 .. n), 0 \in Good,
         \A i \in 1 .. n : i - 1 \in Good => i \in Good
  PROVE  Good = 0 .. n
<1> DEFINE Bad == (0 .. n) \ Good
<1>1. ASSUME Bad # {}
      PROVE  FALSE
  <2>1. Bad \in SUBSET Nat
    OBVIOUS
  <2>2. Min(Bad) \in Bad /\ \A i \in Bad : Min(Bad) <= i
    BY <1>1, <2>1, MinIsLeast
  <2>3. PICK m \in Bad : \A i \in Bad : m <= i
    BY <2>2
  <2>4. m \in 1 .. n /\ m - 1 \in 0 .. n
    BY <2>3
  <2>5. m - 1 \in Good
    BY <2>3, <2>4
  <2> QED
    BY <2>3, <2>4, <2>5
<1> QED
  BY <1>1

\* A non-empty set of places has a last one.
LEMMA GreatestPlace ==
  ASSUME NEW n \in Nat, NEW S \in SUBSET (1 .. n), S # {}
  PROVE  \E i \in S : \A j \in S : j <= i
<1> DEFINE Back == {n - i : i \in S}
<1>1. Back \in SUBSET Nat /\ Back # {}
  <2>1. \A i \in S : i \in 1 .. n /\ n - i \in Nat
    OBVIOUS
  <2>2. PICK i \in S : TRUE
    OBVIOUS
  <2>3. n - i \in Back
    BY <2>2
  <2> QED
    BY <2>1, <2>3
<1>2. Min(Back) \in Back /\ \A d \in Back : Min(Back) <= d
  BY <1>1, MinIsLeast
<1>3. PICK i \in S : Min(Back) = n - i
  BY <1>2
<1>4. \A j \in S : n - j \in Back
  OBVIOUS
<1>5. \A j \in S : n - i <= n - j
  BY <1>2, <1>3, <1>4
<1>6. \A j \in S : j <= i
  BY <1>5
<1> QED
  BY <1>6

\* The running sum of whole numbers exists, and is made of whole numbers.
SumOf(f, v, n) == f = [i \in 0 .. n |-> IF i = 0 THEN 0 ELSE f[i - 1] + v[i]]

\* Such a sum exists.
LEMMA SumExists ==
  ASSUME NEW n \in Nat, NEW v \in [1 .. n -> Int]
  PROVE  \E f \in [0 .. n -> Int] : SumOf(f, v, n)
<1> DEFINE Good == {m \in 0 .. n : \E f \in [0 .. m -> Int] : SumOf(f, v, m)}
<1>1. 0 \in Good
  <2>1. [i \in 0 .. 0 |-> 0] \in [0 .. 0 -> Int]
    OBVIOUS
  <2>2. SumOf([i \in 0 .. 0 |-> 0], v, 0)
    BY DEF SumOf
  <2> QED
    BY <2>1, <2>2
<1>2. ASSUME NEW m \in 1 .. n, m - 1 \in Good
      PROVE  m \in Good
  <2>1. PICK f \in [0 .. m - 1 -> Int] : SumOf(f, v, m - 1)
    BY <1>2
  <2> DEFINE g == [i \in 0 .. m |-> IF i = m THEN f[m - 1] + v[m] ELSE f[i]]
  <2>2. g \in [0 .. m -> Int]
    <3>1. \A i \in 0 .. m : i # m => i \in 0 .. m - 1
      OBVIOUS
    <3>2. m - 1 \in 0 .. m - 1 /\ f[m - 1] + v[m] \in Int
      BY <2>1
    <3> QED
      BY <2>1, <3>1, <3>2
  <2>3. \A i \in 0 .. m : g[i] = IF i = 0 THEN 0 ELSE g[i - 1] + v[i]
    <3> TAKE i \in 0 .. m
    <3>1. CASE i = m
      BY <3>1
    <3>2. CASE i # m
      <4>1. i \in 0 .. m - 1
        BY <3>2
      <4>2. f[i] = IF i = 0 THEN 0 ELSE f[i - 1] + v[i]
        BY <2>1, <4>1 DEF SumOf
      <4>3. i # 0 => i - 1 \in 0 .. m /\ i - 1 # m
        BY <4>1
      <4> QED
        BY <3>2, <4>2, <4>3
    <3> QED
      BY <3>1, <3>2
  <2> HIDE DEF g
  <2>4. SumOf(g, v, m)
    BY <2>2, <2>3 DEF SumOf
  <2> QED
    BY <2>2, <2>4
<1> HIDE DEF Good
<1>3. Good = 0 .. n
  <2>1. Good \in SUBSET (0 .. n)
    BY DEF Good
  <2> QED
    BY <1>1, <1>2, <2>1, NoLeastCounterexample
<1>4. n \in Good
  BY <1>3
<1> QED
  BY <1>4 DEF Good

\* There is one running sum.
LEMMA SumIs ==
  ASSUME NEW n \in Nat, NEW v \in [1 .. n -> Int], NEW f, SumOf(f, v, n)
  PROVE  /\ f[n] \in Int
         /\ n = 0 => f[n] = 0
         /\ n = 1 => f[n] = v[1]
         /\ n = 2 => f[n] = v[1] + v[2]
<1>1. \A i \in 0 .. n : f[i] = IF i = 0 THEN 0 ELSE f[i - 1] + v[i]
  BY DEF SumOf
<1> DEFINE Good == {m \in 0 .. n : f[m] \in Int}
<1>2. Good = 0 .. n
  <2>1. Good \in SUBSET (0 .. n) /\ 0 \in Good
    BY <1>1
  <2>2. \A i \in 1 .. n : i - 1 \in Good => i \in Good
    BY <1>1
  <2> HIDE DEF Good
  <2> QED
    BY <2>1, <2>2, NoLeastCounterexample
<1>3. f[n] \in Int
  BY <1>2
<1>4. n = 0 => f[n] = 0
  BY <1>1
<1>5. n = 1 => f[n] = v[1]
  BY <1>1
<1>6. n = 2 => f[n] = v[1] + v[2]
  <2> SUFFICES ASSUME n = 2
               PROVE  f[n] = v[1] + v[2]
    OBVIOUS
  <2>1. f[0] = 0 /\ f[1] = f[0] + v[1] /\ f[2] = f[1] + v[2]
    BY <1>1
  <2>2. v[1] \in Int /\ v[2] \in Int
    OBVIOUS
  <2> QED
    BY <2>1, <2>2
<1> QED
  BY <1>3, <1>4, <1>5, <1>6

\* So SumUp is a whole number, and of one or two numbers the number or the two together.
LEMMA SumUpIs ==
  ASSUME NEW v \in Seq(Int)
  PROVE  /\ SumUp(v) \in Int
         /\ Len(v) = 1 => SumUp(v) = v[1]
         /\ Len(v) = 2 => SumUp(v) = v[1] + v[2]
<1> DEFINE n == Len(v)
           is(f) == f = [i \in 0 .. n |-> IF i = 0 THEN 0 ELSE f[i - 1] + v[i]]
           sum == CHOOSE f : is(f)
<1>1. n \in Nat /\ v \in [1 .. n -> Int]
  BY LenProperties
<1>2. \A f : SumOf(f, v, n) <=> is(f)
  BY DEF SumOf
<1>3. SumUp(v) = sum[n]
  BY DEF SumUp
<1> HIDE DEF n
<1>4. SumOf(sum, v, n)
  BY <1>1, <1>2, SumExists
<1> HIDE DEF sum
<1>5. /\ sum[n] \in Int
      /\ n = 1 => sum[n] = v[1]
      /\ n = 2 => sum[n] = v[1] + v[2]
  BY <1>1, <1>4, SumIs
<1> QED
  BY <1>3, <1>5 DEF n

\* What the legs of an order cost, and how many contracts they buy and sell.
LEMMA NetPremiumOf ==
  ASSUME NEW s \in Seq(Legs)
  PROVE  /\ NetPremiumCash(s) \in Int
         /\ Len(s) = 1 => NetPremiumCash(s) = Signed(s[1], s[1].limit * s[1].qty * Multiplier)
         /\ Len(s) = 2 => NetPremiumCash(s) = Signed(s[1], s[1].limit * s[1].qty * Multiplier)
                                                + Signed(s[2], s[2].limit * s[2].qty * Multiplier)
<1> DEFINE value(l) == Signed(l, l.limit * l.qty * Multiplier)
           v == [i \in DOMAIN s |-> value(s[i])]
<1>1. Len(s) \in Nat /\ DOMAIN s = 1 .. Len(s)
  BY LenProperties
<1>2. \A l \in Legs : value(l) \in Int
  BY DEF Legs, Signed, Multiplier
<1>3. NetPremiumCash(s) = SumUp(v)
  BY DEF NetPremiumCash, Total
<1> HIDE DEF value
<1>4. v \in Seq(Int) /\ Len(v) = Len(s)
  <2>1. v \in [1 .. Len(s) -> Int]
    BY <1>1, <1>2, ElementOfSeq
  <2> HIDE DEF v
  <2> QED
    BY <1>1, <2>1, SeqDef
<1>5. \A i \in 1 .. Len(s) : v[i] = value(s[i])
  BY <1>1
<1> HIDE DEF v
<1>6. /\ SumUp(v) \in Int
      /\ Len(v) = 1 => SumUp(v) = v[1]
      /\ Len(v) = 2 => SumUp(v) = v[1] + v[2]
  BY <1>4, SumUpIs
<1> QED
  BY <1>3, <1>4, <1>5, <1>6 DEF value

\* The contracts a side of the legs buys or sells.
LEMMA ContractsOf ==
  ASSUME NEW s \in Seq(Legs), NEW side
  PROVE  LET of(l) == IF l.side = side THEN l.qty ELSE 0
         IN  /\ Contracts(s, side) \in Int
             /\ Len(s) = 1 => Contracts(s, side) = of(s[1])
             /\ Len(s) = 2 => Contracts(s, side) = of(s[1]) + of(s[2])
<1> DEFINE value(l) == IF l.side = side THEN l.qty ELSE 0
           v == [i \in DOMAIN s |-> value(s[i])]
<1>1. Len(s) \in Nat /\ DOMAIN s = 1 .. Len(s)
  BY LenProperties
<1>2. \A l \in Legs : value(l) \in Int
  BY DEF Legs
<1>3. Contracts(s, side) = SumUp(v)
  BY DEF Contracts, Total
<1> HIDE DEF value
<1>4. v \in Seq(Int) /\ Len(v) = Len(s)
  <2>1. v \in [1 .. Len(s) -> Int]
    BY <1>1, <1>2, ElementOfSeq
  <2> HIDE DEF v
  <2> QED
    BY <1>1, <2>1, SeqDef
<1>5. \A i \in 1 .. Len(s) : v[i] = value(s[i])
  BY <1>1
<1> HIDE DEF v
<1>6. /\ SumUp(v) \in Int
      /\ Len(v) = 1 => SumUp(v) = v[1]
      /\ Len(v) = 2 => SumUp(v) = v[1] + v[2]
  BY <1>4, SumUpIs
<1> QED
  BY <1>3, <1>4, <1>5, <1>6 DEF value

\* The same on one name.
LEMMA ContractsOnOf ==
  ASSUME NEW s \in Seq(Legs), NEW symbol, NEW side
  PROVE  LET of(l) == IF l.underlying = symbol /\ l.side = side THEN l.qty ELSE 0
         IN  /\ Len(s) = 1 => ContractsOn(s, symbol, side) = of(s[1])
             /\ Len(s) = 2 => ContractsOn(s, symbol, side) = of(s[1]) + of(s[2])
<1> DEFINE value(l) == IF l.underlying = symbol /\ l.side = side THEN l.qty ELSE 0
           v == [i \in DOMAIN s |-> value(s[i])]
<1>1. Len(s) \in Nat /\ DOMAIN s = 1 .. Len(s)
  BY LenProperties
<1>2. \A l \in Legs : value(l) \in Int
  BY DEF Legs
<1>3. ContractsOn(s, symbol, side) = SumUp(v)
  BY DEF ContractsOn, Total
<1> HIDE DEF value
<1>4. v \in Seq(Int) /\ Len(v) = Len(s)
  <2>1. v \in [1 .. Len(s) -> Int]
    BY <1>1, <1>2, ElementOfSeq
  <2> HIDE DEF v
  <2> QED
    BY <1>1, <2>1, SeqDef
<1>5. \A i \in 1 .. Len(s) : v[i] = value(s[i])
  BY <1>1
<1> HIDE DEF v
<1>6. /\ Len(v) = 1 => SumUp(v) = v[1]
      /\ Len(v) = 2 => SumUp(v) = v[1] + v[2]
  BY <1>4, SumUpIs
<1> QED
  BY <1>3, <1>4, <1>5, <1>6 DEF value

\* The shares of a name are a whole number.
LEMMA SharesAreWhole ==
  ASSUME NEW book, book.positions \in Seq(Positions), NEW symbol
  PROVE  EquitySharesHeld(book, symbol) \in Int
<1> DEFINE value(p) == IF p.symbol = symbol /\ p.kind = "EQUITY" THEN Distance(p.qty, 0) ELSE 0
           s == book.positions
           v == [i \in DOMAIN s |-> value(s[i])]
<1>1. Len(s) \in Nat /\ DOMAIN s = 1 .. Len(s)
  BY LenProperties
<1>2. \A p \in Positions : value(p) \in Int
  BY DEF Positions, Distance
<1>3. EquitySharesHeld(book, symbol) = SumUp(v)
  BY DEF EquitySharesHeld, Total
<1> HIDE DEF value
<1>4. v \in Seq(Int)
  <2>1. v \in [1 .. Len(s) -> Int]
    BY <1>1, <1>2, ElementOfSeq
  <2> HIDE DEF v
  <2> QED
    BY <1>1, <2>1, SeqDef
<1> QED
  BY <1>3, <1>4, SumUpIs

-----------------------------------------------------------------------------

\* The first of the best: an order in which nothing comes between two that are level has
\* one in every list.
Ranks(R, I) ==
  /\ \A i, j \in I : <<i, j>> \in R => <<j, i>> \notin R
  /\ \A i, j, k \in I : <<i, k>> \in R => <<i, j>> \in R \/ <<j, k>> \in R

FirstIn(R, I, i) == \A j \in I : <<j, i>> \notin R /\ (j < i => <<i, j>> \in R)

\* A ranking of some places has a first.
LEMMA BestExists ==
  ASSUME NEW n \in Nat, NEW I \in SUBSET (1 .. n), I # {}, NEW R, Ranks(R, I)
  PROVE  \E i \in I : FirstIn(R, I, i)
<1> USE DEF Ranks, FirstIn
<1> DEFINE Best(i, m) == \A j \in I \cap (1 .. m) : <<j, i>> \notin R /\ (j < i => <<i, j>> \in R)
           Good == {m \in 0 .. n : I \cap (1 .. m) # {} => \E i \in I \cap (1 .. m) : Best(i, m)}
<1>1. Good \in SUBSET (0 .. n) /\ 0 \in Good
  OBVIOUS
<1>2. ASSUME NEW m \in 1 .. n, m - 1 \in Good
      PROVE  m \in Good
  <2>1. CASE m \notin I
    <3>1. I \cap (1 .. m) = I \cap (1 .. m - 1)
      BY <2>1
    <3>2. \A i : Best(i, m) <=> Best(i, m - 1)
      BY <3>1
    <3>3. I \cap (1 .. m - 1) # {} => \E i \in I \cap (1 .. m - 1) : Best(i, m - 1)
      BY <1>2
    <3> HIDE DEF Best
    <3> QED
      BY <3>1, <3>2, <3>3
  <2>2. CASE m \in I /\ I \cap (1 .. m - 1) = {}
    <3>1. I \cap (1 .. m) = {m}
      BY <2>2
    <3>2. Best(m, m)
      BY <3>1
    <3> QED
      BY <3>1, <3>2
  <2>3. CASE m \in I /\ I \cap (1 .. m - 1) # {}
    <3>1. PICK b \in I \cap (1 .. m - 1) : Best(b, m - 1)
      BY <1>2, <2>3
    <3>2. \A j \in I \cap (1 .. m) : j = m \/ (j \in I \cap (1 .. m - 1) /\ j < m)
      OBVIOUS
    <3>3. b \in I \cap (1 .. m) /\ b < m /\ m \in I \cap (1 .. m)
      BY <2>3
    <3>4. CASE <<m, b>> \in R
      <4>1. Best(m, m)
        <5> SUFFICES ASSUME NEW j \in I \cap (1 .. m)
                     PROVE  <<j, m>> \notin R /\ (j < m => <<m, j>> \in R)
          OBVIOUS
        <5>1. CASE j = m
          BY <5>1
        <5>2. CASE j # m
          BY <3>1, <3>2, <3>3, <3>4, <5>2
        <5> QED
          BY <5>1, <5>2
      <4> QED
        BY <3>3, <4>1
    <3>5. CASE <<m, b>> \notin R
      <4>1. Best(b, m)
        BY <3>1, <3>2, <3>3, <3>5
      <4> QED
        BY <3>3, <4>1
    <3> QED
      BY <3>4, <3>5
  <2> QED
    BY <2>1, <2>2, <2>3
<1> HIDE DEF Good
<1>3. n \in Good
  BY <1>1, <1>2, NoLeastCounterexample
<1>4. I \cap (1 .. n) = I
  OBVIOUS
<1> QED
  BY <1>3, <1>4 DEF Good

-----------------------------------------------------------------------------
(* What the analysis lists. *)

\* The largest holding is one of the long ones.
LEMMA HoldingIsHeld ==
  ASSUME NEW book \in Books, LongEquities(book) # {}
  PROVE  \E i \in LongEquities(book) : PrimaryHolding(book) = book.positions[i]
<1> DEFINE s == book.positions
           I == LongEquities(book)
           R == {p \in I \X I : s[p[1]].value > s[p[2]].value}
           best(i) == \A j \in I : /\ ~(s[j].value > s[i].value)
                                   /\ j < i => s[i].value > s[j].value
<1>1. Len(s) \in Nat /\ I \in SUBSET (1 .. Len(s)) /\ \A i \in I : s[i].value \in Int
  <2>1. s \in Seq(Positions)
    BY BooksAssumption
  <2>2. Len(s) \in Nat /\ DOMAIN s = 1 .. Len(s) /\ \A i \in DOMAIN s : s[i] \in Positions
    BY <2>1, LenProperties, ElementOfSeq
  <2> QED
    BY <2>2 DEF LongEquities, Positions
<1>2. PrimaryHolding(book) = s[CHOOSE i \in I : best(i)]
  BY DEF PrimaryHolding, FirstBest
<1> HIDE DEF s, I
<1>3. Ranks(R, I)
  BY <1>1 DEF Ranks
<1>4. I # {}
  BY DEF I
<1>5. \E i \in I : FirstIn(R, I, i)
  <2> HIDE DEF R
  <2> QED
    BY <1>1, <1>3, <1>4, BestExists
<1>6. \E i \in I : best(i)
  BY <1>5 DEF FirstIn
<1> HIDE DEF best
<1>7. (CHOOSE i \in I : best(i)) \in I
  BY <1>6
<1> QED
  BY <1>2, <1>7 DEF s, I

\* The places of a chain and what is there.
LEMMA ChainHas ==
  ASSUME NEW book \in Books
  PROVE  /\ Len(book.chain) \in Nat /\ DOMAIN book.chain = 1 .. Len(book.chain)
         /\ \A i \in DOMAIN book.chain : book.chain[i] \in Candidates
  BY BooksAssumption, LenProperties, ElementOfSeq

\* So is the contract with the nearest strike one of those it was looked for in.
LEMMA NearestIsListed ==
  ASSUME NEW book \in Books, NEW I \in SUBSET DOMAIN book.chain, I # {}, NEW target \in Int
  PROVE  \E i \in I : NearestStrike(book, I, target) = book.chain[i]
<1> DEFINE s == book.chain
           before(c, d) ==
             LET dc == Distance(c.strike, target)
                 dd == Distance(d.strike, target)
             IN  \/ dc < dd
                 \/ dc = dd /\ c.exp < d.exp
                 \/ dc = dd /\ c.exp = d.exp /\ c.strike < d.strike
           R == {p \in I \X I : before(s[p[1]], s[p[2]])}
           best(i) == \A j \in I : ~before(s[j], s[i]) /\ (j < i => before(s[i], s[j]))
<1>1. Len(s) \in Nat /\ I \in SUBSET (1 .. Len(s)) /\ \A i \in I : s[i] \in Candidates
  BY ChainHas
<1>2. NearestStrike(book, I, target) = s[CHOOSE i \in I : best(i)]
  BY DEF NearestStrike, FirstBest
<1>3. \A c, d \in Candidates : before(c, d) => ~before(d, c)
  BY DEF Candidates, Distance
<1>4. \A c, d, e \in Candidates : before(c, e) => before(c, d) \/ before(d, e)
  BY DEF Candidates, Distance
<1> HIDE DEF s, before
<1>5. Ranks(R, I)
  BY <1>1, <1>3, <1>4 DEF Ranks
<1>6. \E i \in I : FirstIn(R, I, i)
  <2> HIDE DEF R
  <2> QED
    BY <1>1, <1>5, BestExists
<1>7. \E i \in I : best(i)
  BY <1>6 DEF FirstIn
<1> HIDE DEF best
<1>8. (CHOOSE i \in I : best(i)) \in I
  BY <1>7
<1> QED
  BY <1>2, <1>8 DEF s

\* An agent that can hedge has a whole contract's worth of shares, and a put to buy.
LEMMA CanHedgeMeans ==
  ASSUME NEW book \in Books, CanHedge(book)
  PROVE  LET holding == PrimaryHolding(book)
         IN  /\ ContractsForShares(holding.qty) \in Nat \ {0}
             /\ Spot(holding) \in Int
             /\ \E p \in PutsFor(book, holding.symbol) : LongPut(book, holding) = book.chain[p]
<1> DEFINE holding == PrimaryHolding(book)
<1>1. LongEquities(book) # {}
  BY DEF CanHedge, PrimaryHolding
<1>2. PICK i \in LongEquities(book) : holding = book.positions[i]
  BY <1>1, HoldingIsHeld
<1>3. holding.qty \in Nat \ {0} /\ holding.value \in Int
  <2>1. book.positions \in Seq(Positions)
    BY BooksAssumption
  <2>2. i \in DOMAIN book.positions /\ book.positions[i].qty > 0
    BY DEF LongEquities
  <2>3. book.positions[i] \in Positions
    BY <2>1, <2>2, LenProperties, ElementOfSeq
  <2> QED
    BY <1>2, <2>2, <2>3 DEF Positions
<1>4. ContractsForShares(holding.qty) \in Nat \ {0}
  <2>1. ContractsForShares(holding.qty) >= 1
    BY DEF CanHedge
  <2> HIDE DEF holding
  <2> QED
    BY <1>3, <2>1 DEF ContractsForShares, Multiplier
<1>5. Spot(holding) \in Int
  <2> HIDE DEF holding
  <2> QED
    BY <1>3 DEF Spot
<1>6. FloorStrike(book, holding) \in Int
  <2>1. book.tolerancePct \in Int
    BY BooksAssumption
  <2> HIDE DEF holding
  <2> QED
    BY <1>5, <2>1 DEF FloorStrike
<1>7. /\ PutsFor(book, holding.symbol) # {}
      /\ PutsFor(book, holding.symbol) \in SUBSET DOMAIN book.chain
  BY DEF CanHedge, PutsFor, CandidatesFor
<1>8. \E p \in PutsFor(book, holding.symbol) : LongPut(book, holding) = book.chain[p]
  <2> HIDE DEF holding
  <2> QED
    BY <1>6, <1>7, NearestIsListed DEF LongPut
<1> QED
  BY <1>4, <1>5, <1>8

-----------------------------------------------------------------------------
(* The hypotheses of the families. *)

\* The put a spread sells is one of those below the long put.
LEMMA ShortIsListed ==
  ASSUME NEW book \in Books, NEW I \in SUBSET DOMAIN book.chain, I # {}
  PROVE  \E i \in I : ShortPut(book, I) = book.chain[i]
<1> DEFINE s == book.chain
           before(p, q) == p.strike > q.strike \/ (p.strike = q.strike /\ p.premium < q.premium)
           R == {p \in I \X I : before(s[p[1]], s[p[2]])}
           best(i) == \A j \in I : ~before(s[j], s[i]) /\ (j < i => before(s[i], s[j]))
<1>1. Len(s) \in Nat /\ I \in SUBSET (1 .. Len(s)) /\ \A i \in I : s[i] \in Candidates
  BY ChainHas
<1>2. ShortPut(book, I) = s[CHOOSE i \in I : best(i)]
  BY DEF ShortPut, FirstBest
<1>3. \A c, d \in Candidates : before(c, d) => ~before(d, c)
  BY DEF Candidates
<1>4. \A c, d, e \in Candidates : before(c, e) => before(c, d) \/ before(d, e)
  BY DEF Candidates
<1> HIDE DEF s, before
<1>5. Ranks(R, I)
  BY <1>1, <1>3, <1>4 DEF Ranks
<1>6. \E i \in I : FirstIn(R, I, i)
  <2> HIDE DEF R
  <2> QED
    BY <1>1, <1>5, BestExists
<1>7. \E i \in I : best(i)
  BY <1>6 DEF FirstIn
<1> HIDE DEF best
<1>8. (CHOOSE i \in I : best(i)) \in I
  BY <1>7
<1> QED
  BY <1>2, <1>8 DEF s

\* The call a collar sells is one of those it was looked for in.
LEMMA CapIsListed ==
  ASSUME NEW book \in Books, NEW I \in SUBSET DOMAIN book.chain, I # {}, NEW put \in Candidates
  PROVE  \E i \in I : CapCall(book, I, put) = book.chain[i]
<1> DEFINE s == book.chain
           gap(c) == Distance(c.premium, put.premium)
           before(c, d) == gap(c) < gap(d) \/ (gap(c) = gap(d) /\ c.strike > d.strike)
           R == {p \in I \X I : before(s[p[1]], s[p[2]])}
           best(i) == \A j \in I : ~before(s[j], s[i]) /\ (j < i => before(s[i], s[j]))
<1>1. Len(s) \in Nat /\ I \in SUBSET (1 .. Len(s)) /\ \A i \in I : s[i] \in Candidates
  BY ChainHas
<1>2. CapCall(book, I, put) = s[CHOOSE i \in I : best(i)]
  BY DEF CapCall, FirstBest
<1>3. \A c, d \in Candidates : before(c, d) => ~before(d, c)
  BY DEF Candidates, Distance
<1>4. \A c, d, e \in Candidates : before(c, e) => before(c, d) \/ before(d, e)
  BY DEF Candidates, Distance
<1> HIDE DEF s, before
<1>5. Ranks(R, I)
  BY <1>1, <1>3, <1>4 DEF Ranks
<1>6. \E i \in I : FirstIn(R, I, i)
  <2> HIDE DEF R
  <2> QED
    BY <1>1, <1>5, BestExists
<1>7. \E i \in I : best(i)
  BY <1>6 DEF FirstIn
<1> HIDE DEF best
<1>8. (CHOOSE i \in I : best(i)) \in I
  BY <1>7
<1> QED
  BY <1>2, <1>8 DEF s

-----------------------------------------------------------------------------

\* A hedge as the agents build it: a put bought within the budget, and beside it a put
\* or a call of the same name sold for as many contracts.
Affordable(h, book) ==
  /\ NetPremiumCash(h.legs) <= HedgeBudgetCash(book)
  /\ NetPremiumCash(h.legs) <= h.cost

OfOneLeg(h, book) ==
  \E p \in DOMAIN book.chain, n \in Nat \ {0} :
    /\ h.legs = <<Leg(book.chain[p], "BUY", n)>>
    /\ book.chain[p].right = "PUT"
    /\ h.strategy = "PROTECTIVE_PUT"

OfTwoLegs(h, book) ==
  \E p, q \in DOMAIN book.chain, n \in Nat \ {0} :
    /\ h.legs = <<Leg(book.chain[p], "BUY", n), Leg(book.chain[q], "SELL", n)>>
    /\ book.chain[p].right = "PUT"
    /\ book.chain[q].underlying = book.chain[p].underlying
    /\ \/ book.chain[q].right = "PUT" /\ h.strategy = "PUT_SPREAD"
       \/ book.chain[q].right = "CALL" /\ h.strategy = "COLLAR"

Proposal(h, book) ==
  /\ h.legs \in Seq(Legs) /\ h.cost \in Int
  /\ h.legs = <<>> \/ (Affordable(h, book) /\ (OfOneLeg(h, book) \/ OfTwoLegs(h, book)))

\* A leg on a listed contract.
LEMMA LegIsLeg ==
  ASSUME NEW c \in Candidates, NEW side \in {"BUY", "SELL"}, NEW n \in Nat
  PROVE  Leg(c, side, n) \in Legs
  BY DEF Candidates, Leg, Legs

\* One leg and two, as sequences.
LEMMA OneLegged ==
  ASSUME NEW a \in Legs
  PROVE  <<a>> \in Seq(Legs) /\ Len(<<a>>) = 1 /\ <<a>> # <<>>
  OBVIOUS

\* Two legs.
LEMMA TwoLegged ==
  ASSUME NEW a \in Legs, NEW b \in Legs
  PROVE  <<a, b>> \in Seq(Legs) /\ Len(<<a, b>>) = 2 /\ <<a, b>> # <<>>
  OBVIOUS

\* A hypothesis that turned itself down.
LEMMA NothingProposed ==
  ASSUME NEW book \in Books, NEW family
  PROVE  Proposal(NotViable(family), book) /\ Proposal(NoHedge, book)
  BY EmptySeq DEF Proposal, NotViable, NoHedge

\* Each family builds a Proposal, or nothing.
LEMMA PutProposed == ASSUME NEW book \in Books PROVE Proposal(ProtectivePut(book), book)
<1> DEFINE holding == PrimaryHolding(book)
           n == ContractsForShares(holding.qty)
           legs == <<Leg(LongPut(book, holding), "BUY", n)>>
           cost == NetPremiumCash(legs)
           h == Viable("PROTECTIVE_PUT", book, holding, legs, cost)
<1>1. CASE CanHedge(book) /\ cost <= HedgeBudgetCash(book)
  <2>1. ProtectivePut(book) = h
    BY <1>1 DEF ProtectivePut
  <2>2. PICK p \in PutsFor(book, holding.symbol) : LongPut(book, holding) = book.chain[p]
    BY <1>1, CanHedgeMeans
  <2>3. n \in Nat \ {0}
    BY <1>1, CanHedgeMeans
  <2>4. p \in DOMAIN book.chain /\ book.chain[p].right = "PUT"
    BY <2>2 DEF PutsFor, CandidatesFor
  <2> HIDE DEF n
  <2>5. Leg(LongPut(book, holding), "BUY", n) \in Legs
    BY <2>2, <2>3, <2>4, ChainHas, LegIsLeg
  <2>6. legs \in Seq(Legs)
    BY <2>5, OneLegged
  <2> HIDE DEF legs
  <2>7. cost \in Int
    BY <2>6, NetPremiumOf
  <2>8. h.legs = legs /\ h.cost = cost /\ h.strategy = "PROTECTIVE_PUT"
    BY DEF Viable
  <2> HIDE DEF h
  <2>9. OfOneLeg(h, book)
    BY <2>2, <2>3, <2>4, <2>8 DEF OfOneLeg, legs
  <2>10. Affordable(h, book)
    BY <1>1, <2>7, <2>8 DEF Affordable
  <2> QED
    BY <2>1, <2>6, <2>7, <2>8, <2>9, <2>10 DEF Proposal
<1>2. CASE ~(CanHedge(book) /\ cost <= HedgeBudgetCash(book))
  <2>1. ProtectivePut(book) = NotViable("PROTECTIVE_PUT")
    BY <1>2 DEF ProtectivePut
  <2> QED
    BY <2>1, NothingProposed
<1> QED
  BY <1>1, <1>2

\* So does the spread.
LEMMA SpreadProposed == ASSUME NEW book \in Books PROVE Proposal(PutSpread(book), book)
<1> DEFINE holding == PrimaryHolding(book)
           n == ContractsForShares(holding.qty)
           long == LongPut(book, holding)
           lowers == {i \in PutsFor(book, holding.symbol) : book.chain[i].strike < long.strike}
           short == ShortPut(book, lowers)
           legs == <<Leg(long, "BUY", n), Leg(short, "SELL", n)>>
           cost == NetPremiumCash(legs)
           h == Viable("PUT_SPREAD", book, holding, legs, cost)
           can == CanHedge(book) /\ lowers # {} /\ cost > 0 /\ cost <= HedgeBudgetCash(book)
<1>1. CASE can
  <2>1. PutSpread(book) = h
    BY <1>1 DEF PutSpread
  <2>2. PICK p \in PutsFor(book, holding.symbol) : long = book.chain[p]
    BY <1>1, CanHedgeMeans
  <2>3. n \in Nat \ {0}
    BY <1>1, CanHedgeMeans
  <2>4. PICK q \in lowers : short = book.chain[q]
    <3>1. lowers \in SUBSET DOMAIN book.chain
      BY DEF PutsFor, CandidatesFor
    <3> HIDE DEF lowers
    <3> QED
      BY <1>1, <3>1, ShortIsListed
  <2>5. /\ p \in DOMAIN book.chain /\ q \in DOMAIN book.chain
        /\ book.chain[p].right = "PUT" /\ book.chain[q].right = "PUT"
        /\ book.chain[q].underlying = book.chain[p].underlying
    BY <2>2, <2>4 DEF PutsFor, CandidatesFor
  <2> HIDE DEF n, long, short
  <2>6. Leg(long, "BUY", n) \in Legs /\ Leg(short, "SELL", n) \in Legs
    BY <2>2, <2>3, <2>4, <2>5, ChainHas, LegIsLeg
  <2>7. legs \in Seq(Legs)
    BY <2>6, TwoLegged
  <2>8. legs = <<Leg(book.chain[p], "BUY", n), Leg(book.chain[q], "SELL", n)>>
    BY <2>2, <2>4, Zenon
  <2> HIDE DEF legs
  <2>9. cost \in Int
    BY <2>7, NetPremiumOf
  <2>10. h.legs = legs /\ h.cost = cost /\ h.strategy = "PUT_SPREAD"
    BY DEF Viable
  <2> HIDE DEF h
  <2>11. OfTwoLegs(h, book)
    BY <2>3, <2>5, <2>8, <2>10 DEF OfTwoLegs
  <2>12. Affordable(h, book)
    BY <1>1, <2>9, <2>10 DEF Affordable
  <2> QED
    BY <2>1, <2>7, <2>9, <2>10, <2>11, <2>12 DEF Proposal
<1>2. CASE ~can
  <2>1. PutSpread(book) = NotViable("PUT_SPREAD")
    BY <1>2 DEF PutSpread
  <2> QED
    BY <2>1, NothingProposed
<1> QED
  BY <1>1, <1>2

\* And the collar.
LEMMA CollarProposed == ASSUME NEW book \in Books PROVE Proposal(Collar(book), book)
<1> DEFINE holding == PrimaryHolding(book)
           n == ContractsForShares(holding.qty)
           put == LongPut(book, holding)
           calls == CallsFor(book, holding.symbol)
           otm == {i \in calls : book.chain[i].strike >= Spot(holding)}
           among == IF otm = {} THEN calls ELSE otm
           call == CapCall(book, among, put)
           legs == <<Leg(put, "BUY", n), Leg(call, "SELL", n)>>
           net == NetPremiumCash(legs)
           h == Viable("COLLAR", book, holding, legs, IF net > 0 THEN net ELSE 0)
           can == CanHedge(book) /\ calls # {} /\ net <= HedgeBudgetCash(book)
<1>1. CASE can
  <2>1. Collar(book) = h
    BY <1>1 DEF Collar
  <2>2. PICK p \in PutsFor(book, holding.symbol) : put = book.chain[p]
    BY <1>1, CanHedgeMeans
  <2>3. n \in Nat \ {0}
    BY <1>1, CanHedgeMeans
  <2>4. p \in DOMAIN book.chain /\ book.chain[p].right = "PUT"
            /\ book.chain[p].underlying = holding.symbol
    BY <2>2 DEF PutsFor, CandidatesFor
  <2>5. put \in Candidates
    BY <2>2, <2>4, ChainHas
  <2>6. PICK q \in calls : call = book.chain[q]
    <3>1. among \in SUBSET calls /\ among # {}
      BY <1>1
    <3>2. among \in SUBSET DOMAIN book.chain
      BY <3>1 DEF CallsFor, CandidatesFor
    <3> HIDE DEF among, put
    <3>3. \E q \in among : call = book.chain[q]
      BY <2>5, <3>1, <3>2, CapIsListed
    <3> HIDE DEF call, calls
    <3> QED
      BY <3>1, <3>3
  <2>7. q \in DOMAIN book.chain /\ book.chain[q].right = "CALL"
            /\ book.chain[q].underlying = holding.symbol
    BY <2>6 DEF CallsFor, CandidatesFor
  <2> HIDE DEF n, put, call
  <2>8. Leg(put, "BUY", n) \in Legs /\ Leg(call, "SELL", n) \in Legs
    BY <2>3, <2>5, <2>6, <2>7, ChainHas, LegIsLeg
  <2>9. legs \in Seq(Legs)
    BY <2>8, TwoLegged
  <2>10. legs = <<Leg(book.chain[p], "BUY", n), Leg(book.chain[q], "SELL", n)>>
    BY <2>2, <2>6, Zenon
  <2> HIDE DEF legs
  <2>11. net \in Int
    BY <2>9, NetPremiumOf
  <2>12. /\ h.legs = legs /\ h.cost = (IF net > 0 THEN net ELSE 0)
         /\ h.strategy = "COLLAR"
    BY DEF Viable
  <2> HIDE DEF h
  <2>13. OfTwoLegs(h, book)
    BY <2>3, <2>4, <2>7, <2>10, <2>12 DEF OfTwoLegs
  <2>14. h.cost \in Int /\ Affordable(h, book)
    BY <1>1, <2>11, <2>12 DEF Affordable
  <2> QED
    BY <2>1, <2>9, <2>12, <2>13, <2>14 DEF Proposal
<1>2. CASE ~can
  <2>1. Collar(book) = NotViable("COLLAR")
    BY <1>2 DEF Collar
  <2> QED
    BY <2>1, NothingProposed
<1> QED
  BY <1>1, <1>2

\* All four hypotheses are Proposals.
LEMMA AllProposed ==
  ASSUME NEW book \in Books
  PROVE  DOMAIN Propose(book) = 1 .. 4 /\ \A i \in 1 .. 4 : Proposal(Propose(book)[i], book)
<1>1. Propose(book) = <<ProtectivePut(book), PutSpread(book), Collar(book), NoHedge>>
  BY DEF Propose
<1>2. \A a, b, c, d : LET s == <<a, b, c, d>>
                      IN  DOMAIN s = 1 .. 4 /\ s[1] = a /\ s[2] = b /\ s[3] = c /\ s[4] = d
  OBVIOUS
<1>3. /\ DOMAIN Propose(book) = 1 .. 4
      /\ Propose(book)[1] = ProtectivePut(book) /\ Propose(book)[2] = PutSpread(book)
      /\ Propose(book)[3] = Collar(book) /\ Propose(book)[4] = NoHedge
  BY <1>1, <1>2
<1>4. \A i \in 1 .. 4 : i = 1 \/ i = 2 \/ i = 3 \/ i = 4
  OBVIOUS
<1>5. /\ Proposal(ProtectivePut(book), book) /\ Proposal(PutSpread(book), book)
      /\ Proposal(Collar(book), book) /\ Proposal(NoHedge, book)
  BY PutProposed, SpreadProposed, CollarProposed, NothingProposed
<1> QED
  BY <1>3, <1>4, <1>5, Zenon

-----------------------------------------------------------------------------

\* The cheapest of some hypotheses is one of them.
LEMMA CheapestIsListed ==
  ASSUME NEW hs, NEW n \in Nat, NEW I \in SUBSET (1 .. n), I # {}, \A i \in I : hs[i].cost \in Int
  PROVE  \E i \in I : Cheapest(hs, I) = hs[i]
<1> DEFINE before(g, h) == g.cost < h.cost
           R == {p \in I \X I : before(hs[p[1]], hs[p[2]])}
           best(i) == \A j \in I : ~before(hs[j], hs[i]) /\ (j < i => before(hs[i], hs[j]))
<1>1. Cheapest(hs, I) = hs[CHOOSE i \in I : best(i)]
  BY DEF Cheapest, FirstBest
<1>2. Ranks(R, I)
  BY DEF Ranks
<1>3. \E i \in I : FirstIn(R, I, i)
  <2> HIDE DEF R
  <2> QED
    BY <1>2, BestExists
<1>4. \E i \in I : best(i)
  BY <1>3 DEF FirstIn
<1> HIDE DEF best
<1>5. (CHOOSE i \in I : best(i)) \in I
  BY <1>4
<1> QED
  BY <1>1, <1>5

\* A strategy is selected from what the pre-filter kept, whichever way.
LEMMA SelectedIsKept ==
  ASSUME NEW book \in Books, NEW reply,
         Run(Propose(book), Prefilter(Propose(book), book), book, reply).decision
           = "SELECT_STRATEGY"
  PROVE  \E i \in 1 .. 4 :
           LET h == Propose(book)[i]
           IN  /\ Run(Propose(book), Prefilter(Propose(book), book), book, reply).selected = h
               /\ h.viable /\ Kept(h, book)
<1> DEFINE hs == Propose(book)
           kept == Prefilter(hs, book)
           viable == {i \in kept : hs[i].viable}
           r == Run(hs, kept, book, reply)
<1>1. viable \in SUBSET (1 .. 4) /\ \A i \in viable : hs[i].viable /\ Kept(hs[i], book)
  BY AllProposed DEF Prefilter
<1>2. \A i \in viable : hs[i].cost \in Int
  BY <1>1, AllProposed DEF Proposal
<1> HIDE DEF hs, viable
<1>3. ASSUME FallbackDecision(hs, viable).decision = "SELECT_STRATEGY"
      PROVE  \E i \in viable : FallbackDecision(hs, viable).selected = hs[i]
  <2> DEFINE hedges == {i \in viable : hs[i].strategy # "NO_HEDGE"}
  <2>1. hedges # {}
    BY <1>3 DEF FallbackDecision, Decide
  <2>2. FallbackDecision(hs, viable).selected = Cheapest(hs, hedges)
    BY <2>1 DEF FallbackDecision, Decide, Select
  <2>3. hedges \in SUBSET (1 .. 4) /\ \A i \in hedges : hs[i].cost \in Int
    BY <1>1, <1>2
  <2>4. hedges \in SUBSET viable
    OBVIOUS
  <2> HIDE DEF hedges
  <2> QED
    BY <2>1, <2>2, <2>3, <2>4, CheapestIsListed
<1>4. ASSUME Chosen(hs, viable, reply.strategy).decision = "SELECT_STRATEGY"
      PROVE  \E i \in viable : Chosen(hs, viable, reply.strategy).selected = hs[i]
  <2> DEFINE named == NamedHypothesis(hs, viable, reply.strategy)
  <2>1. CASE named = {}
    BY <1>3, <1>4, <2>1 DEF Chosen
  <2>2. CASE named # {}
    <3>1. named \in SUBSET viable /\ named \in SUBSET Nat
      <4>1. \A i \in named : i \in viable
        BY DEF NamedHypothesis
      <4>2. \A i \in viable : i \in Nat
        BY <1>1
      <4> HIDE DEF named
      <4> QED
        BY <4>1, <4>2
    <3>2. Min(named) \in viable
      <4> HIDE DEF named
      <4> QED
        BY <2>2, <3>1, MinIsLeast
    <3>3. Chosen(hs, viable, reply.strategy).selected = hs[Min(named)]
      BY <2>2 DEF Chosen, Select, Decide
    <3> QED
      BY <3>2, <3>3
  <2> QED
    BY <2>1, <2>2
<1>5. \E i \in viable : r.selected = hs[i]
  <2>1. r.decision = "SELECT_STRATEGY"
    BY DEF hs
  <2>2. CASE Validate(hs, kept) # None
    <3>1. r = Decide("NO_TRADE", None)
      BY <2>2 DEF Run, Validate
    <3> QED
      BY <2>1, <3>1 DEF Decide
  <2>3. CASE Validate(hs, kept) = None
    <3>1. r = SelectWith(hs, viable, book, reply)
      BY <2>3 DEF Run, viable
    <3>2. \/ r = FallbackDecision(hs, viable)
          \/ r = Chosen(hs, viable, reply.strategy)
      BY <2>1, <3>1 DEF SelectWith, Decide
    <3> QED
      BY <1>3, <1>4, <2>1, <3>2
  <2> QED
    BY <2>2, <2>3
<1> QED
  BY <1>1, <1>5 DEF hs

\* What the pre-filter kept is inside the gate's limits.
LEMMA KeptIsWithinLimits ==
  ASSUME NEW h, NEW book, h.viable, Kept(h, book)
  PROVE  Violations(h, book) \cap LimitCodes = {}
<1>1. CheckHedgeBudget(h, book) /\ CheckMaxHedgeRatio(h, book) /\ CheckMaxNotional(h, book)
  BY DEF Kept, CheckAllLimits, PrefilterLimits, EngineLimits, CheckHedgeBudget,
         CheckMaxHedgeRatio, CheckMaxNotional
<1> QED
  BY <1>1 DEF Violations, LimitCodes

-----------------------------------------------------------------------------
(* The changes of the gate, one after the other. *)

\* What build_execution_plan works on, for legs at the places D.
Drafts(D) ==
  [legs : [D -> Legs], limit : Int \cup {None}, tolerance : Int, legging : BOOLEAN,
   fault : {None, "badPlan"}]

\* Writing a field of one leg or of every leg.
LEMMA WithLegsIs ==
  ASSUME NEW D, NEW d \in Drafts(D), NEW m \in Modifications, NEW field \in {"qty", "limit"}
  PROVE  /\ WithLegs(d, m, field) \in Drafts(D)
         /\ WithLegs(d, m, field).limit = d.limit /\ WithLegs(d, m, field).fault = d.fault
         /\ WithLegs(d, m, field).tolerance = d.tolerance
         /\ WithLegs(d, m, field).legging = d.legging
         /\ \A k \in D :
              WithLegs(d, m, field).legs[k] =
                IF m.leg \in {None, k} THEN [d.legs[k] EXCEPT ![field] = m.value] ELSE d.legs[k]
<1> DEFINE legs == [i \in DOMAIN d.legs |->
                      IF m.leg \in {None, i} THEN [d.legs[i] EXCEPT ![field] = m.value]
                                             ELSE d.legs[i]]
<1>1. d.legs \in [D -> Legs] /\ m.value \in Int
  BY DEF Drafts, Modifications
<1>2. \A k \in D : [d.legs[k] EXCEPT ![field] = m.value] \in Legs
  <2> TAKE k \in D
  <2>1. d.legs[k] \in Legs
    BY <1>1
  <2>2. [d.legs[k] EXCEPT !["qty"] = m.value] \in Legs
    BY <1>1, <2>1 DEF Legs
  <2>3. [d.legs[k] EXCEPT !["limit"] = m.value] \in Legs
    BY <1>1, <2>1 DEF Legs
  <2> QED
    BY <2>2, <2>3
<1>3. legs \in [D -> Legs]
  BY <1>1, <1>2
<1>4. WithLegs(d, m, field) = [d EXCEPT !.legs = legs]
  BY DEF WithLegs
<1>5. \A k \in D : legs[k] = IF m.leg \in {None, k} THEN [d.legs[k] EXCEPT ![field] = m.value]
                                                     ELSE d.legs[k]
  BY <1>1
<1> HIDE DEF legs
<1>6. /\ WithLegs(d, m, field) \in Drafts(D) /\ WithLegs(d, m, field).legs = legs
      /\ WithLegs(d, m, field).limit = d.limit /\ WithLegs(d, m, field).fault = d.fault
      /\ WithLegs(d, m, field).tolerance = d.tolerance
      /\ WithLegs(d, m, field).legging = d.legging
  BY <1>3, <1>4 DEF Drafts
<1> QED
  BY <1>5, <1>6

\* A leg that a change left to be the same contract, on the same side.
SameLeg(l, k) == SameContract(l, k) /\ l.side = k.side

\* One change names something there is.
Fits(m, D) == /\ m.field \in OrderFields /\ m.leg \in D \cup {None}
              /\ m.field = "quantity" => m.value > 0

\* A field after a change: what it says if it is about the field, else as it was.
After(m, changes, new, old) == new = IF m \in changes THEN Said(m) ELSE old

\* What one change does to a draft, when it can be made.
LEMMA ChangedIs ==
  ASSUME NEW D, None \notin D, NEW d \in Drafts(D), NEW m \in Modifications, Applicable(d, m)
  PROVE  LET e == Changed(d, m)
         IN  /\ e \in Drafts(D) /\ e.fault = d.fault /\ Fits(m, D)
             /\ \A k \in D :
                  /\ After(m, Asking("quantity", {None, k}), e.legs[k].qty, d.legs[k].qty)
                  /\ After(m, Asking("limit_price", {k}), e.legs[k].limit, d.legs[k].limit)
                  /\ SameLeg(e.legs[k], d.legs[k])
             /\ After(m, Asking("limit_price", {None}), e.limit, d.limit)
             /\ After(m, Asking("price_tolerance_pct", {None}), e.tolerance, d.tolerance)
             /\ After(m, Asking("allow_legging", {None}), e.legging, d.legging)
<1> DEFINE e == Changed(d, m)
<1>1. Fits(m, D)
  BY DEF Applicable, Drafts, Fits
<1>2. m.value \in Int /\ \A k \in D : d.legs[k] \in Legs
  BY DEF Modifications, Drafts
<1>3. \A k \in D : SameLeg(d.legs[k], d.legs[k])
  BY DEF SameLeg, SameContract
<1>4. \A field, legs : m \in Asking(field, legs) <=> m.field = field /\ m.leg \in legs
  BY DEF Asking
<1>5. Said(m) = IF m.field = "allow_legging" THEN m.value > 0 ELSE m.value
  BY DEF Said
<1>6. m.field \in {"price_tolerance_pct", "allow_legging"} => m.leg = None
  BY DEF Applicable, LegFields
<1>7. CASE m.field = "quantity"
  <2>1. e = WithLegs(d, m, "qty")
    BY <1>7 DEF Changed
  <2>2. /\ e \in Drafts(D) /\ e.limit = d.limit /\ e.fault = d.fault
        /\ e.tolerance = d.tolerance /\ e.legging = d.legging
        /\ \A k \in D : e.legs[k] =
             IF m.leg \in {None, k} THEN [d.legs[k] EXCEPT !["qty"] = m.value] ELSE d.legs[k]
    BY <2>1, WithLegsIs
  <2> HIDE DEF e
  <2>3. \A k \in D : SameLeg([d.legs[k] EXCEPT !["qty"] = m.value], d.legs[k])
    BY <1>2 DEF SameLeg, SameContract, Legs
  <2>4. \A k \in D : /\ [d.legs[k] EXCEPT !["qty"] = m.value].qty = m.value
                     /\ [d.legs[k] EXCEPT !["qty"] = m.value].limit = d.legs[k].limit
    BY <1>2 DEF Legs
  <2>5. Said(m) = m.value
    BY <1>5, <1>7
  <2>6. \A k \in D : /\ After(m, Asking("quantity", {None, k}), e.legs[k].qty, d.legs[k].qty)
                     /\ After(m, Asking("limit_price", {k}), e.legs[k].limit, d.legs[k].limit)
                     /\ SameLeg(e.legs[k], d.legs[k])
    <3> TAKE k \in D
    <3>1. e.legs[k] = IF m.leg \in {None, k} THEN [d.legs[k] EXCEPT !["qty"] = m.value]
                                             ELSE d.legs[k]
      BY <2>2
    <3>2. SameLeg(e.legs[k], d.legs[k])
      BY <1>3, <2>3, <3>1
    <3>3. /\ m \in Asking("quantity", {None, k}) <=> m.field = "quantity" /\ m.leg \in {None, k}
          /\ m \in Asking("limit_price", {k}) <=> m.field = "limit_price" /\ m.leg \in {k}
      BY <1>4
    <3>4. /\ e.legs[k].qty = IF m \in Asking("quantity", {None, k}) THEN Said(m) ELSE d.legs[k].qty
          /\ e.legs[k].limit = IF m \in Asking("limit_price", {k}) THEN Said(m) ELSE d.legs[k].limit
      BY <1>7, <2>4, <2>5, <3>1, <3>3
    <3> QED
      BY <3>2, <3>4 DEF After
  <2> QED
    BY <1>1, <1>4, <1>7, <2>2, <2>6 DEF e, After
<1>8. CASE m.field = "limit_price" /\ m.leg # None
  <2>1. e = WithLegs(d, m, "limit")
    BY <1>8 DEF Changed
  <2>2. /\ e \in Drafts(D) /\ e.limit = d.limit /\ e.fault = d.fault
        /\ e.tolerance = d.tolerance /\ e.legging = d.legging
        /\ \A k \in D : e.legs[k] =
             IF m.leg \in {None, k} THEN [d.legs[k] EXCEPT !["limit"] = m.value] ELSE d.legs[k]
    BY <2>1, WithLegsIs
  <2> HIDE DEF e
  <2>3. \A k \in D : SameLeg([d.legs[k] EXCEPT !["limit"] = m.value], d.legs[k])
    BY <1>2 DEF SameLeg, SameContract, Legs
  <2>4. \A k \in D : /\ [d.legs[k] EXCEPT !["limit"] = m.value].qty = d.legs[k].qty
                     /\ [d.legs[k] EXCEPT !["limit"] = m.value].limit = m.value
    BY <1>2 DEF Legs
  <2>5. Said(m) = m.value
    BY <1>5, <1>8
  <2>6. \A k \in D : /\ After(m, Asking("quantity", {None, k}), e.legs[k].qty, d.legs[k].qty)
                     /\ After(m, Asking("limit_price", {k}), e.legs[k].limit, d.legs[k].limit)
                     /\ SameLeg(e.legs[k], d.legs[k])
    <3> TAKE k \in D
    <3>1. e.legs[k] = IF m.leg \in {None, k} THEN [d.legs[k] EXCEPT !["limit"] = m.value]
                                             ELSE d.legs[k]
      BY <2>2
    <3>2. SameLeg(e.legs[k], d.legs[k])
      BY <1>3, <2>3, <3>1
    <3>3. /\ m \in Asking("quantity", {None, k}) <=> m.field = "quantity" /\ m.leg \in {None, k}
          /\ m \in Asking("limit_price", {k}) <=> m.field = "limit_price" /\ m.leg \in {k}
      BY <1>4
    <3>4. /\ e.legs[k].qty = IF m \in Asking("quantity", {None, k}) THEN Said(m) ELSE d.legs[k].qty
          /\ e.legs[k].limit = IF m \in Asking("limit_price", {k}) THEN Said(m) ELSE d.legs[k].limit
      BY <1>8, <2>4, <2>5, <3>1, <3>3
    <3> QED
      BY <3>2, <3>4 DEF After
  <2> QED
    BY <1>1, <1>4, <1>8, <2>2, <2>6 DEF e, After
<1>9. CASE /\ m.field \in {"limit_price", "price_tolerance_pct", "allow_legging"}
           /\ m.leg = None
  <2>1. /\ m.field = "limit_price" => e = [d EXCEPT !.limit = m.value]
        /\ m.field = "price_tolerance_pct" => e = [d EXCEPT !.tolerance = m.value]
        /\ m.field = "allow_legging" => e = [d EXCEPT !.legging = Said(m)]
    BY <1>5, <1>9 DEF Changed
  <2>2. m.field = "allow_legging" => Said(m) \in BOOLEAN
    BY <1>5
  <2>3. m.field # "allow_legging" => Said(m) = m.value
    BY <1>5
  <2> HIDE DEF e
  <2>4. /\ e \in Drafts(D) /\ e.fault = d.fault /\ e.legs = d.legs
        /\ e.limit = IF m.field = "limit_price" THEN Said(m) ELSE d.limit
        /\ e.tolerance = IF m.field = "price_tolerance_pct" THEN Said(m) ELSE d.tolerance
        /\ e.legging = IF m.field = "allow_legging" THEN Said(m) ELSE d.legging
    <3>1. CASE m.field = "limit_price"
      BY <1>2, <2>1, <2>3, <3>1 DEF Drafts
    <3>2. CASE m.field = "price_tolerance_pct"
      BY <1>2, <2>1, <2>3, <3>2 DEF Drafts
    <3>3. CASE m.field = "allow_legging"
      BY <2>1, <2>2, <3>3 DEF Drafts
    <3> QED
      BY <1>9, <3>1, <3>2, <3>3
  <2>5. \A k \in D : /\ After(m, Asking("quantity", {None, k}), e.legs[k].qty, d.legs[k].qty)
                     /\ After(m, Asking("limit_price", {k}), e.legs[k].limit, d.legs[k].limit)
                     /\ SameLeg(e.legs[k], d.legs[k])
    BY <1>3, <1>4, <1>9, <2>4 DEF After
  <2> QED
    BY <1>1, <1>4, <1>9, <2>4, <2>5 DEF e, After
<1> QED
  BY <1>1, <1>6, <1>7, <1>8, <1>9 DEF Fits, OrderFields, LegFields

\* The drafts between the changes.
DraftsOf(f, h, mods, n) ==
  f = [i \in 0 .. n |-> IF i = 0 THEN Start(h) ELSE Apply(f[i - 1], mods[i])]

\* There are such drafts.
LEMMA DraftsExist ==
  ASSUME NEW h, NEW mods, NEW n \in Nat
  PROVE  \E f : DraftsOf(f, h, mods, n)
<1> DEFINE Good == {m \in 0 .. n : \E f : DraftsOf(f, h, mods, m)}
<1>1. 0 \in Good
  <2> DEFINE f == [i \in 0 .. 0 |-> Start(h)]
  <2>1. f = [i \in 0 .. 0 |-> IF i = 0 THEN Start(h) ELSE Apply(f[i - 1], mods[i])]
    OBVIOUS
  <2>2. DraftsOf(f, h, mods, 0)
    BY <2>1 DEF DraftsOf
  <2> QED
    BY <2>2
<1>2. ASSUME NEW m \in 1 .. n, m - 1 \in Good
      PROVE  m \in Good
  <2>1. PICK f : DraftsOf(f, h, mods, m - 1)
    BY <1>2
  <2> DEFINE g == [i \in 0 .. m |-> IF i = m THEN Apply(f[m - 1], mods[m]) ELSE f[i]]
  <2>2. \A i \in 0 .. m : g[i] = IF i = 0 THEN Start(h) ELSE Apply(g[i - 1], mods[i])
    <3> TAKE i \in 0 .. m
    <3>1. CASE i = m
      <4>1. i - 1 \in 0 .. m /\ i - 1 # m /\ i # 0
        BY <3>1
      <4> QED
        BY <3>1, <4>1
    <3>2. CASE i # m
      <4>1. i \in 0 .. m - 1
        BY <3>2
      <4>2. f[i] = IF i = 0 THEN Start(h) ELSE Apply(f[i - 1], mods[i])
        BY <2>1, <4>1 DEF DraftsOf
      <4>3. i # 0 => i - 1 \in 0 .. m /\ i - 1 # m
        BY <4>1
      <4> QED
        BY <3>2, <4>2, <4>3
    <3> QED
      BY <3>1, <3>2
  <2>3. g = [i \in 0 .. m |-> g[i]]
    OBVIOUS
  <2> HIDE DEF g
  <2>4. DraftsOf(g, h, mods, m)
    BY <2>2, <2>3 DEF DraftsOf
  <2> QED
    BY <2>4
<1>3. Good \in SUBSET (0 .. n)
  OBVIOUS
<1> HIDE DEF Good
<1>4. n \in Good
  BY <1>1, <1>2, <1>3, NoLeastCounterexample
<1> QED
  BY <1>4 DEF Good

\* x is what the last of these changes among the first n says, and y when there is none.
LastIn(mods, n, changes, x, y) ==
  /\ \A i \in 1 .. n : mods[i] \in changes /\ (\A j \in i + 1 .. n : mods[j] \notin changes)
                       => x = Said(mods[i])
  /\ (\A i \in 1 .. n : mods[i] \notin changes) => x = y

\* One more change.
LEMMA OneMore ==
  ASSUME NEW mods, NEW n \in Nat \ {0}, NEW changes, NEW x, NEW new, NEW y,
         LastIn(mods, n - 1, changes, x, y), After(mods[n], changes, new, x)
  PROVE  LastIn(mods, n, changes, new, y)
<1>1. n \in 1 .. n /\ \A i \in 1 .. n : i = n \/ i \in 1 .. n - 1
  OBVIOUS
<1>2. \A i \in 1 .. n - 1 : i \in 1 .. n /\ n \in i + 1 .. n
                           /\ \A j \in i + 1 .. n - 1 : j \in i + 1 .. n
  OBVIOUS
<1>3. CASE mods[n] \in changes
  <2>1. new = Said(mods[n])
    BY <1>3 DEF After
  <2>2. ASSUME NEW i \in 1 .. n, \A j \in i + 1 .. n : mods[j] \notin changes
        PROVE  i = n
    BY <1>1, <1>2, <1>3, <2>2
  <2> QED
    BY <1>1, <1>3, <2>1, <2>2 DEF LastIn
<1>4. CASE mods[n] \notin changes
  <2>1. new = x
    BY <1>4 DEF After
  <2> QED
    BY <1>1, <1>2, <1>4, <2>1 DEF LastIn
<1> QED
  BY <1>3, <1>4

\* After so many changes the legs are the same contracts on the same sides, every change
\* named something there is, and of each field the last change shows.
Carries(e, h, mods, n) ==
  /\ h.legs # <<>>
  /\ \A i \in 1 .. n : Fits(mods[i], DOMAIN h.legs)
  /\ \A k \in DOMAIN h.legs :
       /\ SameLeg(e.legs[k], h.legs[k])
       /\ LastIn(mods, n, Asking("quantity", {None, k}), e.legs[k].qty, h.legs[k].qty)
       /\ LastIn(mods, n, Asking("limit_price", {k}), e.legs[k].limit, h.legs[k].limit)
  /\ LastIn(mods, n, Asking("limit_price", {None}), e.limit, None)
  /\ LastIn(mods, n, Asking("price_tolerance_pct", {None}), e.tolerance, DefaultTolerancePct)
  /\ LastIn(mods, n, Asking("allow_legging", {None}), e.legging, FALSE)

\* It holds before the first change.
LEMMA StartCarries ==
  ASSUME NEW h, h.legs \in Seq(Legs), NEW mods
  PROVE  /\ Start(h) \in Drafts(DOMAIN h.legs)
         /\ Start(h).fault # "badPlan" => Carries(Start(h), h, mods, 0)
<1>1. h.legs \in [DOMAIN h.legs -> Legs]
  BY LenProperties
<1>2. Start(h) \in Drafts(DOMAIN h.legs)
  BY <1>1 DEF Start, Drafts, DefaultTolerancePct
<1>3. /\ Start(h).legs = h.legs /\ (Start(h).fault # "badPlan" => h.legs # <<>>)
      /\ Start(h).limit = None /\ Start(h).tolerance = DefaultTolerancePct
      /\ Start(h).legging = FALSE
  BY DEF Start
<1>4. \A changes, x : LastIn(mods, 0, changes, x, x)
  BY DEF LastIn
<1>5. \A k \in DOMAIN h.legs : SameLeg(h.legs[k], h.legs[k])
  BY DEF SameLeg, SameContract
<1>6. \A i \in 1 .. 0 : FALSE
  OBVIOUS
<1> QED
  BY <1>2, <1>3, <1>4, <1>5, <1>6 DEF Carries

\* Every change keeps it.
LEMMA ApplyCarries ==
  ASSUME NEW h, h.legs \in Seq(Legs), NEW mods \in Seq(Modifications), NEW n \in 1 .. Len(mods),
         NEW d \in Drafts(DOMAIN h.legs), d.fault # "badPlan" => Carries(d, h, mods, n - 1)
  PROVE  LET e == Apply(d, mods[n])
         IN  /\ e \in Drafts(DOMAIN h.legs)
             /\ e.fault # "badPlan" => Carries(e, h, mods, n)
<1> DEFINE D == DOMAIN h.legs
           e == Apply(d, mods[n])
<1>1. mods[n] \in Modifications /\ Len(mods) \in Nat
  BY LenProperties, ElementOfSeq
<1>2. CASE ~(d.fault = None /\ Applicable(d, mods[n]))
  <2>1. e = [d EXCEPT !.fault = "badPlan"]
    BY <1>2 DEF Apply
  <2> HIDE DEF e
  <2>2. e \in Drafts(D) /\ e.fault = "badPlan"
    BY <2>1 DEF Drafts
  <2> QED
    BY <2>2 DEF e
<1>3. CASE d.fault = None /\ Applicable(d, mods[n])
  <2>1. e = Changed(d, mods[n])
    BY <1>3 DEF Apply
  <2>2. None \notin D
    <3>1. D = 1 .. Len(h.legs) /\ Len(h.legs) \in Nat
      BY LenProperties
    <3> HIDE DEF D
    <3> QED
      BY <3>1, NoneAssumption
  <2> HIDE DEF e, D
  <2>3. /\ e \in Drafts(D) /\ e.fault = d.fault /\ Fits(mods[n], D)
        /\ \A k \in D :
             /\ After(mods[n], Asking("quantity", {None, k}), e.legs[k].qty, d.legs[k].qty)
             /\ After(mods[n], Asking("limit_price", {k}), e.legs[k].limit, d.legs[k].limit)
             /\ SameLeg(e.legs[k], d.legs[k])
        /\ After(mods[n], Asking("limit_price", {None}), e.limit, d.limit)
        /\ After(mods[n], Asking("price_tolerance_pct", {None}), e.tolerance, d.tolerance)
        /\ After(mods[n], Asking("allow_legging", {None}), e.legging, d.legging)
    BY <1>1, <1>3, <2>1, <2>2, ChangedIs DEF D
  <2>4. ASSUME e.fault # "badPlan"
        PROVE  Carries(e, h, mods, n)
    <3>1. Carries(d, h, mods, n - 1)
      BY <2>3, <2>4
    <3>2. n \in Nat \ {0} /\ \A i \in 1 .. n : i = n \/ i \in 1 .. n - 1
      BY <1>1
    <3>3. \A i \in 1 .. n : Fits(mods[i], D)
      BY <2>3, <3>1, <3>2 DEF Carries, D
    <3>4. ASSUME NEW k \in D
          PROVE  /\ SameLeg(e.legs[k], h.legs[k])
                 /\ LastIn(mods, n, Asking("quantity", {None, k}), e.legs[k].qty, h.legs[k].qty)
                 /\ LastIn(mods, n, Asking("limit_price", {k}), e.legs[k].limit, h.legs[k].limit)
      <4>1. /\ SameLeg(d.legs[k], h.legs[k])
            /\ LastIn(mods, n - 1, Asking("quantity", {None, k}), d.legs[k].qty, h.legs[k].qty)
            /\ LastIn(mods, n - 1, Asking("limit_price", {k}), d.legs[k].limit, h.legs[k].limit)
        BY <3>1 DEF Carries, D
      <4>2. SameLeg(e.legs[k], h.legs[k])
        BY <2>3, <4>1 DEF SameLeg, SameContract
      <4>3. LastIn(mods, n, Asking("quantity", {None, k}), e.legs[k].qty, h.legs[k].qty)
        BY <2>3, <3>2, <4>1, OneMore
      <4>4. LastIn(mods, n, Asking("limit_price", {k}), e.legs[k].limit, h.legs[k].limit)
        BY <2>3, <3>2, <4>1, OneMore
      <4> QED
        BY <4>2, <4>3, <4>4
    <3>5. LastIn(mods, n, Asking("limit_price", {None}), e.limit, None)
      BY <2>3, <3>1, <3>2, OneMore DEF Carries
    <3>6. LastIn(mods, n, Asking("price_tolerance_pct", {None}), e.tolerance, DefaultTolerancePct)
      BY <2>3, <3>1, <3>2, OneMore DEF Carries
    <3>7. LastIn(mods, n, Asking("allow_legging", {None}), e.legging, FALSE)
      BY <2>3, <3>1, <3>2, OneMore DEF Carries
    <3>8. h.legs # <<>>
      BY <3>1 DEF Carries
    <3> QED
      BY <3>3, <3>4, <3>5, <3>6, <3>7, <3>8 DEF Carries, D
  <2> QED
    BY <2>3, <2>4 DEF e, D
<1> QED
  BY <1>2, <1>3

\* So it holds of the draft with all the changes.
LEMMA DraftCarries ==
  ASSUME NEW h, h.legs \in Seq(Legs), NEW mods \in Seq(Modifications)
  PROVE  /\ Draft(h, mods) \in Drafts(DOMAIN h.legs)
         /\ Draft(h, mods).fault # "badPlan" => Carries(Draft(h, mods), h, mods, Len(mods))
<1> DEFINE n == Len(mods)
           is(f) == f = [i \in 0 .. n |-> IF i = 0 THEN Start(h) ELSE Apply(f[i - 1], mods[i])]
           after == CHOOSE f : is(f)
           Good == {m \in 0 .. n : /\ after[m] \in Drafts(DOMAIN h.legs)
                                   /\ after[m].fault # "badPlan" => Carries(after[m], h, mods, m)}
<1>1. n \in Nat
  BY LenProperties
<1>2. Draft(h, mods) = after[n]
  BY DEF Draft
<1>3. \A f : DraftsOf(f, h, mods, n) <=> is(f)
  BY DEF DraftsOf
<1> HIDE DEF n
<1>4. DraftsOf(after, h, mods, n)
  BY <1>1, <1>3, DraftsExist
<1> HIDE DEF after
<1>5. \A m \in 0 .. n : after[m] = IF m = 0 THEN Start(h) ELSE Apply(after[m - 1], mods[m])
  BY <1>4 DEF DraftsOf
<1>6. 0 \in Good
  <2>1. after[0] = Start(h) /\ 0 \in 0 .. n
    BY <1>1, <1>5
  <2> QED
    BY <2>1, StartCarries
<1>7. ASSUME NEW m \in 1 .. n, m - 1 \in Good
      PROVE  m \in Good
  <2>1. after[m] = Apply(after[m - 1], mods[m]) /\ m \in 0 .. n /\ m \in 1 .. Len(mods)
    BY <1>5 DEF n
  <2>2. /\ after[m - 1] \in Drafts(DOMAIN h.legs)
        /\ after[m - 1].fault # "badPlan" => Carries(after[m - 1], h, mods, m - 1)
    BY <1>7
  <2> QED
    BY <2>1, <2>2, ApplyCarries
<1>8. n \in Good
  <2>1. Good \in SUBSET (0 .. n)
    OBVIOUS
  <2> HIDE DEF Good
  <2> QED
    BY <1>1, <1>6, <1>7, <2>1, NoLeastCounterexample
<1> QED
  BY <1>2, <1>8 DEF n

-----------------------------------------------------------------------------
(* The gate. *)

\* Of n usable places there is a first, a second, ... an nth.
LEMMA NthExists ==
  ASSUME NEW N \in Nat, NEW U \in SUBSET (1 .. N)
  PROVE  /\ Cardinality(U) \in Nat
         /\ \A n \in 1 .. Cardinality(U) : \E i \in U : Cardinality({j \in U : j <= i}) = n
<1> DEFINE upTo(m) == U \cap (1 .. m)
           Good == {m \in 0 .. N : \A n \in 1 .. Cardinality(upTo(m)) :
                                     \E i \in U : Cardinality(upTo(i)) = n}
<1>1. \A j \in U : j \in 1 .. N
  OBVIOUS
<1>2. IsFiniteSet(1 .. N)
  BY FS_Interval
<1>3. \A m : IsFiniteSet(upTo(m)) /\ Cardinality(upTo(m)) \in Nat
  <2> TAKE m
  <2>1. upTo(m) \in SUBSET (1 .. N)
    OBVIOUS
  <2> HIDE DEF upTo
  <2> QED
    BY <1>2, <2>1, FS_Subset, FS_CardinalityType
<1>4. 0 \in Good
  <2>1. upTo(0) = {}
    BY <1>1
  <2>2. Cardinality(upTo(0)) = 0
    BY <2>1, FS_EmptySet
  <2> HIDE DEF upTo
  <2> QED
    BY <2>2
<1>5. ASSUME NEW m \in 1 .. N, m - 1 \in Good
      PROVE  m \in Good
  <2>1. CASE m \notin U
    <3>1. upTo(m) = upTo(m - 1)
      BY <1>1, <2>1
    <3> HIDE DEF upTo
    <3> QED
      BY <1>5, <3>1
  <2>2. CASE m \in U
    <3>1. upTo(m) = upTo(m - 1) \cup {m} /\ m \notin upTo(m - 1)
      BY <1>1, <2>2
    <3> HIDE DEF upTo
    <3>2. Cardinality(upTo(m)) = Cardinality(upTo(m - 1)) + 1
      BY <1>3, <3>1, FS_AddElement
    <3>3. ASSUME NEW n \in 1 .. Cardinality(upTo(m))
          PROVE  \E i \in U : Cardinality(upTo(i)) = n
      <4>1. n = Cardinality(upTo(m)) \/ n \in 1 .. Cardinality(upTo(m - 1))
        BY <1>3, <3>2, <3>3
      <4> QED
        BY <1>5, <2>2, <4>1
    <3> QED
      BY <3>3
  <2> QED
    BY <2>1, <2>2
<1>6. N \in Good
  <2>1. Good \in SUBSET (0 .. N)
    OBVIOUS
  <2> HIDE DEF Good
  <2> QED
    BY <1>4, <1>5, <2>1, NoLeastCounterexample
<1>7. upTo(N) = U
  BY <1>1
<1>8. \A i \in U : {j \in U : j <= i} = upTo(i)
  <2> TAKE i \in U
  <2>1. \A j \in U : j <= i <=> j \in 1 .. i
    BY <1>1
  <2> QED
    BY <2>1
<1> HIDE DEF upTo
<1> QED
  BY <1>3, <1>6, <1>7, <1>8

\* The usable changes are changes, in a sequence.
LEMMA UsableAreModifications ==
  ASSUME NEW mods \in Seq(Modifications)
  PROVE  ParseModifications(mods) \in Seq(Modifications)
<1> DEFINE usable == {i \in DOMAIN mods : mods[i].field \notin StrategyFields}
           size == Cardinality(usable)
           nth(n) == CHOOSE i \in usable : Cardinality({j \in usable : j <= i}) = n
<1>1. Len(mods) \in Nat /\ DOMAIN mods = 1 .. Len(mods)
      /\ \A i \in DOMAIN mods : mods[i] \in Modifications
  BY LenProperties, ElementOfSeq
<1>2. usable \in SUBSET (1 .. Len(mods))
  BY <1>1
<1>3. ParseModifications(mods) = [n \in 1 .. size |-> mods[nth(n)]]
  BY DEF ParseModifications
<1>4. usable \in SUBSET DOMAIN mods
  OBVIOUS
<1> HIDE DEF usable
<1>5. /\ size \in Nat
      /\ \A n \in 1 .. size : \E i \in usable : Cardinality({j \in usable : j <= i}) = n
  BY <1>1, <1>2, NthExists
<1>6. \A n \in 1 .. size : nth(n) \in usable
  BY <1>5
<1> HIDE DEF size, nth
<1>7. \A n \in 1 .. size : mods[nth(n)] \in Modifications
  BY <1>1, <1>4, <1>6
<1>8. [n \in 1 .. size |-> mods[nth(n)]] \in [1 .. size -> Modifications]
  BY <1>7
<1> QED
  BY <1>3, <1>5, <1>8, IsASeq

\* What the gate clears is the hypothesis it was given, and nothing failed in it.
LEMMA ReviewClears ==
  ASSUME NEW h, NEW book, NEW reply, reply.mods \in Seq(Modifications),
         Review(h, book, reply).verdict # "REJECT"
  PROVE  LET v == Review(h, book, reply)
         IN  v.approved = h /\ v.mods \in Seq(Modifications) /\ Violations(h, book) = {}
<1> DEFINE mods == ParseModifications(reply.mods)
<1>1. mods \in Seq(Modifications)
  BY UsableAreModifications
<1>2. Violations(h, book) = {}
  BY DEF Review, ForcedReject, Verdict
<1> HIDE DEF mods
<1>3. Review(h, book, reply) = LlmReview(h, reply)
  BY <1>2 DEF Review
<1>4. \/ LlmReview(h, reply) = Verdict("REJECT", <<>>, None)
      \/ LlmReview(h, reply) = Verdict("MODIFY", mods, h)
      \/ LlmReview(h, reply) = DeterministicApprove(h)
  BY DEF LlmReview, mods
<1>5. <<>> \in Seq(Modifications)
  BY EmptySeq
<1>6. LlmReview(h, reply) # Verdict("REJECT", <<>>, None)
  BY <1>3 DEF Verdict
<1>7. \A w, ms : Verdict(w, ms, h).approved = h /\ Verdict(w, ms, h).mods = ms
  BY DEF Verdict
<1> QED
  BY <1>1, <1>2, <1>3, <1>4, <1>5, <1>6, <1>7 DEF DeterministicApprove

-----------------------------------------------------------------------------
(* What the cycle carries. *)

\* A cycle of the graph holds from the gate on what was decided: a hypothesis as the agents
\* build it and the pre-filter keeps it, cleared as it was when no check fails.  Whoever
\* executes, the plan is made of what is on file and the order of the plan.
Carried ==
  /\ ctx \in Books
  /\ stage \in {"strategy", "risk"} => OfGraph
  /\ OfGraph => stage \notin {"posted", "refused"}
  /\ OfGraph /\ stage \notin {"strategy", "monitoring"} =>
       /\ Proposal(decision.selected, ctx)
       /\ decision.selected.viable /\ Kept(decision.selected, ctx)
  /\ OfGraph /\ stage \in {"execution", "preflight", "submitted"} =>
       cleared.approved = decision.selected /\ Violations(decision.selected, ctx) = {}
  /\ stage \in {"execution", "preflight", "submitted"} =>
       cleared.mods \in Seq(Modifications) /\ cleared.approved.legs \in Seq(Legs)
  /\ stage \in {"preflight", "submitted"} =>
       plan = BuildExecutionPlan(cleared) /\ plan.fault \notin {"badPlan", "invalid"}
  /\ sent # None => stage = "submitted" /\ sent = OrderOf(plan)

\* The selection establishes it.
LEMMA EvaluationCarries ==
  ASSUME Carried, NEW reply, StrategyEvaluation(reply)
  PROVE  Carried'
<1> DEFINE hs == Propose(ctx)
           reached == Run(hs, Prefilter(hs, ctx), ctx, reply)
<1>1. /\ stage = "strategy"
      /\ decision' = reached
      /\ stage' = IF reached.decision = "SELECT_STRATEGY" THEN "risk" ELSE "monitoring"
      /\ UNCHANGED <<ctx, caller, cleared, plan, sent>>
  BY DEF StrategyEvaluation
<1>2. sent = None /\ ctx \in Books /\ OfGraph
  BY <1>1 DEF Carried
<1>3. ASSUME reached.decision = "SELECT_STRATEGY"
      PROVE  /\ Proposal(reached.selected, ctx)
             /\ reached.selected.viable /\ Kept(reached.selected, ctx)
  <2>1. PICK i \in 1 .. 4 : reached.selected = hs[i] /\ hs[i].viable /\ Kept(hs[i], ctx)
    BY <1>2, <1>3, SelectedIsKept
  <2>2. Proposal(hs[i], ctx)
    BY <1>2, AllProposed
  <2> QED
    BY <2>1, <2>2
<1>4. ctx' = ctx /\ OfGraph' /\ sent' = None /\ stage' \in {"risk", "monitoring"}
  BY <1>1, <1>2 DEF OfGraph
<1>5. stage' = "risk" => /\ Proposal(decision'.selected, ctx)
                         /\ decision'.selected.viable /\ Kept(decision'.selected, ctx)
  BY <1>1, <1>3
<1> HIDE DEF reached
<1> QED
  BY <1>2, <1>4, <1>5 DEF Carried

\* The gate clears what was selected.
LEMMA RiskCarries ==
  ASSUME Carried, NEW reply \in RiskReplies, NEW dbWorks, RiskCheck(reply, dbWorks)
  PROVE  Carried'
<1> DEFINE v == Review(decision.selected, ctx, reply)
<1>1. /\ stage = "risk"
      /\ cleared' = PersistRiskDecision(v, dbWorks)
      /\ stage' = IF cleared' # None /\ cleared'.verdict # "REJECT" THEN "execution"
                                                                  ELSE "monitoring"
      /\ UNCHANGED <<ctx, caller, decision, plan, sent>>
  BY DEF RiskCheck
<1>2. cleared' # None => cleared' = v
  BY <1>1 DEF PersistRiskDecision
<1>3. v.verdict # "REJECT" => /\ v.approved = decision.selected
                              /\ v.mods \in Seq(Modifications)
                              /\ Violations(decision.selected, ctx) = {}
  BY RiskRepliesAssumption, ReviewClears
<1> HIDE DEF v
<1>4. stage' = "execution" => /\ cleared'.approved = decision.selected
                              /\ cleared'.mods \in Seq(Modifications)
                              /\ Violations(decision.selected, ctx) = {}
  BY <1>1, <1>2, <1>3
<1>5. stage' \in {"execution", "monitoring"} /\ sent = None /\ OfGraph /\ OfGraph'
  BY <1>1 DEF Carried, OfGraph
<1>6. decision.selected.legs \in Seq(Legs)
  BY <1>1, <1>5 DEF Carried, Proposal
<1> QED
  BY <1>1, <1>4, <1>5, <1>6 DEF Carried

\* The endpoint clears nothing: it takes what its body says.
LEMMA PostedCarries ==
  ASSUME Carried, NEW body \in Posted, NEW dbWorks, ExecutePosted(body, dbWorks)
  PROVE  Carried'
<1>1. /\ stage = "posted" /\ stage' \in {"refused", "raised", "execution"}
      /\ stage' = "execution" => cleared' = body /\ body.approved # None
      /\ UNCHANGED <<ctx, caller, decision, plan, sent>>
  BY DEF ExecutePosted, PersistRiskDecision
<1>2. ~OfGraph /\ ~OfGraph' /\ sent = None
  BY <1>1 DEF Carried, OfGraph
<1>3. stage' = "execution" =>
        cleared'.mods \in Seq(Modifications) /\ cleared'.approved.legs \in Seq(Legs)
  BY <1>1, PostedAssumption
<1> QED
  BY <1>1, <1>2, <1>3 DEF Carried

\* Every step keeps it.
LEMMA CarriedStep == Carried /\ [Next]_vars => Carried'
<1> SUFFICES ASSUME Carried, [Next]_vars
             PROVE  Carried'
  OBVIOUS
<1>1. ASSUME NEW reply, StrategyEvaluation(reply)
      PROVE  Carried'
  BY <1>1, EvaluationCarries
<1>2. ASSUME NEW reply \in RiskReplies, NEW dbWorks, RiskCheck(reply, dbWorks)
      PROVE  Carried'
  BY <1>2, RiskCarries
<1>3. CASE BuildPlan
  <2>1. /\ stage = "execution" /\ plan' = BuildExecutionPlan(cleared)
        /\ stage' \in {"failed", "raised", "preflight"}
        /\ stage' = "preflight" => plan'.fault \notin {"badPlan", "invalid"}
        /\ UNCHANGED <<ctx, caller, decision, cleared, sent>>
    BY <1>3 DEF BuildPlan
  <2>2. sent = None
    BY <2>1 DEF Carried
  <2> QED
    BY <2>1, <2>2 DEF Carried, OfGraph
<1>4. CASE MarketMoves
  BY <1>4 DEF Carried, MarketMoves, OfGraph
<1>5. CASE PreflightAborts
  BY <1>5 DEF Carried, PreflightAborts, OfGraph
<1>6. CASE Submit
  BY <1>6 DEF Carried, Submit, OfGraph
<1>7. CASE UNCHANGED vars
  BY <1>7 DEF Carried, vars, OfGraph
<1>8. ASSUME NEW body \in Posted, NEW dbWorks, ExecutePosted(body, dbWorks)
      PROVE  Carried'
  BY <1>8, PostedCarries
<1> QED
  BY <1>1, <1>2, <1>3, <1>4, <1>5, <1>6, <1>7, <1>8 DEF Next

\* What the manager selects, the gate never refuses for the three limits they share.
THEOREM SelectionAgrees == Spec => []PrefilterAgreesWithGate
<1>1. Init => Carried
  BY DEF Init, Carried, OfGraph
<1>2. Carried => PrefilterAgreesWithGate
  BY KeptIsWithinLimits DEF Carried, PrefilterAgreesWithGate
<1> QED
  BY <1>1, <1>2, CarriedStep, PTL DEF Spec

-----------------------------------------------------------------------------
(* The order that goes out. *)

\* What is sent is the hypothesis on file with its changes in it.
LEMMA SentIs ==
  ASSUME Carried, sent # None
  PROVE  LET h == cleared.approved
             d == Draft(h, cleared.mods)
         IN  /\ h.legs \in Seq(Legs) /\ cleared.mods \in Seq(Modifications)
             /\ d \in Drafts(DOMAIN h.legs) /\ Carries(d, h, cleared.mods, Len(cleared.mods))
             /\ sent.legs = d.legs /\ plan.legs = d.legs
             /\ plan.tolerance = d.tolerance /\ plan.legging = d.legging
             /\ Len(sent.legs) # 1 =>
                  sent.price = IF d.limit = None THEN NetComboLimit(plan.legs) ELSE d.limit
<1> DEFINE h == cleared.approved
           d == Draft(h, cleared.mods)
<1>1. /\ h.legs \in Seq(Legs) /\ cleared.mods \in Seq(Modifications)
      /\ plan = BuildExecutionPlan(cleared) /\ plan.fault \notin {"badPlan", "invalid"}
      /\ sent = OrderOf(plan)
  BY DEF Carried
<1>2. /\ d \in Drafts(DOMAIN h.legs)
      /\ d.fault # "badPlan" => Carries(d, h, cleared.mods, Len(cleared.mods))
  BY <1>1, DraftCarries
<1> HIDE DEF d
<1>3. /\ plan.legs = d.legs /\ plan.tolerance = d.tolerance /\ plan.legging = d.legging
      /\ plan.limit = IF ~(d.fault # None) /\ d.limit = None THEN NetComboLimit(d.legs) ELSE d.limit
      /\ plan.fault = IF ~(d.fault # None) /\ d.tolerance > 100 THEN "invalid" ELSE d.fault
  BY <1>1 DEF BuildExecutionPlan, d
<1>4. d.fault = None
  BY <1>1, <1>2, <1>3 DEF Drafts
<1>5. /\ sent.legs = plan.legs
      /\ Len(plan.legs) # 1 => sent.price = plan.limit
  BY <1>1 DEF OrderOf
<1>6. plan.limit = IF d.limit = None THEN NetComboLimit(plan.legs) ELSE d.limit
  BY <1>3, <1>4
<1>7. Carries(d, h, cleared.mods, Len(cleared.mods))
  <2>1. d.fault # "badPlan"
    BY <1>1, <1>2, <1>3 DEF Drafts
  <2> QED
    BY <1>2, <2>1
<1> HIDE DEF h
<1>8. /\ h.legs \in Seq(Legs) /\ cleared.mods \in Seq(Modifications)
      /\ d \in Drafts(DOMAIN h.legs) /\ Carries(d, h, cleared.mods, Len(cleared.mods))
      /\ sent.legs = d.legs /\ plan.legs = d.legs
      /\ plan.tolerance = d.tolerance /\ plan.legging = d.legging
      /\ Len(sent.legs) # 1 =>
           sent.price = IF d.limit = None THEN NetComboLimit(plan.legs) ELSE d.limit
  BY <1>1, <1>2, <1>3, <1>5, <1>6, <1>7
<1> QED
  BY <1>8 DEF d, h

\* Of the graph's orders moreover: the gate cleared the hypothesis an agent built.
LEMMA GraphSent ==
  ASSUME Carried, sent # None, OfGraph
  PROVE  /\ ctx \in Books /\ Proposal(cleared.approved, ctx)
         /\ Violations(cleared.approved, ctx) = {}
  BY DEF Carried

\* The last change among all of them.
LEMMA LastOfAll ==
  ASSUME cleared.mods \in Seq(Modifications), NEW changes, NEW x, NEW y
  PROVE  LastIn(cleared.mods, Len(cleared.mods), changes, x, y) <=> LastSaid(changes, x, y)
<1> DEFINE mods == cleared.mods
           n == Len(mods)
<1>1. n \in Nat /\ DOMAIN mods = 1 .. n
  BY LenProperties
<1>2. \A i \in 1 .. n : \A j : j \in i + 1 .. n <=> j \in 1 .. n /\ j > i
  BY <1>1
<1>3. ASSUME NEW i \in 1 .. n
      PROVE  (\A j \in i + 1 .. n : mods[j] \notin changes)
               <=> (\A j \in 1 .. n : j > i => mods[j] \notin changes)
  BY <1>2
<1> HIDE DEF n
<1> QED
  BY <1>1, <1>3 DEF LastIn, LastSaid, n

\* The changes on file reach the plan and the order, whatever was decided, cleared or posted.
THEOREM ModificationsReachOrder == Spec => []ModificationsAreKept
<1>1. Init => Carried
  BY DEF Init, Carried, OfGraph
<1>2. Carried => ModificationsAreKept
  <2> SUFFICES ASSUME Carried, sent # None
               PROVE  ModificationsAreKept
    BY DEF ModificationsAreKept
  <2> DEFINE mods == cleared.mods
             h == cleared.approved
             d == Draft(h, mods)
  <2>1. /\ h.legs \in Seq(Legs) /\ mods \in Seq(Modifications)
        /\ d \in Drafts(DOMAIN h.legs) /\ Carries(d, h, mods, Len(mods))
        /\ sent.legs = d.legs /\ plan.legs = d.legs
        /\ plan.tolerance = d.tolerance /\ plan.legging = d.legging
        /\ Len(sent.legs) # 1 =>
             sent.price = IF d.limit = None THEN NetComboLimit(plan.legs) ELSE d.limit
    BY SentIs
  <2> HIDE DEF d
  <2>2. Len(mods) \in Nat /\ DOMAIN mods = 1 .. Len(mods)
        /\ \A i \in 1 .. Len(mods) : mods[i] \in Modifications
    BY <2>1, LenProperties, ElementOfSeq
  <2>3. DOMAIN d.legs = DOMAIN h.legs
    BY <2>1 DEF Drafts
  <2>4. \A i \in DOMAIN mods : /\ mods[i].field \in OrderFields
                              /\ mods[i].leg \in DOMAIN plan.legs \cup {None}
    BY <2>1, <2>2, <2>3 DEF Carries, Fits
  <2>5. \A k \in DOMAIN plan.legs :
          /\ LastSaid(Asking("quantity", {None, k}), plan.legs[k].qty, h.legs[k].qty)
          /\ LastSaid(Asking("limit_price", {k}), plan.legs[k].limit, h.legs[k].limit)
    BY <2>1, <2>3, LastOfAll DEF Carries
  <2>6. LastSaid(Asking("price_tolerance_pct", {None}), plan.tolerance, DefaultTolerancePct)
    BY <2>1, LastOfAll DEF Carries
  <2>7. LastSaid(Asking("allow_legging", {None}), plan.legging, FALSE)
    BY <2>1, LastOfAll DEF Carries
  <2>8. ASSUME Len(sent.legs) > 1
        PROVE  LastSaid(Asking("limit_price", {None}), sent.price, NetComboLimit(plan.legs))
    <3> DEFINE changes == Asking("limit_price", {None})
    <3>1. Len(sent.legs) # 1
      <4>1. \A x : x = 1 => ~(x > 1)
        OBVIOUS
      <4> QED
        BY <2>8, <4>1, Zenon
    <3>2. sent.price = IF d.limit = None THEN NetComboLimit(plan.legs) ELSE d.limit
      BY <2>1, <3>1
    <3>3. LastSaid(changes, d.limit, None)
      BY <2>1, LastOfAll DEF Carries
    <3>4. \A i \in DOMAIN mods : mods[i] \in changes => Said(mods[i]) # None
      <4> SUFFICES ASSUME NEW i \in DOMAIN mods, mods[i] \in changes
                   PROVE  Said(mods[i]) # None
        OBVIOUS
      <4>1. mods[i].value \in Int /\ mods[i].field = "limit_price"
        BY <2>2 DEF Modifications, Asking
      <4> QED
        BY <4>1, NoneAssumption DEF Said
    <3> HIDE DEF changes
    <3>5. ASSUME d.limit = None
          PROVE  LastSaid(changes, sent.price, NetComboLimit(plan.legs))
      BY <3>2, <3>3, <3>4, <3>5 DEF LastSaid
    <3>6. ASSUME d.limit # None
          PROVE  LastSaid(changes, sent.price, NetComboLimit(plan.legs))
      BY <3>2, <3>3, <3>6 DEF LastSaid
    <3> QED
      BY <3>5, <3>6 DEF changes
  <2>9. sent.legs = plan.legs /\ DOMAIN plan.legs = DOMAIN h.legs
    BY <2>1, <2>3
  <2> QED
    BY <2>4, <2>5, <2>6, <2>7, <2>8, <2>9 DEF ModificationsAreKept
<1> QED
  BY <1>1, <1>2, CarriedStep, PTL DEF Spec

\* A leg stands for the one candidate of its contract.
LEMMA ListedOnce ==
  ASSUME NEW book \in Books, NEW p \in DOMAIN book.chain, NEW l, SameContract(l, book.chain[p])
  PROVE  MatchCandidate(l, book) = book.chain[p]
<1> DEFINE same == {i \in DOMAIN book.chain : SameContract(book.chain[i], l)}
<1>1. p \in Nat /\ DOMAIN book.chain = 1 .. Len(book.chain)
  BY ChainHas
<1>2. \A i, j \in DOMAIN book.chain : SameContract(book.chain[i], book.chain[j]) => i = j
  BY BooksAssumption
<1>3. \A i \in DOMAIN book.chain : SameContract(book.chain[i], l) <=> i = p
  BY <1>2 DEF SameContract
<1>4. same = {p}
  BY <1>3
<1>5. MatchCandidate(l, book) = IF same = {} THEN None ELSE book.chain[Min(same)]
  BY DEF MatchCandidate
<1> HIDE DEF same
<1>6. {p} \in SUBSET Nat /\ {p} # {}
  BY <1>1
<1>7. Min({p}) = p
  BY <1>6, MinIsLeast
<1> QED
  BY <1>4, <1>5, <1>6, <1>7

\* Every leg of a hypothesis is a listed contract at the premium of its candidate.
LEMMA LegsAreListed ==
  ASSUME NEW book \in Books, NEW h, Proposal(h, book), h.legs # <<>>, NEW k \in DOMAIN h.legs
  PROVE  \E p \in DOMAIN book.chain : /\ SameContract(h.legs[k], book.chain[p])
                                      /\ h.legs[k].limit = book.chain[p].premium
<1>1. \A c, side, n : SameContract(Leg(c, side, n), c) /\ Leg(c, side, n).limit = c.premium
  BY DEF SameContract, Leg
<1>2. OfOneLeg(h, book) \/ OfTwoLegs(h, book)
  BY DEF Proposal
<1>3. CASE OfOneLeg(h, book)
  <2>1. PICK p \in DOMAIN book.chain, n \in Nat \ {0} : h.legs = <<Leg(book.chain[p], "BUY", n)>>
    BY <1>3 DEF OfOneLeg
  <2>2. k = 1 /\ h.legs[1] = Leg(book.chain[p], "BUY", n)
    BY <2>1
  <2> QED
    BY <1>1, <2>2
<1>4. CASE OfTwoLegs(h, book)
  <2>1. PICK p, q \in DOMAIN book.chain, n \in Nat \ {0} :
          h.legs = <<Leg(book.chain[p], "BUY", n), Leg(book.chain[q], "SELL", n)>>
    BY <1>4 DEF OfTwoLegs
  <2>2. /\ k = 1 \/ k = 2
        /\ h.legs[1] = Leg(book.chain[p], "BUY", n) /\ h.legs[2] = Leg(book.chain[q], "SELL", n)
    BY <2>1
  <2> QED
    BY <1>1, <2>2
<1> QED
  BY <1>2, <1>3, <1>4

\* Legs of the same contracts on the same sides, as many of each.
SameSize(legs, h) ==
  /\ legs \in Seq(Legs) /\ DOMAIN legs = DOMAIN h.legs
  /\ \A k \in DOMAIN h.legs : SameLeg(legs[k], h.legs[k]) /\ legs[k].qty = h.legs[k].qty

\* At the premiums of the analysis such legs are those of the hypothesis.
LEMMA RepricedIs ==
  ASSUME NEW book \in Books, NEW h, Proposal(h, book), h.legs # <<>>, NEW legs, SameSize(legs, h)
  PROVE  [k \in DOMAIN legs |->
            [legs[k] EXCEPT !.limit = MatchCandidate(legs[k], book).premium]] = h.legs
<1>1. h.legs \in Seq(Legs)
  BY DEF Proposal
<1>2. ASSUME NEW k \in DOMAIN h.legs
      PROVE  [legs[k] EXCEPT !.limit = MatchCandidate(legs[k], book).premium] = h.legs[k]
  <2>1. PICK p \in DOMAIN book.chain : /\ SameContract(h.legs[k], book.chain[p])
                                       /\ h.legs[k].limit = book.chain[p].premium
    BY LegsAreListed
  <2>2. SameContract(legs[k], book.chain[p])
    BY <2>1 DEF SameSize, SameLeg, SameContract
  <2>3. MatchCandidate(legs[k], book).premium = h.legs[k].limit
    BY <2>1, <2>2, ListedOnce
  <2>4. legs[k] \in Legs /\ h.legs[k] \in Legs
    BY <1>1, LenProperties, ElementOfSeq DEF SameSize
  <2>5. \A l, m \in Legs : SameLeg(l, m) /\ l.qty = m.qty => [l EXCEPT !.limit = m.limit] = m
    BY DEF Legs, SameLeg, SameContract
  <2> QED
    BY <2>3, <2>4, <2>5 DEF SameSize
<1>3. h.legs = [k \in DOMAIN h.legs |-> h.legs[k]]
  BY <1>1
<1> QED
  BY <1>2, <1>3 DEF SameSize

\* Of an empty checklist: three of its checks.
LEMMA NothingFailed ==
  ASSUME NEW h, NEW book, Violations(h, book) = {}
  PROVE  /\ CheckPositionLimit(h, book) /\ CheckBuyingPower(h, book)
         /\ CheckMultilegConsistency(h)
  BY DEF Violations

\* What the order costs at the premiums of the analysis.
LEMMA CostIsBounded ==
  ASSUME NEW book \in Books, NEW h, Proposal(h, book), h.legs # <<>>, Violations(h, book) = {},
         NEW legs, SameSize(legs, h)
  PROVE  LET cost == NetPremiumCash([k \in DOMAIN legs |->
                       [legs[k] EXCEPT !.limit = MatchCandidate(legs[k], book).premium]])
         IN  cost <= HedgeBudgetCash(book) /\ cost <= book.buyingPower
<1>1. NetPremiumCash(h.legs) <= HedgeBudgetCash(book) /\ NetPremiumCash(h.legs) <= h.cost
  BY DEF Proposal, Affordable
<1>2. h.cost <= book.buyingPower
  BY NothingFailed DEF CheckBuyingPower
<1>3. NetPremiumCash(h.legs) \in Int /\ h.cost \in Int /\ book.buyingPower \in Int
  BY BooksAssumption, NetPremiumOf DEF Proposal
<1>4. NetPremiumCash(h.legs) <= book.buyingPower
  BY <1>1, <1>2, <1>3
<1>5. NetPremiumCash([k \in DOMAIN legs |->
         [legs[k] EXCEPT !.limit = MatchCandidate(legs[k], book).premium]]) = NetPremiumCash(h.legs)
  BY RepricedIs
<1> QED
  BY <1>1, <1>4, <1>5

\* The put that is bought is there, below the call and above the put that is sold.
InOrder(legs) ==
  /\ The(legs, "PUT", "BUY") # {}
  /\ \A b \in The(legs, "PUT", "BUY") :
       /\ \A s \in The(legs, "PUT", "SELL") : legs[s].strike < legs[b].strike
       /\ \A s \in The(legs, "CALL", "SELL") : legs[s].strike > legs[b].strike

\* Legs of the same contracts on the same sides.
SameLegs(legs, h) ==
  /\ legs \in Seq(Legs) /\ DOMAIN legs = DOMAIN h.legs
  /\ \A k \in DOMAIN h.legs : SameLeg(legs[k], h.legs[k])

\* The longer side on the name of the first leg is covered by shares.
LEMMA BoughtIsCovered ==
  ASSUME NEW book \in Books, NEW h, CheckPositionLimit(h, book), h.legs \in Seq(Legs),
         1 \in DOMAIN h.legs, NEW n \in Nat \ {0},
         ContractsOn(h.legs, h.legs[1].underlying, "BUY") = n
  PROVE  n \in 1 .. ContractsForShares(EquitySharesHeld(book, h.legs[1].underlying))
<1> DEFINE u == h.legs[1].underlying
<1>1. u \in Underlyings(h.legs)
  BY DEF Underlyings
<1>2. n <= ContractsForShares(EquitySharesHeld(book, u))
  BY <1>1 DEF CheckPositionLimit
<1>3. EquitySharesHeld(book, u) \in Int
  BY BooksAssumption, SharesAreWhole
<1> HIDE DEF u
<1>4. ContractsForShares(EquitySharesHeld(book, u)) \in Int
  BY <1>3 DEF ContractsForShares, Multiplier
<1>5. n \in 1 .. ContractsForShares(EquitySharesHeld(book, u))
  BY <1>2, <1>4
<1> QED
  BY <1>5 DEF u

\* What a hypothesis the gate cleared looks like: a put bought, and at most one put or call
\* of the same name sold, as many of it.
Shape(h, n) ==
  /\ n \in Nat \ {0} /\ DOMAIN h.legs \in {{1}, {1, 2}}
  /\ h.legs[1].side = "BUY" /\ h.legs[1].right = "PUT" /\ h.legs[1].qty = n
  /\ 2 \in DOMAIN h.legs => /\ h.legs[2].side = "SELL" /\ h.legs[2].qty = n
                            /\ h.legs[2].underlying = h.legs[1].underlying

\* Every cleared hypothesis with legs has that shape.
LEMMA HasShape ==
  ASSUME NEW book \in Books, NEW h, Proposal(h, book), h.legs # <<>>
  PROVE  \E n : Shape(h, n)
<1>1. OfOneLeg(h, book) \/ OfTwoLegs(h, book)
  BY DEF Proposal
<1>2. CASE OfOneLeg(h, book)
  <2>1. PICK p \in DOMAIN book.chain, n \in Nat \ {0} :
          h.legs = <<Leg(book.chain[p], "BUY", n)>> /\ book.chain[p].right = "PUT"
    BY <1>2 DEF OfOneLeg
  <2>2. DOMAIN h.legs = {1} /\ h.legs[1] = Leg(book.chain[p], "BUY", n)
    BY <2>1
  <2> QED
    BY <2>1, <2>2 DEF Shape, Leg
<1>3. CASE OfTwoLegs(h, book)
  <2>1. PICK p, q \in DOMAIN book.chain, n \in Nat \ {0} :
          /\ h.legs = <<Leg(book.chain[p], "BUY", n), Leg(book.chain[q], "SELL", n)>>
          /\ book.chain[p].right = "PUT"
          /\ book.chain[q].underlying = book.chain[p].underlying
    BY <1>3 DEF OfTwoLegs
  <2>2. /\ DOMAIN h.legs = {1, 2}
        /\ h.legs[1] = Leg(book.chain[p], "BUY", n) /\ h.legs[2] = Leg(book.chain[q], "SELL", n)
    BY <2>1
  <2> QED
    BY <2>1, <2>2 DEF Shape, Leg
<1> QED
  BY <1>1, <1>2, <1>3

\* The contracts of such legs, on each side.
LEMMA SidesOfShape ==
  ASSUME NEW h, h.legs \in Seq(Legs), NEW n, Shape(h, n), NEW legs, SameLegs(legs, h)
  PROVE  /\ Contracts(legs, "BUY") = legs[1].qty
         /\ Contracts(legs, "SELL") = IF 2 \in DOMAIN legs THEN legs[2].qty ELSE 0
         /\ ContractsOn(h.legs, h.legs[1].underlying, "BUY") = n
<1>1. legs \in Seq(Legs) /\ DOMAIN legs = DOMAIN h.legs /\ h.legs \in Seq(Legs)
  BY DEF SameLegs
<1>2. \A k \in DOMAIN legs : legs[k].side = h.legs[k].side /\ legs[k] \in Legs
  BY <1>1, ElementOfSeq, LenProperties DEF SameLegs, SameLeg
<1>3. CASE DOMAIN h.legs = {1}
  <2>1. Len(legs) = 1 /\ Len(h.legs) = 1
    BY <1>1, <1>3, LenProperties
  <2>2. Contracts(legs, "BUY") = legs[1].qty /\ Contracts(legs, "SELL") = 0
    BY <1>1, <1>2, <1>3, <2>1, ContractsOf DEF Shape
  <2>3. ContractsOn(h.legs, h.legs[1].underlying, "BUY") = n
    BY <1>3, <2>1, ContractsOnOf DEF Shape
  <2> QED
    BY <1>1, <1>3, <2>2, <2>3
<1>4. CASE DOMAIN h.legs = {1, 2}
  <2>1. Len(legs) = 2 /\ Len(h.legs) = 2
    BY <1>1, <1>4, LenProperties
  <2>2. Contracts(legs, "BUY") = legs[1].qty /\ Contracts(legs, "SELL") = legs[2].qty
    <3>1. legs[1].side = "BUY" /\ legs[2].side = "SELL" /\ legs[1].qty \in Int /\ legs[2].qty \in Int
      BY <1>1, <1>2, <1>4 DEF Shape, Legs
    <3> QED
      BY <1>1, <2>1, <3>1, ContractsOf
  <2>3. ContractsOn(h.legs, h.legs[1].underlying, "BUY") = n
    BY <1>4, <2>1, ContractsOnOf DEF Shape
  <2> QED
    BY <1>1, <1>4, <2>2, <2>3
<1> QED
  BY <1>3, <1>4 DEF Shape

\* The order of the strikes is that of the hypothesis, which the gate has compared.
LEMMA StrikesInOrder ==
  ASSUME NEW book \in Books, NEW h, Proposal(h, book), h.legs # <<>>, Violations(h, book) = {},
         NEW legs, SameLegs(legs, h)
  PROVE  InOrder(legs)
<1>1. PICK n : Shape(h, n)
  BY HasShape
<1>2. DOMAIN legs = DOMAIN h.legs
  BY DEF SameLegs
<1>3. \A k \in DOMAIN h.legs : /\ legs[k].side = h.legs[k].side /\ legs[k].right = h.legs[k].right
                              /\ legs[k].strike = h.legs[k].strike
  BY DEF SameLegs, SameLeg, SameContract
<1>4. \A right, side : The(legs, right, side) = The(h.legs, right, side)
  BY <1>2, <1>3 DEF The
<1>5. The(h.legs, "PUT", "BUY") = {1}
  BY <1>1 DEF The, Shape
<1>6. CASE DOMAIN h.legs = {1}
  <2>1. The(h.legs, "PUT", "SELL") = {} /\ The(h.legs, "CALL", "SELL") = {}
    BY <1>1, <1>6 DEF The, Shape
  <2> QED
    BY <1>4, <1>5, <2>1 DEF InOrder
<1>7. CASE DOMAIN h.legs = {1, 2}
  <2>1. PICK p, q \in DOMAIN book.chain, m \in Nat \ {0} :
          /\ h.legs = <<Leg(book.chain[p], "BUY", m), Leg(book.chain[q], "SELL", m)>>
          /\ \/ book.chain[q].right = "PUT" /\ h.strategy = "PUT_SPREAD"
             \/ book.chain[q].right = "CALL" /\ h.strategy = "COLLAR"
    <3>1. ~OfOneLeg(h, book)
      <4> SUFFICES ASSUME OfOneLeg(h, book) PROVE FALSE
        OBVIOUS
      <4>1. PICK p \in DOMAIN book.chain, m \in Nat \ {0} : h.legs = <<Leg(book.chain[p], "BUY", m)>>
        BY DEF OfOneLeg
      <4>2. DOMAIN h.legs = {1}
        BY <4>1
      <4> QED
        BY <1>7, <4>2
    <3>2. OfTwoLegs(h, book)
      BY <3>1 DEF Proposal
    <3> QED
      BY <3>2 DEF OfTwoLegs
  <2>2. h.legs[2] = Leg(book.chain[q], "SELL", m)
    BY <2>1
  <2>3. h.legs[2].right = book.chain[q].right /\ h.legs[2].side = "SELL"
    BY <2>2 DEF Leg
  <2>4. CheckMultilegConsistency(h)
    BY NothingFailed
  <2>5. CASE h.legs[2].right = "PUT" /\ h.strategy = "PUT_SPREAD"
    <3>1. The(h.legs, "PUT", "SELL") = {2} /\ The(h.legs, "CALL", "SELL") = {}
      BY <1>1, <1>7, <2>3, <2>5 DEF The, Shape
    <3>2. h.legs[1].strike > h.legs[2].strike
      BY <1>5, <2>4, <2>5, <3>1 DEF CheckMultilegConsistency
    <3>3. legs[2].strike < legs[1].strike
      BY <1>3, <1>7, <3>2
    <3> QED
      BY <1>4, <1>5, <3>1, <3>3 DEF InOrder
  <2>6. CASE h.legs[2].right = "CALL" /\ h.strategy = "COLLAR"
    <3>1. The(h.legs, "CALL", "SELL") = {2} /\ The(h.legs, "PUT", "SELL") = {}
      BY <1>1, <1>7, <2>3, <2>6 DEF The, Shape
    <3>2. h.legs[1].strike < h.legs[2].strike
      BY <1>5, <2>4, <2>6, <3>1 DEF CheckMultilegConsistency
    <3>3. legs[2].strike > legs[1].strike
      BY <1>3, <1>7, <3>2
    <3> QED
      BY <1>4, <1>5, <3>1, <3>3 DEF InOrder
  <2> QED
    BY <2>1, <2>3, <2>5, <2>6
<1> QED
  BY <1>1, <1>6, <1>7 DEF Shape

\* When every resizing was of all the legs, they are resized alike, and not to nothing.
LEMMA AlikeIsBalanced ==
  ASSUME NEW h, h.legs \in Seq(Legs), NEW n, Shape(h, n), NEW legs, SameLegs(legs, h),
         cleared.mods \in Seq(Modifications), ResizedAlike,
         \A i \in DOMAIN cleared.mods : Fits(cleared.mods[i], DOMAIN h.legs),
         \A k \in DOMAIN h.legs :
           LastSaid(Asking("quantity", {None, k}), legs[k].qty, h.legs[k].qty)
  PROVE  Contracts(legs, "SELL") <= Contracts(legs, "BUY")
<1> DEFINE mods == cleared.mods
           resizing == {i \in DOMAIN mods : mods[i].field = "quantity"}
           last == {i \in resizing : \A j \in resizing : j <= i}
<1>1. /\ Len(mods) \in Nat /\ DOMAIN mods = 1 .. Len(mods)
      /\ \A i \in DOMAIN mods : mods[i] \in Modifications
  BY LenProperties, ElementOfSeq
<1>2. 1 \in DOMAIN h.legs /\ DOMAIN legs = DOMAIN h.legs
  BY DEF Shape, SameLegs
<1>3. \A i \in DOMAIN mods : \A k : mods[i] \in Asking("quantity", {None, k}) <=> i \in resizing
  BY <1>1 DEF Asking, ResizedAlike
<1>4. \A i \in resizing : mods[i].value > 0 /\ Said(mods[i]) = mods[i].value /\ mods[i].value \in Int
  BY <1>1 DEF Fits, Said, Modifications
<1>5. \A i \in DOMAIN mods : i \in Nat
  BY <1>1
<1>6. CASE resizing = {}
  <2>1. \A k \in DOMAIN h.legs : legs[k].qty = h.legs[k].qty
    BY <1>3, <1>6 DEF LastSaid
  <2>2. 2 \in DOMAIN legs => legs[2].qty = n
    BY <1>2, <2>1 DEF Shape
  <2>3. legs[1].qty = n /\ n \in Nat
    BY <1>2, <2>1 DEF Shape
  <2> QED
    BY <2>2, <2>3, SidesOfShape
<1>7. CASE resizing # {}
  <2>1. PICK i \in resizing : \A j \in resizing : j <= i
    <3>1. resizing \in SUBSET (1 .. Len(mods))
      BY <1>1
    <3> HIDE DEF resizing
    <3> QED
      BY <1>1, <1>7, <3>1, GreatestPlace
  <2>2. i \in DOMAIN mods /\ \A j \in DOMAIN mods : j > i => j \notin resizing
    BY <1>5, <2>1
  <2> HIDE DEF resizing
  <2>3. \A k \in DOMAIN h.legs : legs[k].qty = Said(mods[i])
    BY <1>3, <2>1, <2>2 DEF LastSaid
  <2>4. 2 \in DOMAIN legs => legs[2].qty = Said(mods[i])
    BY <1>2, <2>3
  <2>5. legs[1].qty = Said(mods[i]) /\ Said(mods[i]) \in Int /\ Said(mods[i]) > 0
    BY <1>2, <1>4, <2>1, <2>3
  <2> QED
    BY <2>4, <2>5, SidesOfShape
<1> QED
  BY <1>6, <1>7

\* An order of the graph is one the gate vouches for.
THEOREM GateVouches == Spec => []GraphOrderIsCovered
<1>1. Init => Carried
  BY DEF Init, Carried, OfGraph
<1>2. Carried => GraphOrderIsCovered
  <2> SUFFICES ASSUME Carried, sent # None, OfGraph
               PROVE  /\ InOrder(sent.legs)
                      /\ ResizedAlike => Contracts(sent.legs, "SELL") <= Contracts(sent.legs, "BUY")
                      /\ Unresized => /\ Contracts(sent.legs, "BUY") \in 1 .. SharesCover(sent.legs)
                                      /\ AnalysedCost <= HedgeBudgetCash(ctx)
                                      /\ AnalysedCost <= ctx.buyingPower
    BY DEF GraphOrderIsCovered, InOrder
  <2> DEFINE h == cleared.approved
             mods == cleared.mods
             d == Draft(h, mods)
  <2>1. /\ ctx \in Books /\ Proposal(h, ctx) /\ Violations(h, ctx) = {}
    BY GraphSent
  <2>2. /\ h.legs \in Seq(Legs) /\ mods \in Seq(Modifications)
        /\ d \in Drafts(DOMAIN h.legs) /\ Carries(d, h, mods, Len(mods))
        /\ sent.legs = d.legs
    BY SentIs
  <2> HIDE DEF d
  <2>3. DOMAIN mods = 1 .. Len(mods)
    BY <2>2, LenProperties
  <2>4. d.legs \in Seq(Legs) /\ DOMAIN d.legs = DOMAIN h.legs
    <3>1. h.legs \in Seq(Legs) /\ d.legs \in [DOMAIN h.legs -> Legs]
      BY <2>2 DEF Drafts
    <3>2. DOMAIN h.legs = 1 .. Len(h.legs) /\ Len(h.legs) \in Nat
      BY <3>1, LenProperties
    <3> QED
      BY <3>1, <3>2, SeqDef
  <2>5. SameLegs(d.legs, h) /\ h.legs # <<>>
    BY <2>2, <2>4 DEF Carries, SameLegs
  <2>6. \A k \in DOMAIN h.legs :
          LastSaid(Asking("quantity", {None, k}), d.legs[k].qty, h.legs[k].qty)
    BY <2>2, LastOfAll DEF Carries
  <2>7. \A i \in DOMAIN mods : Fits(mods[i], DOMAIN h.legs)
    BY <2>2, <2>3 DEF Carries
  <2>8. PICK n : Shape(h, n)
    BY <2>1, <2>5, HasShape
  <2>9. InOrder(d.legs)
    BY <2>1, <2>5, StrikesInOrder
  <2>10. ResizedAlike => Contracts(d.legs, "SELL") <= Contracts(d.legs, "BUY")
    BY <2>2, <2>5, <2>6, <2>7, <2>8, AlikeIsBalanced
  <2>11. ASSUME Unresized
         PROVE  /\ Contracts(d.legs, "BUY") \in 1 .. SharesCover(d.legs)
                /\ AnalysedCost <= HedgeBudgetCash(ctx) /\ AnalysedCost <= ctx.buyingPower
    <3>1. \A i \in DOMAIN mods : \A legs : mods[i] \notin Asking("quantity", legs)
      BY <2>11 DEF Unresized, Asking
    <3>2. \A k \in DOMAIN h.legs : d.legs[k].qty = h.legs[k].qty
      BY <2>6, <3>1 DEF LastSaid
    <3>3. SameSize(d.legs, h)
      BY <2>5, <3>2 DEF SameSize, SameLegs
    <3>4. 1 \in DOMAIN h.legs /\ h.legs[1].qty = n /\ n \in Nat \ {0}
      BY <2>8 DEF Shape
    <3>5. /\ Contracts(d.legs, "BUY") = n
          /\ ContractsOn(h.legs, h.legs[1].underlying, "BUY") = n
      BY <2>2, <2>5, <2>8, <3>2, <3>4, SidesOfShape
    <3>6. n \in 1 .. ContractsForShares(EquitySharesHeld(ctx, h.legs[1].underlying))
      BY <2>1, <2>2, <3>4, <3>5, BoughtIsCovered, NothingFailed
    <3>7. d.legs[1].underlying = h.legs[1].underlying
      BY <2>5, <3>4 DEF SameLegs, SameLeg, SameContract
    <3>8. AnalysedCost <= HedgeBudgetCash(ctx) /\ AnalysedCost <= ctx.buyingPower
      BY <2>1, <2>2, <2>5, <3>3, CostIsBounded DEF AnalysedCost
    <3> QED
      BY <3>5, <3>6, <3>7, <3>8 DEF SharesCover
  <2> QED
    BY <2>2, <2>9, <2>10, <2>11 DEF SharesCover
<1> QED
  BY <1>1, <1>2, CarriedStep, PTL DEF Spec
===============================================================================
