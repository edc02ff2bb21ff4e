------------------------------ MODULE OftProofs ------------------------------
(* Proofs about the OFT: no debit exceeds what was asked, the escrow covers  *)
(* what is locked, the limiters keep the limits, and no token is made or     *)
(* lost, for any chains, decimals, fees, supply, limits and windows.         *)
EXTENDS Oft, FiniteSetTheorems, TLAPS

----------------------------------------------------------------------------
(* Arithmetic                                                               *)

\* Integer division of naturals rounds down.
LEMMA Division ==
    ASSUME NEW n \in Nat, NEW d \in Nat \ {0}
    PROVE  /\ n \div d \in Nat
           /\ d * (n \div d) <= n
           /\ n < d * (n \div d) + d
  BY SMT

\* Multiplication by a natural number is monotonic.
LEMMA Monotonic ==
    ASSUME NEW a \in Int, NEW b \in Int, NEW n \in Nat, a <= b
    PROVE  n * a <= n * b
  BY SMT

\* CeilDiv is the least quotient that is large enough.
LEMMA Ceiling ==
    ASSUME NEW n \in Nat, NEW d \in Nat \ {0}
    PROVE  /\ CeilDiv(n, d) \in Nat
           /\ n <= d * CeilDiv(n, d)
           /\ \A q \in Nat : n <= d * q => CeilDiv(n, d) <= q
  <1> DEFINE c == (n + d - 1) \div d
  <1>1. n + d - 1 \in Nat
    OBVIOUS
  <1>2. c \in Nat /\ d * c <= n + d - 1 /\ n + d - 1 < d * c + d
    BY <1>1, Division
  <1> HIDE DEF c
  <1>3. n <= d * c
    BY <1>2
  <1>4. ASSUME NEW q \in Nat, n <= d * q, ~ (c <= q)
        PROVE  FALSE
    <2>1. q + 1 <= c
      BY <1>2, <1>4
    <2>2. d * (q + 1) <= d * c
      BY <2>1, <1>2, Monotonic
    <2>3. d * (q + 1) = d * q + d
      BY SMT
    <2> QED
      BY <2>2, <2>3, <1>2, <1>4, SMT
  <1>5. CeilDiv(n, d) = c
    BY DEF CeilDiv, c
  <1> QED
    BY <1>2, <1>3, <1>4, <1>5

\* Part of an amount, in basis points.
LEMMA BasisPoints ==
    ASSUME NEW amount \in Nat, NEW bps \in 0 .. 10000
    PROVE  amount * bps \in Nat /\ amount * bps <= 10000 * amount
  <1>1. amount * bps <= amount * 10000
    BY Monotonic
  <1> QED
    BY <1>1, SMT

----------------------------------------------------------------------------
(* Sums over a finite set                                                   *)

Picked(s) == CHOOSE x \in s : TRUE

\* The sums of f over all subsets of S, each from a smaller one.
ArePartialSums(g, f, S) ==
    g = [s \in SUBSET S |-> IF s = {} THEN 0 ELSE f[Picked(s)] + g[s \ {Picked(s)}]]

\* The recursion that SumFunction unfolds to.
LEMMA SumUnfolds ==
    ASSUME NEW f
    PROVE  SumFunction(f) = (CHOOSE g : ArePartialSums(g, f, DOMAIN f))[DOMAIN f]
  BY DEF SumFunction, SumFunctionOnSet, FoldFunctionOnSet, MapThenFoldSet, ArePartialSums, Picked

\* Sets of subsets of a finite set have minimal elements: what an induction
\* over subsets rests on.
LEMMA MinimalSet ==
    ASSUME NEW S, IsFiniteSet(S), NEW T \in SUBSET (SUBSET S), T # {}
    PROVE  \E s \in T : \A t \in T : t \subseteq s => t = s
  <1>1. IsWellFoundedOn(StrictSubsetOrdering(S), SUBSET S)
    BY FS_StrictSubsetOrderingWellFounded, FS_FiniteSubsetsOfFinite
  <1>2. PICK s \in T : \A t \in T : ~ (<<t, s>> \in StrictSubsetOrdering(S))
    BY <1>1, WFMin, Zenon
  <1>3. ASSUME NEW t \in T, t \subseteq s
        PROVE  t = s
    <2>1. <<t, s>> \in (SUBSET S) \X (SUBSET S)
      OBVIOUS
    <2> QED
      BY <1>2, <1>3, <2>1 DEF StrictSubsetOrdering
  <1> QED
    BY <1>3

LEMMA PickedIsIn ==
    ASSUME NEW s, s # {}
    PROVE  Picked(s) \in s
  BY DEF Picked

\* Two families of sums agree where the functions do.
LEMMA SumsAgree ==
    ASSUME NEW S, IsFiniteSet(S), NEW U \in SUBSET S, NEW V \in SUBSET S,
           NEW f, NEW g, ArePartialSums(g, f, U),
           NEW e, NEW h, ArePartialSums(h, e, V),
           NEW r \in SUBSET S, r \subseteq U, r \subseteq V,
           \A x \in r : f[x] = e[x]
    PROVE  g[r] = h[r]
  <1> DEFINE T == {s \in SUBSET r : g[s] # h[s]}
  <1> SUFFICES ASSUME g[r] # h[r] PROVE FALSE
    OBVIOUS
  <1>0. /\ g[{}] = 0 /\ h[{}] = 0
        /\ \A s \in SUBSET U : s # {} => g[s] = f[Picked(s)] + g[s \ {Picked(s)}]
        /\ \A s \in SUBSET V : s # {} => h[s] = e[Picked(s)] + h[s \ {Picked(s)}]
    BY DEF ArePartialSums
  <1>1. T \in SUBSET (SUBSET S) /\ T # {}
    OBVIOUS
  <1>2. PICK s \in T : \A t \in T : t \subseteq s => t = s
    <2> HIDE DEF T
    <2> QED
      BY <1>1, MinimalSet
  <1>3. s \subseteq r /\ g[s] # h[s] /\ s \in SUBSET U /\ s \in SUBSET V
    OBVIOUS
  <1>4. s # {}
    BY <1>0, <1>3
  <1>5. Picked(s) \in s
    BY <1>4, PickedIsIn
  <1> DEFINE t == s \ {Picked(s)}
  <1>6. t \notin T /\ t \subseteq r
    BY <1>2, <1>3, <1>5
  <1>7. g[t] = h[t]
    BY <1>6
  <1>8. g[s] = f[Picked(s)] + g[t] /\ h[s] = e[Picked(s)] + h[t]
    BY <1>0, <1>3, <1>4
  <1> HIDE DEF T, t
  <1>9. f[Picked(s)] = e[Picked(s)]
    BY <1>3, <1>5
  <1> QED
    BY <1>3, <1>7, <1>8, <1>9, Zenon

\* Every function has sums over the subsets of a finite set.
LEMMA SumsExist ==
    ASSUME NEW S, IsFiniteSet(S), NEW f
    PROVE  \E g : ArePartialSums(g, f, S)
  <1> DEFINE T == {U \in SUBSET S : ~ \E g : ArePartialSums(g, f, U)}
  <1> SUFFICES ASSUME T # {} PROVE FALSE
    OBVIOUS
  <1>1. PICK U \in T : \A V \in T : V \subseteq U => V = U
    <2> HIDE DEF T
    <2>1. T \in SUBSET (SUBSET S)
      BY DEF T
    <2> QED
      BY <2>1, MinimalSet
  <1>2. U \in SUBSET S /\ ~ \E g : ArePartialSums(g, f, U)
    OBVIOUS
  <1> DEFINE sums(V) == CHOOSE g : ArePartialSums(g, f, V)
             rest(s) == s \ {Picked(s)}
             next    == [s \in SUBSET U |->
                            IF s = {} THEN 0 ELSE f[Picked(s)] + sums(rest(s))[rest(s)]]
  <1>3. ASSUME NEW V \in SUBSET U, V # U
        PROVE  ArePartialSums(sums(V), f, V)
    <2>1. \E g : ArePartialSums(g, f, V)
      BY <1>1, <1>2, <1>3
    <2> QED
      BY <2>1
  <1> HIDE DEF sums
  <1>4. ASSUME NEW s \in SUBSET U, s # U
        PROVE  next[s] = sums(s)[s]
    <2>1. ArePartialSums(sums(s), f, s) /\ s \in SUBSET S
      BY <1>2, <1>3, <1>4
    <2>2. CASE s = {}
      BY <2>1, <2>2 DEF ArePartialSums
    <2>3. CASE s # {}
      <3>1. Picked(s) \in s
        BY <2>3, PickedIsIn
      <3>2. rest(s) \in SUBSET U /\ rest(s) # U /\ rest(s) \in SUBSET S /\ rest(s) \subseteq s
        BY <1>2, <3>1
      <3>3. ArePartialSums(sums(rest(s)), f, rest(s))
        BY <1>3, <3>2
      <3>4. sums(s)[rest(s)] = sums(rest(s))[rest(s)]
        <4> HIDE DEF rest
        <4> QED
          BY <2>1, <3>2, <3>3, SumsAgree
      <3>5. sums(s)[s] = f[Picked(s)] + sums(s)[rest(s)]
        BY <2>1, <2>3 DEF ArePartialSums
      <3>6. next[s] = f[Picked(s)] + sums(rest(s))[rest(s)]
        BY <2>3
      <3> QED
        BY <3>4, <3>5, <3>6
    <2> QED
      BY <2>2, <2>3
  <1>5. ASSUME NEW s \in SUBSET U, s # {}
        PROVE  next[s] = f[Picked(s)] + next[rest(s)]
    <2>1. Picked(s) \in s
      BY <1>5, PickedIsIn
    <2>2. rest(s) \in SUBSET U /\ rest(s) # U
      BY <2>1
    <2>3. next[rest(s)] = sums(rest(s))[rest(s)]
      BY <1>4, <2>2
    <2>4. next[s] = f[Picked(s)] + sums(rest(s))[rest(s)]
      BY <1>5
    <2> QED
      BY <2>3, <2>4
  <1>6. next[{}] = 0 /\ DOMAIN next = SUBSET U
    OBVIOUS
  <1>7. next = [s \in SUBSET U |-> next[s]]
    OBVIOUS
  <1> HIDE DEF next
  <1>8. \A s \in SUBSET U :
           next[s] = IF s = {} THEN 0 ELSE f[Picked(s)] + next[s \ {Picked(s)}]
    BY <1>5, <1>6
  <1>9. ArePartialSums(next, f, U)
    BY <1>7, <1>8 DEF ArePartialSums
  <1> QED
    BY <1>2, <1>9

LEMMA SumsOf ==
    ASSUME NEW f, IsFiniteSet(DOMAIN f)
    PROVE  \E g : ArePartialSums(g, f, DOMAIN f) /\ SumFunction(f) = g[DOMAIN f]
  <1>1. ArePartialSums((CHOOSE g : ArePartialSums(g, f, DOMAIN f)), f, DOMAIN f)
    BY SumsExist
  <1> QED
    BY <1>1, SumUnfolds

AreSums(g, f, S) ==
    /\ \A s \in SUBSET S : g[s] \in Int
    /\ \A s \in SUBSET S : \A x \in s : g[s] = f[x] + g[s \ {x}]

\* Whichever element is picked first, the sum is the same.
LEMMA AnyElementFirst ==
    ASSUME NEW S, IsFiniteSet(S), NEW f \in [S -> Int], NEW g, ArePartialSums(g, f, S)
    PROVE  AreSums(g, f, S)
  <1>0. /\ g[{}] = 0
        /\ \A s \in SUBSET S : s # {} => g[s] = f[Picked(s)] + g[s \ {Picked(s)}]
    BY DEF ArePartialSums
  <1>1. \A s \in SUBSET S : g[s] \in Int
    <2> DEFINE T == {s \in SUBSET S : g[s] \notin Int}
    <2> SUFFICES ASSUME T # {} PROVE FALSE
      OBVIOUS
    <2>1. PICK s \in T : \A t \in T : t \subseteq s => t = s
      <3> HIDE DEF T
      <3>1. T \in SUBSET (SUBSET S)
        BY DEF T
      <3> QED
        BY <3>1, MinimalSet
    <2>2. s \in SUBSET S /\ g[s] \notin Int
      OBVIOUS
    <2>3. s # {}
      <3>1. 0 \in Int
        OBVIOUS
      <3> QED
        BY <1>0, <2>2, <3>1, Zenon
    <2>4. Picked(s) \in s
      BY <2>3, PickedIsIn
    <2>5. g[s \ {Picked(s)}] \in Int
      BY <2>1, <2>2, <2>4
    <2>6. f[Picked(s)] \in Int
      BY <2>2, <2>4
    <2>7. g[s] = f[Picked(s)] + g[s \ {Picked(s)}]
      BY <1>0, <2>2, <2>3
    <2> QED
      BY <2>2, <2>5, <2>6, <2>7
  <1>2. \A s \in SUBSET S : \A x \in s : g[s] = f[x] + g[s \ {x}]
    <2> DEFINE Ok(s) == \A x \in s : g[s] = f[x] + g[s \ {x}]
               T     == {s \in SUBSET S : ~ Ok(s)}
    <2> SUFFICES ASSUME T # {} PROVE FALSE
      OBVIOUS
    <2>1. PICK s \in T : \A t \in T : t \subseteq s => t = s
      <3> HIDE DEF T
      <3>1. T \in SUBSET (SUBSET S)
        BY DEF T
      <3> QED
        BY <3>1, MinimalSet
    <2>2. s \in SUBSET S /\ ~ Ok(s)
      OBVIOUS
    <2>3. PICK x \in s : g[s] # f[x] + g[s \ {x}]
      BY <2>2
    <2> DEFINE y == Picked(s)
    <2>4. y \in s /\ g[s] = f[y] + g[s \ {y}]
      <3>1. s # {}
        BY <2>3
      <3> QED
        BY <1>0, <2>2, <3>1, PickedIsIn
    <2> HIDE DEF y, Ok
    <2>5. x # y
      BY <2>3, <2>4
    <2>6. ASSUME NEW z \in s PROVE s \ {z} \in SUBSET S /\ Ok(s \ {z})
      BY <2>1, <2>2
    <2>7. g[s \ {y}] = f[x] + g[(s \ {y}) \ {x}]
      BY <2>4, <2>5, <2>6, Zenon DEF Ok
    <2>8. g[s \ {x}] = f[y] + g[(s \ {x}) \ {y}]
      BY <2>4, <2>5, <2>6, Zenon DEF Ok
    <2>9. (s \ {x}) \ {y} = (s \ {y}) \ {x}
      OBVIOUS
    <2>10. f[x] \in Int /\ f[y] \in Int
      BY <2>2, <2>4
    <2>11. g[(s \ {x}) \ {y}] \in Int
      <3>1. (s \ {x}) \ {y} \in SUBSET S
        BY <2>2
      <3> QED
        BY <1>1, <3>1
    <2>12. \A a, b, c \in Int : a + (b + c) = b + (a + c)
      OBVIOUS
    <2> DEFINE c == g[(s \ {x}) \ {y}]
    <2>13. g[s \ {y}] = f[x] + c /\ g[s \ {x}] = f[y] + c /\ c \in Int
      BY <2>7, <2>8, <2>9, <2>11
    <2> HIDE DEF T, c
    <2>14. f[x] + (f[y] + c) = f[y] + (f[x] + c)
      BY ONLY <2>10, <2>12, <2>13
    <2> QED
      BY ONLY <2>3, <2>4, <2>13, <2>14, Zenon
  <1> QED
    BY <1>1, <1>2 DEF AreSums

SumFollows(f, e, x) ==
    SumFunction(f) \in Int /\ SumFunction(e) = SumFunction(f) + (e[x] - f[x])

\* A sum of integers is one, and changes by as much as one of its terms.
LEMMA SumChanges ==
    ASSUME NEW S, IsFiniteSet(S), NEW f \in [S -> Int], NEW e \in [S -> Int], NEW x \in S,
           \A y \in S \ {x} : e[y] = f[y]
    PROVE  SumFollows(f, e, x)
  <1>0. DOMAIN f = S /\ DOMAIN e = S
    OBVIOUS
  <1>1. PICK g : ArePartialSums(g, f, S) /\ SumFunction(f) = g[S]
    BY <1>0, SumsOf
  <1>2. PICK h : ArePartialSums(h, e, S) /\ SumFunction(e) = h[S]
    BY <1>0, SumsOf
  <1>3. g[S] = f[x] + g[S \ {x}] /\ g[S] \in Int /\ g[S \ {x}] \in Int
    <2>1. AreSums(g, f, S)
      BY <1>1, AnyElementFirst
    <2> QED
      BY <2>1 DEF AreSums
  <1>4. h[S] = e[x] + h[S \ {x}] /\ h[S] \in Int
    <2>1. AreSums(h, e, S)
      BY <1>2, AnyElementFirst
    <2> QED
      BY <2>1 DEF AreSums
  <1>5. g[S \ {x}] = h[S \ {x}]
    <2>1. S \ {x} \in SUBSET S /\ S \in SUBSET S
      OBVIOUS
    <2> QED
      BY <1>1, <1>2, <2>1, SumsAgree
  <1>6. f[x] \in Int /\ e[x] \in Int
    OBVIOUS
  <1> QED
    BY <1>1, <1>2, <1>3, <1>4, <1>5, <1>6 DEF SumFollows

\* The sum of nothing but zeroes.
LEMMA SumOfZeroes ==
    ASSUME NEW S, IsFiniteSet(S), NEW f \in [S -> Int], \A x \in S : f[x] = 0
    PROVE  SumFunction(f) = 0
  <1>1. PICK g : ArePartialSums(g, f, S) /\ SumFunction(f) = g[S]
    <2>1. DOMAIN f = S
      OBVIOUS
    <2> QED
      BY <2>1, SumsOf
  <1>0. /\ g[{}] = 0
        /\ \A s \in SUBSET S : s # {} => g[s] = f[Picked(s)] + g[s \ {Picked(s)}]
    BY <1>1 DEF ArePartialSums
  <1> DEFINE T == {s \in SUBSET S : g[s] # 0}
  <1> SUFFICES ASSUME T # {} PROVE FALSE
    BY <1>1
  <1>2. PICK s \in T : \A t \in T : t \subseteq s => t = s
    <2> HIDE DEF T
    <2>1. T \in SUBSET (SUBSET S)
      BY DEF T
    <2> QED
      BY <2>1, MinimalSet
  <1>3. s \in SUBSET S /\ g[s] # 0
    OBVIOUS
  <1>4. s # {}
    BY <1>0, <1>3
  <1>5. Picked(s) \in s /\ f[Picked(s)] = 0
    BY <1>3, <1>4, PickedIsIn
  <1>6. g[s \ {Picked(s)}] = 0
    BY <1>2, <1>3, <1>5
  <1>7. g[s] = f[Picked(s)] + g[s \ {Picked(s)}]
    BY <1>0, <1>3, <1>4
  <1> QED
    BY <1>3, <1>5, <1>6, <1>7

----------------------------------------------------------------------------
(* The token's fee on transfers                                             *)

AnyTokenFee == [bps : 0 .. 10000, maximum : Nat]

FeeFits(f, amount) ==
    /\ TransferFee(f, amount) \in Nat
    /\ TransferFee(f, amount) <= amount
    /\ TransferFee(f, amount) <= f.maximum
    /\ PostFee(f, amount) = amount - TransferFee(f, amount)
    /\ \A cut \in Nat : amount * f.bps <= 10000 * cut => TransferFee(f, amount) <= cut
    /\ \/ TransferFee(f, amount) = f.maximum
       \/ amount * f.bps <= 10000 * TransferFee(f, amount)

\* A transfer never costs more than it moves, nor more than the maximum, and
\* otherwise no more than the least that is enough basis points.
LEMMA TransferFeeFits ==
    ASSUME NEW f \in AnyTokenFee, NEW amount \in Nat
    PROVE  FeeFits(f, amount)
  <1> DEFINE b == f.bps
             m == f.maximum
             c == CeilDiv(amount * b, 10000)
  <1>0. b \in 0 .. 10000 /\ m \in Nat
    BY DEF AnyTokenFee
  <1>4. TransferFee(f, amount) = IF b = 0 THEN 0 ELSE Smaller(m, c)
    BY DEF TransferFee
  <1>7. FeeFits(f, amount) <=>
            /\ TransferFee(f, amount) \in Nat
            /\ TransferFee(f, amount) <= amount
            /\ TransferFee(f, amount) <= m
            /\ \A cut \in Nat : amount * b <= 10000 * cut => TransferFee(f, amount) <= cut
            /\ TransferFee(f, amount) = m \/ amount * b <= 10000 * TransferFee(f, amount)
    BY DEF FeeFits, PostFee
  <1> HIDE DEF b, m
  <1>1. amount * b \in Nat /\ amount * b <= 10000 * amount
    BY <1>0, BasisPoints
  <1>2. /\ c \in Nat
        /\ amount * b <= 10000 * c
        /\ \A q \in Nat : amount * b <= 10000 * q => c <= q
    BY <1>1, Ceiling
  <1> HIDE DEF c
  <1>3. c <= amount
    BY <1>1, <1>2
  <1>5. CASE b = 0
    <2>1. TransferFee(f, amount) = 0 /\ amount * b = 0
      BY <1>4, <1>5
    <2> QED
      BY <2>1, <1>0, <1>7
  <1>6. CASE b # 0
    <2>1. TransferFee(f, amount) = IF m < c THEN m ELSE c
      BY <1>4, <1>6 DEF Smaller
    <2> QED
      BY <2>1, <1>0, <1>2, <1>3, <1>7
  <1> QED
    BY <1>5, <1>6

PreFeeFits(f, amount) ==
    /\ PreFee(f, amount) \in Nat
    /\ amount <= PostFee(f, PreFee(f, amount))
    /\ \A sent \in Nat : amount <= PostFee(f, sent) => PreFee(f, amount) <= sent

\* calculate_pre_fee_amount: what is transferred is enough for the amount to
\* arrive, and nothing less would have been.
LEMMA PreFeeIsExact ==
    ASSUME NEW f \in AnyTokenFee, NEW amount \in Nat
    PROVE  PreFeeFits(f, amount)
  <1> DEFINE b == f.bps
             m == f.maximum
  <1>0. b \in 0 .. 10000 /\ m \in Nat
    BY DEF AnyTokenFee
  <1>6. \A x \in Nat : FeeFits(f, x)
    BY TransferFeeFits
  <1>1. \A x \in Nat : /\ TransferFee(f, x) \in Nat
                        /\ TransferFee(f, x) <= m
                        /\ TransferFee(f, x) <= x
                        /\ PostFee(f, x) = x - TransferFee(f, x)
    BY <1>6 DEF FeeFits
  <1>2. \A x \in Nat : TransferFee(f, x) = m \/ x * b <= 10000 * TransferFee(f, x)
    BY <1>6 DEF FeeFits
  <1>7. \A x, cut \in Nat : x * b <= 10000 * cut => TransferFee(f, x) <= cut
    BY <1>6 DEF FeeFits
  <1>8. PreFee(f, amount) =
            IF b = 0 \/ amount = 0 THEN amount
            ELSE IF b = 10000 THEN amount + m
            ELSE Smaller(amount + m, CeilDiv(amount * 10000, 10000 - b))
    BY DEF PreFee
  <1>9. b = 0 => \A x \in Nat : PostFee(f, x) = x
    BY DEF PostFee, TransferFee
  <1> HIDE DEF b, m
  <1>3. CASE b = 0 \/ amount = 0
    <2>1. PreFee(f, amount) = amount
      BY <1>3, <1>8
    <2>2. CASE b = 0
      BY <2>1, <2>2, <1>9 DEF PreFeeFits
    <2>3. CASE amount = 0
      BY <2>1, <2>3, <1>1 DEF PreFeeFits
    <2> QED
      BY <1>3, <2>2, <2>3
  <1>4. CASE b = 10000 /\ amount # 0
    <2>1. PreFee(f, amount) = amount + m
      BY <1>4, <1>8
    <2>2. amount <= PostFee(f, amount + m)
      BY <1>0, <1>1
    <2>3. ASSUME NEW sent \in Nat, amount <= PostFee(f, sent)
          PROVE  amount + m <= sent
      <3>1. amount + TransferFee(f, sent) <= sent /\ TransferFee(f, sent) \in Nat
        BY <1>1, <2>3
      <3>2. TransferFee(f, sent) = m \/ sent * 10000 <= 10000 * TransferFee(f, sent)
        BY <1>2, <1>4
      <3> QED
        BY <3>1, <3>2, <1>0, <1>4
    <2> QED
      BY <2>1, <2>2, <2>3, <1>0 DEF PreFeeFits
  <1>5. CASE b \in 1 .. 9999 /\ amount # 0
    <2> DEFINE d == 10000 - b
               c == CeilDiv(amount * 10000, d)
    <2>1. d \in Nat \ {0} /\ amount * 10000 \in Nat
      BY <1>5
    <2>2. \A q \in Nat : q * b \in Nat /\ d * q = 10000 * q - q * b
      BY <1>0, SMT
    <2>3. PreFee(f, amount) = IF amount + m < c THEN amount + m ELSE c
      BY <1>5, <1>8 DEF Smaller
    <2> HIDE DEF d
    <2>4. /\ c \in Nat
          /\ amount * 10000 <= d * c
          /\ \A q \in Nat : amount * 10000 <= d * q => c <= q
      BY <2>1, Ceiling
    <2> HIDE DEF c
    <2>5. amount <= PostFee(f, amount + m)
      BY <1>0, <1>1
    <2>6. amount <= PostFee(f, c)
      <3>1. c * b \in Nat /\ d * c = 10000 * c - c * b
        BY <2>2, <2>4
      <3>2. c * b <= 10000 * (c - amount) /\ c - amount \in Nat
        BY <3>1, <2>4
      <3>3. TransferFee(f, c) <= c - amount
        BY <3>2, <2>4, <1>7
      <3> QED
        BY <3>3, <2>4, <1>1
    <2>7. ASSUME NEW sent \in Nat, amount <= PostFee(f, sent)
          PROVE  amount + m <= sent \/ c <= sent
      <3>1. amount + TransferFee(f, sent) <= sent /\ TransferFee(f, sent) \in Nat
        BY <1>1, <2>7
      <3>2. CASE TransferFee(f, sent) = m
        BY <3>1, <3>2, <1>0
      <3>3. CASE sent * b <= 10000 * TransferFee(f, sent)
        <4>1. sent * b \in Nat /\ d * sent = 10000 * sent - sent * b
          BY <2>2
        <4>2. amount * 10000 <= d * sent
          BY <4>1, <3>1, <3>3
        <4> QED
          BY <4>2, <2>4
      <3> QED
        BY <1>2, <3>2, <3>3
    <2> QED
      BY <2>4, <2>3, <2>5, <2>6, <2>7, <1>0 DEF PreFeeFits
  <1> QED
    BY <1>0, <1>3, <1>4, <1>5

----------------------------------------------------------------------------
(* Amounts                                                                   *)

\* What is left without the dust is a multiple of the rate, and no more.
LEMMA DustIsPart ==
    ASSUME NEW chain \in Chains, NEW amount \in Nat
    PROVE  RemoveDust(chain, amount) \in Nat /\ RemoveDust(chain, amount) <= amount
  <1>1. Rates[chain] \in Nat \ {0}
    BY OftAssumption
  <1>2. amount % Rates[chain] \in 0 .. (Rates[chain] - 1)
    BY <1>1
  <1>3. amount % Rates[chain] <= amount
    BY <1>1, SMT
  <1> QED
    BY <1>1, <1>2, <1>3 DEF RemoveDust

\* The fee of the OFT is part of the amount.
LEMMA OftFeeIsPart ==
    ASSUME NEW path \in Pathways, NEW amount \in Nat, fee[path] \in 0 .. 10000
    PROVE  OftFee(path, amount) \in Nat /\ OftFee(path, amount) <= amount
  <1> DEFINE bps == fee[path]
             q   == (amount * bps) \div 10000
  <1>1. OftFee(path, amount) = q
    BY DEF OftFee
  <1>2. bps \in 0 .. 10000
    OBVIOUS
  <1> HIDE DEF bps
  <1>3. amount * bps \in Nat /\ amount * bps <= 10000 * amount
    BY <1>2, BasisPoints
  <1>4. q \in Nat /\ 10000 * q <= amount * bps
    BY <1>3, Division
  <1> HIDE DEF q
  <1> QED
    BY <1>1, <1>3, <1>4

AmountsFit(path, asked) ==
    LET a == AmountsOf(path, asked)
    IN  /\ a.sent \in Nat /\ a.received \in Nat /\ a.fee \in Nat
        /\ a.sent <= asked
        /\ a.received <= a.sent
        /\ IsSolana(path[1]) =>
               IF IsAdapter(path[1]) THEN a.received <= PostFee(tokenFee, a.sent)
                                     ELSE a.sent = a.received + a.fee

\* A chain's local units are a positive number of the shared one.
LEMMA RatesFit ==
    \A chain \in Chains : Rates[chain] \in Nat \ {0}
  <1>1. Rates \in [Chains -> Nat \ {0}]
    BY OftAssumption
  <1> QED
    BY <1>1

\* The token's fee of the moment is a fee.
LEMMA TokenFeeFits ==
    ASSUME TypeOK
    PROVE  tokenFee \in AnyTokenFee
  <1>1. TokenFees \subseteq AnyTokenFee
    BY OftAssumption DEF AnyTokenFee
  <1>2. tokenFee \in TokenFees
    BY DEF TypeOK
  <1> QED
    BY <1>1, <1>2

\* The sender pays no more than was asked, and enough for what the receiver
\* gets and for all fees.
LEMMA AmountsAreExact ==
    ASSUME TypeOK, NEW path \in Pathways, NEW asked \in Nat
    PROVE  AmountsFit(path, asked)
  <1> DEFINE chain == path[1]
  <1>1. chain \in Chains /\ fee[path] \in 0 .. 10000 /\ tokenFee \in AnyTokenFee
    <2>1. chain \in Chains
      BY DEF Pathways
    <2>2. fee \in [Pathways -> 0 .. 10000] /\ tokenFee \in TokenFees
      BY DEF TypeOK
    <2>3. TokenFees \subseteq AnyTokenFee
      BY OftAssumption DEF AnyTokenFee
    <2> QED
      BY <2>1, <2>2, <2>3
  <1>2. \A x \in Nat : RemoveDust(chain, x) \in Nat /\ RemoveDust(chain, x) <= x
    BY <1>1, DustIsPart
  <1>3. \A x \in Nat : OftFee(path, x) \in Nat /\ OftFee(path, x) <= x
    BY <1>1, OftFeeIsPart
  <1>4. CASE IsSolana(chain)
    <2> DEFINE arrives == IF IsAdapter(chain) THEN RemoveDust(chain, PostFee(tokenFee, asked))
                                              ELSE RemoveDust(chain, asked)
               cut     == RemoveDust(chain, OftFee(path, arrives))
               sent    == IF IsAdapter(chain) THEN PreFee(tokenFee, arrives) ELSE arrives
    <2>1. AmountsOf(path, asked) = [sent |-> sent, received |-> arrives - cut, fee |-> cut]
      BY <1>4 DEF AmountsOf, SolanaAmounts
    <2>2. PostFee(tokenFee, asked) \in Nat /\ PostFee(tokenFee, asked) <= asked
      BY <1>1, TransferFeeFits DEF FeeFits
    <2>3. /\ arrives \in Nat
          /\ arrives <= asked
          /\ IsAdapter(chain) => arrives <= PostFee(tokenFee, asked)
      BY <1>2, <2>2
    <2> HIDE DEF arrives
    <2>4. OftFee(path, arrives) \in Nat /\ OftFee(path, arrives) <= arrives
      BY <1>3, <2>3
    <2>5. cut \in Nat /\ cut <= arrives
      BY <1>2, <2>3, <2>4
    <2> HIDE DEF cut
    <2>6. CASE IsAdapter(chain)
      <3>1. PreFeeFits(tokenFee, arrives)
        BY <1>1, <2>3, PreFeeIsExact
      <3>2. /\ sent \in Nat
            /\ arrives <= PostFee(tokenFee, sent)
            /\ sent <= asked
        BY <2>3, <2>6, <3>1 DEF PreFeeFits
      <3> HIDE DEF sent
      <3>3. FeeFits(tokenFee, sent)
        BY <1>1, <3>2, TransferFeeFits
      <3>4. arrives <= sent /\ PostFee(tokenFee, sent) \in Int
        BY <3>2, <3>3, <2>3 DEF FeeFits
      <3> QED
        BY <2>1, <2>3, <2>5, <2>6, <3>2, <3>4 DEF AmountsFit
    <2>7. CASE ~ IsAdapter(chain)
      <3>1. sent = arrives
        BY <2>7
      <3> QED
        BY <2>1, <2>3, <2>5, <2>7, <3>1 DEF AmountsFit
    <2> QED
      BY <2>6, <2>7
  <1>5. CASE ~ IsSolana(chain)
    <2> DEFINE received == RemoveDust(chain, asked - OftFee(path, asked))
               sent     == IF fee[path] > 0 THEN asked ELSE received
    <2>1. AmountsOf(path, asked) = [sent |-> sent, received |-> received, fee |-> sent - received]
      BY <1>5 DEF AmountsOf, SuiAmounts
    <2>2. asked - OftFee(path, asked) \in Nat /\ asked - OftFee(path, asked) <= asked
      BY <1>3
    <2>3. received \in Nat /\ received <= asked
      BY <1>2, <2>2
    <2> HIDE DEF received
    <2>4. sent \in Nat /\ sent <= asked /\ received <= sent
      BY <2>3
    <2> HIDE DEF sent
    <2> QED
      BY <2>1, <2>3, <2>4, <1>5 DEF AmountsFit
  <1> QED
    BY <1>4, <1>5

----------------------------------------------------------------------------
(* The limiters                                                              *)

RefillFits(l, extra) ==
    LET r == Refill(l, extra)
    IN  /\ r \in Buckets
        /\ r.capacity = l.capacity
        /\ r.age = 0
        /\ r.tokens <= l.capacity
        /\ r.tokens = Smaller(l.capacity, l.tokens + extra + l.age * l.refillPerSecond)

\* A refilled bucket is full, or has all that has come since.
LEMMA Refilled ==
    ASSUME NEW l \in Buckets, NEW extra \in Nat
    PROVE  RefillFits(l, extra)
  <1> DEFINE c == l.capacity
             t == l.tokens
             x == l.age * l.refillPerSecond
             n == Smaller(c, t + extra + x)
  <1>1. /\ c \in Nat /\ t \in Nat /\ l.refillPerSecond \in Nat /\ l.age \in Nat
        /\ 0 \in 0 .. MaxAge
    BY AgeAssumption DEF Buckets
  <1>2. x \in Nat
    BY <1>1, SMT
  <1>3. Refill(l, extra) = [l EXCEPT !.tokens = n, !.age = 0]
    BY DEF Refill
  <1> HIDE DEF x
  <1>4. n \in Nat /\ n <= c
    BY <1>1, <1>2 DEF Smaller
  <1>5. n = Smaller(c, t + extra + l.age * l.refillPerSecond)
    BY DEF x
  <1> HIDE DEF n
  <1> QED
    BY <1>1, <1>3, <1>4, <1>5 DEF Buckets, RefillFits

\* A bucket that is not older has what it holds.
LEMMA Fresh ==
    ASSUME NEW l \in Buckets, l.age = 0, l.tokens <= l.capacity
    PROVE  Refill(l, 0).tokens = l.tokens
  <1>1. Refill(l, 0).tokens = Smaller(l.capacity, l.tokens + 0 + l.age * l.refillPerSecond)
    BY Refilled DEF RefillFits
  <1>2. l.tokens \in Nat /\ l.capacity \in Nat /\ l.refillPerSecond \in Nat
    BY DEF Buckets
  <1>3. l.age * l.refillPerSecond = 0
    BY <1>2
  <1> QED
    BY <1>1, <1>2, <1>3 DEF Smaller

\* What an exact limiter has outstanding, a bucket lacks.
BucketOwes(l, d) == d <= WindowUnit * (l.capacity - Refill(l, 0).tokens)

\* What passes is taken, and stays within the capacity.
LEMMA BucketConsumes ==
    ASSUME NEW l \in Buckets, NEW d \in Nat, BucketOwes(l, d),
           NEW amount \in Nat, CanConsume(l, amount)
    PROVE  /\ Consume(l, amount) \in Buckets
           /\ BucketOwes(Consume(l, amount), d + WindowUnit * amount)
           /\ d + WindowUnit * amount <= WindowUnit * Consume(l, amount).capacity
  <1> DEFINE c == l.capacity
             t == Refill(l, 0).tokens
             n == Consume(l, amount)
  <1>1. RefillFits(l, 0)
    BY Refilled
  <1>2. c \in Nat /\ t \in Nat /\ t <= c /\ amount <= t
    BY <1>1 DEF RefillFits, Buckets, CanConsume
  <1>3. n \in Buckets /\ n.capacity = c /\ n.age = 0 /\ n.tokens = t - amount
    BY <1>1, <1>2 DEF RefillFits, Buckets, Consume
  <1>4. Refill(n, 0).tokens = t - amount
    BY <1>2, <1>3, Fresh
  <1>5. d <= WindowUnit * (c - t)
    BY DEF BucketOwes
  <1> HIDE DEF n, c, t
  <1>6. WindowUnit \in Nat
    BY LimitsAssumption
  <1>7. WindowUnit * (c - (t - amount)) = WindowUnit * (c - t) + WindowUnit * amount
    BY <1>2, <1>6, SMT
  <1>8. WindowUnit * (c - (t - amount)) <= WindowUnit * c
    BY <1>2, <1>6, Monotonic
  <1>9. WindowUnit * amount \in Nat /\ WindowUnit * (c - t) \in Int /\ WindowUnit * c \in Int
    BY <1>2, <1>6, SMT
  <1>10. d + WindowUnit * amount <= WindowUnit * (c - (t - amount))
    BY <1>5, <1>7, <1>9
  <1> QED
    BY <1>3, <1>4, <1>8, <1>10, <1>2, <1>7, <1>9 DEF BucketOwes, n

\* What passes the other way fills the bucket by as much.
LEMMA BucketRefills ==
    ASSUME NEW l \in Buckets, NEW d \in Nat, BucketOwes(l, d), NEW amount \in Nat
    PROVE  /\ Refill(l, amount) \in Buckets
           /\ BucketOwes(Refill(l, amount), Larger(0, d - WindowUnit * amount))
  <1> DEFINE c == l.capacity
             s == l.tokens + l.age * l.refillPerSecond
             t == Refill(l, 0).tokens
             n == Refill(l, amount)
             m == n.tokens
             w == WindowUnit
  <1>1. RefillFits(l, 0) /\ RefillFits(l, amount)
    BY Refilled
  <1>2. c \in Nat /\ s \in Nat
    <2>1. c \in Nat /\ l.tokens \in Nat /\ l.age \in Nat /\ l.refillPerSecond \in Nat
      BY AgeAssumption DEF Buckets
    <2> QED
      BY <2>1, SMT
  <1>3. n \in Buckets /\ n.capacity = c /\ n.age = 0 /\ m <= c /\ m \in Nat
    BY <1>1 DEF RefillFits, Buckets
  <1>4. Refill(n, 0).tokens = m
    BY <1>3, Fresh
  <1>5. d <= w * (c - t) /\ w \in Nat
    BY LimitsAssumption DEF BucketOwes
  <1>6. t = Smaller(c, s) /\ m = Smaller(c, s + amount)
    <2>1. l.tokens \in Nat /\ l.age \in Nat /\ l.refillPerSecond \in Nat
      BY AgeAssumption DEF Buckets
    <2>2. l.age * l.refillPerSecond \in Nat
      BY <2>1, SMT
    <2>3. l.tokens + 0 + l.age * l.refillPerSecond = s
          /\ l.tokens + amount + l.age * l.refillPerSecond = s + amount
      BY <2>1, <2>2
    <2> QED
      BY <1>1, <2>3 DEF RefillFits
  <1>7. BucketOwes(n, Larger(0, d - w * amount)) <=> Larger(0, d - w * amount) <= w * (c - m)
    BY <1>3, <1>4 DEF BucketOwes
  <1> HIDE DEF c, s, t, n, m, w
  <1>8. m <= t + amount \/ m = c
    BY <1>2, <1>6 DEF Smaller
  <1>9. t \in Nat /\ t <= c /\ (m = c \/ m <= t + amount)
    BY <1>2, <1>6, <1>8 DEF Smaller
  <1>10. w * (c - m) \in Nat /\ w * amount \in Nat /\ w * (c - t) \in Nat
    <2>1. c - m \in Nat /\ c - t \in Nat
      BY <1>2, <1>3, <1>9 DEF m
    <2> QED
      BY <2>1, <1>5, SMT
  <1>11. m <= t + amount
    BY <1>2, <1>6, <1>9 DEF Smaller
  <1>12. w * (c - t) <= w * (c - m) + w * amount
    <2>1. c - t <= c - m + amount
      BY <1>2, <1>3, <1>9, <1>11 DEF m
    <2>2. c - t \in Int /\ c - m \in Int /\ c - m + amount \in Int
      BY <1>2, <1>3, <1>9
    <2>3. w * (c - t) <= w * (c - m + amount)
      BY <2>1, <2>2, <1>5, Monotonic
    <2>4. w * (c - m + amount) = w * (c - m) + w * amount
      BY <2>2, <1>5, SMT
    <2> QED
      BY <2>3, <2>4
  <1>13. Larger(0, d - w * amount) <= w * (c - m)
    BY <1>5, <1>10, <1>12 DEF Larger
  <1> QED
    BY <1>3, <1>7, <1>13 DEF n, w

\* A second fills the bucket by no more than the rate.
LEMMA BucketAges ==
    ASSUME NEW l \in Buckets, NEW d \in Nat, BucketOwes(l, d)
    PROVE  /\ AgedBucket(l) \in Buckets
           /\ BucketOwes(AgedBucket(l), Larger(0, d - WindowUnit * l.refillPerSecond))
  <1> DEFINE c == l.capacity
             r == l.refillPerSecond
             a == l.age
             k == l.tokens
             t == Refill(l, 0).tokens
             n == Older(l)
             b == n.age
             m == Refill(n, 0).tokens
             w == WindowUnit
  <1>1. c \in Nat /\ r \in Nat /\ a \in 0 .. MaxAge /\ k \in Nat /\ MaxAge \in Nat
    BY AgeAssumption DEF Buckets
  <1>2. n = [l EXCEPT !.age = Smaller(MaxAge, a + 1)]
    BY DEF Older
  <1>3. /\ n \in Buckets /\ n.capacity = c /\ n.refillPerSecond = r /\ n.tokens = k
        /\ b = Smaller(MaxAge, a + 1)
    <2>1. Smaller(MaxAge, a + 1) \in 0 .. MaxAge
      BY <1>1 DEF Smaller
    <2> QED
      BY <2>1, <1>2 DEF Buckets
  <1>4. RefillFits(l, 0) /\ RefillFits(n, 0)
    BY <1>3, Refilled
  <1>5. t = Smaller(c, k + 0 + a * r) /\ m = Smaller(c, k + 0 + b * r)
    BY <1>3, <1>4 DEF RefillFits
  <1>6. d <= w * (c - t) /\ w \in Nat
    BY LimitsAssumption DEF BucketOwes
  <1>7. AgedBucket(l) = IF t = c THEN l ELSE n
    BY DEF AgedBucket
  <1>8. BucketOwes(n, Larger(0, d - w * r)) <=> Larger(0, d - w * r) <= w * (c - m)
    BY <1>3 DEF BucketOwes
  <1>9. BucketOwes(l, Larger(0, d - w * r)) <=> Larger(0, d - w * r) <= w * (c - t)
    BY DEF BucketOwes
  <1> HIDE DEF c, r, a, k, t, n, b, m, w
  <1>10. a * r \in Nat /\ b \in Nat /\ b * r \in Nat /\ w * r \in Nat
    <2>1. a \in Nat /\ b \in Nat
      BY <1>1, <1>3 DEF Smaller
    <2> QED
      BY <2>1, <1>1, <1>6, SMT
  <1>11. b * r <= a * r + r
    <2>1. b <= a + 1
      BY <1>1, <1>3 DEF Smaller
    <2>2. r * b <= r * (a + 1)
      BY <2>1, <1>1, <1>10, Monotonic
    <2>3. r * (a + 1) = a * r + r /\ r * b = b * r
      BY <1>1, <1>10, SMT
    <2> QED
      BY <2>2, <2>3
  <1>12. t \in Nat /\ m \in Nat /\ t <= c /\ m <= c /\ m <= t + r
    <2> DEFINE x == a * r
               y == b * r
    <2>1. x \in Nat /\ y \in Nat /\ y <= x + r
      BY <1>10, <1>11
    <2>2. t = Smaller(c, k + 0 + x) /\ m = Smaller(c, k + 0 + y)
      BY <1>5
    <2> HIDE DEF x, y
    <2> QED
      BY <2>1, <2>2, <1>1 DEF Smaller
  <1>13. w * (c - t) \in Nat /\ w * (c - m) \in Nat
    <2>1. c - t \in Nat /\ c - m \in Nat
      BY <1>1, <1>12
    <2> QED
      BY <2>1, <1>6, SMT
  <1>14. w * (c - t) <= w * (c - m) + w * r
    <2>1. c - t <= c - m + r /\ c - t \in Int /\ c - m \in Int /\ c - m + r \in Int
      BY <1>1, <1>12
    <2>2. w * (c - t) <= w * (c - m + r)
      BY <2>1, <1>6, Monotonic
    <2>3. w * (c - m + r) = w * (c - m) + w * r
      BY <2>1, <1>1, <1>6, SMT
    <2> QED
      BY <2>2, <2>3
  <1>15. Larger(0, d - w * r) <= w * (c - m) /\ Larger(0, d - w * r) <= w * (c - t)
    BY <1>6, <1>10, <1>13, <1>14 DEF Larger
  <1> QED
    BY <1>3, <1>7, <1>8, <1>9, <1>15 DEF w, r

SolanaParams == [capacity : Nat \cup {None}, refillPerSecond : Nat \cup {None}]

\* Another rate changes nothing of what has come already; another capacity
\* fills the bucket.
LEMMA BucketUpdates ==
    ASSUME NEW l \in Buckets \cup {NoLimiter}, NEW params \in SolanaParams,
           NEW d \in Nat, IF l = NoLimiter THEN d = 0 ELSE BucketOwes(l, d)
    PROVE  /\ UpdatedBucket(l, params) \in Buckets
           /\ BucketOwes(UpdatedBucket(l, params), IF params.capacity = None THEN d ELSE 0)
  <1> DEFINE old    == IF l = NoLimiter THEN DefaultBucket ELSE l
             filled == IF params.capacity = None THEN old ELSE SetCapacity(old, params.capacity)
             now    == IF params.capacity = None THEN d ELSE 0
             rate   == params.refillPerSecond
  <1>0. UpdatedBucket(l, params) = IF rate = None THEN filled ELSE SetRate(filled, rate)
    BY DEF UpdatedBucket
  <1>1. /\ WindowUnit \in Nat /\ MaxAge \in Nat
        /\ params.capacity \in Nat \cup {None} /\ rate \in Nat \cup {None} /\ None \notin Nat
    BY AgeAssumption, LimitsAssumption DEF SolanaParams, None
  <1>2. DefaultBucket \in Buckets
    BY <1>1 DEF DefaultBucket, Buckets
  <1>3. old \in Buckets
    BY <1>2
  <1>4. ASSUME NEW b \in Buckets
        PROVE  BucketOwes(b, 0)
    <2> DEFINE x == b.capacity - Refill(b, 0).tokens
    <2>1. RefillFits(b, 0)
      BY Refilled
    <2>2. x \in Nat
      BY <2>1 DEF RefillFits, Buckets
    <2>3. BucketOwes(b, 0) <=> 0 <= WindowUnit * x
      BY DEF BucketOwes
    <2> HIDE DEF x
    <2>4. 0 <= WindowUnit * x
      BY <1>1, <2>2, SMT
    <2> QED
      BY <2>3, <2>4
  <1>5. BucketOwes(old, d)
    BY <1>2, <1>4
  <1> HIDE DEF old
  <1>6. filled \in Buckets /\ BucketOwes(filled, now)
    <2>1. CASE params.capacity = None
      BY <2>1, <1>3, <1>5
    <2>2. CASE params.capacity # None
      <3>1. params.capacity \in Nat /\ filled = SetCapacity(old, params.capacity) /\ now = 0
        BY <2>2, <1>1
      <3>2. ASSUME NEW b \in Buckets, NEW c \in Nat
            PROVE  SetCapacity(b, c) \in Buckets
        <4>1. 0 \in 0 .. MaxAge /\ b.refillPerSecond \in Nat
          BY <1>1 DEF Buckets
        <4> QED
          BY <4>1 DEF SetCapacity, Buckets
      <3>3. filled \in Buckets
        BY <3>1, <3>2, <1>3
      <3> QED
        BY <3>1, <3>3, <1>4
    <2> QED
      BY <2>1, <2>2
  <1>7. now \in Nat
    OBVIOUS
  <1> HIDE DEF filled, now
  <1>8. CASE rate = None
    BY <1>8, <1>0, <1>6 DEF now
  <1>9. CASE rate # None
    <2> DEFINE new == SetRate(filled, rate)
    <2>1. rate \in Nat /\ UpdatedBucket(l, params) = new
      BY <1>9, <1>0, <1>1
    <2>2. RefillFits(filled, 0)
      BY <1>6, Refilled
    <2>3. /\ new \in Buckets
          /\ new.capacity = filled.capacity /\ new.age = 0
          /\ new.tokens = Refill(filled, 0).tokens
          /\ new.tokens <= new.capacity
      BY <2>1, <2>2 DEF SetRate, RefillFits, Buckets
    <2>4. Refill(new, 0).tokens = Refill(filled, 0).tokens
      BY <2>3, Fresh
    <2> QED
      BY <2>1, <2>3, <2>4, <1>6 DEF BucketOwes, now
  <1> QED
    BY <1>8, <1>9

----------------------------------------------------------------------------

\* What an exact limiter has outstanding, a window has in flight.
WindowFlow(l)    == l.limit * (WindowUnit \div l.windowSeconds)
WindowOwes(l, d) == d = 0 \/ d + l.age * WindowFlow(l) <= WindowUnit * l.inFlightOnLastUpdate

WindowFits(l, d) ==
    /\ InFlight(l) \in Nat
    /\ Checkpoint(l) = [l EXCEPT !.inFlightOnLastUpdate = InFlight(l), !.age = 0]
    /\ WindowFlow(l) \in Nat
    /\ d <= WindowUnit * InFlight(l)

\* Decay rounds down: what is in flight is never too little.
LEMMA WindowDecays ==
    ASSUME NEW l \in Windows, NEW d \in Nat, WindowOwes(l, d)
    PROVE  WindowFits(l, d)
  <1> DEFINE a == l.age
             m == l.limit
             s == l.windowSeconds
             f == l.inFlightOnLastUpdate
             u == WindowUnit
             q == u \div s
             x == Decay(l)
             y == InFlight(l)
  <1>1. /\ a \in Nat /\ m \in Nat /\ f \in Nat /\ u \in Nat \ {0} /\ s \in Nat \ {0}
        /\ u % s = 0
    BY AgeAssumption, LimitsAssumption DEF Windows, WindowLengths
  <1>2. x = (a * m) \div s /\ y = Larger(0, f - x)
    BY DEF Decay, InFlight
  <1>3. WindowFlow(l) = m * q
    BY DEF WindowFlow
  <1>4. d = 0 \/ d + a * WindowFlow(l) <= u * f
    BY DEF WindowOwes
  <1>5. WindowFits(l, d) <=> y \in Nat /\ WindowFlow(l) \in Nat /\ d <= u * y
    BY DEF WindowFits, Checkpoint
  <1> HIDE DEF a, m, s, f, u, x, y
  <1>6. q \in Nat /\ u = s * q
    BY <1>1, SMT
  <1> HIDE DEF q
  <1>7. a * m \in Nat /\ m * q \in Nat
    BY <1>1, <1>6, SMT
  <1>8. x \in Nat /\ s * x <= a * m
    BY <1>1, <1>2, <1>7, Division
  <1>9. y \in Nat /\ f - x <= y
    BY <1>1, <1>2, <1>8 DEF Larger
  <1>10. u * x <= a * (m * q)
    <2>1. s * x \in Nat
      BY <1>1, <1>8, SMT
    <2>2. q * (s * x) <= q * (a * m)
      BY <2>1, <1>6, <1>7, <1>8, Monotonic
    <2>3. q * (s * x) = u * x
      BY <1>1, <1>6, <1>8, SMT
    <2>4. q * (a * m) = a * (m * q)
      BY <1>1, <1>6, SMT
    <2> QED
      BY <2>2, <2>3, <2>4
  <1>11. u * (f - x) <= u * y
    BY <1>1, <1>8, <1>9, Monotonic
  <1>12. u * (f - x) = u * f - u * x
    BY <1>1, <1>8, SMT
  <1>13. u * x \in Nat /\ u * f \in Nat /\ u * y \in Nat /\ a * (m * q) \in Nat
    BY <1>1, <1>7, <1>8, <1>9, SMT
  <1>14. d <= u * y
    BY <1>3, <1>4, <1>10, <1>11, <1>12, <1>13
  <1> QED
    BY <1>3, <1>5, <1>7, <1>9, <1>14

\* A window that has been saved owes all that is in flight.
LEMMA WindowSaved ==
    ASSUME NEW l \in Windows, l.age = 0,
           NEW d \in Nat, d <= WindowUnit * l.inFlightOnLastUpdate
    PROVE  WindowOwes(l, d)
  <1>1. WindowOwes(l, 0)
    BY DEF WindowOwes
  <1>2. WindowFits(l, 0)
    BY <1>1, WindowDecays
  <1> DEFINE w == WindowFlow(l)
  <1>3. w \in Nat
    BY <1>2 DEF WindowFits
  <1>4. WindowOwes(l, d) <=> d = 0 \/ d + 0 * w <= WindowUnit * l.inFlightOnLastUpdate
    BY DEF WindowOwes
  <1> HIDE DEF w
  <1>5. d + 0 * w = d
    BY <1>3
  <1> QED
    BY <1>4, <1>5

\* What passes is in flight, and stays within the limit.
LEMMA WindowConsumes ==
    ASSUME NEW l \in Windows, NEW d \in Nat, WindowOwes(l, d),
           NEW amount \in Nat, HasCapacity(l, amount)
    PROVE  /\ ConsumeCapacity(l, amount) \in Windows
           /\ WindowOwes(ConsumeCapacity(l, amount), d + WindowUnit * amount)
           /\ d + WindowUnit * amount <= WindowUnit * ConsumeCapacity(l, amount).limit
  <1> DEFINE n == ConsumeCapacity(l, amount)
             f == InFlight(l)
             u == WindowUnit
             m == l.limit
  <1>1. WindowFits(l, d)
    BY WindowDecays
  <1>2. f \in Nat /\ m \in Nat /\ u \in Nat /\ d <= u * f /\ f + amount <= m
    BY <1>1, LimitsAssumption DEF WindowFits, HasCapacity, Windows
  <1>3. 0 \in 0 .. MaxAge
    BY AgeAssumption
  <1> DEFINE g == f + amount
  <1>4. g \in Nat /\ n = [Checkpoint(l) EXCEPT !.inFlightOnLastUpdate = g]
    BY <1>1, <1>2 DEF WindowFits, ConsumeCapacity
  <1>5. n \in Windows /\ n.age = 0 /\ n.inFlightOnLastUpdate = f + amount /\ n.limit = m
    <2> HIDE DEF g
    <2>1. n \in Windows /\ n.age = 0 /\ n.inFlightOnLastUpdate = g /\ n.limit = m
      BY <1>1, <1>3, <1>4 DEF WindowFits, Windows
    <2> QED
      BY <2>1 DEF g
  <1>6. u * (f + amount) = u * f + u * amount /\ u * amount \in Nat /\ u * f \in Nat
    BY <1>2, SMT
  <1>7. u * (f + amount) <= u * m
    BY <1>2, Monotonic
  <1>8. u * m \in Nat /\ d + u * amount \in Nat
    BY <1>2, <1>6, SMT
  <1>9. WindowOwes(n, d + u * amount)
    BY <1>2, <1>5, <1>6, <1>8, WindowSaved
  <1> QED
    BY <1>2, <1>5, <1>6, <1>7, <1>8, <1>9

\* What passes the other way is no longer in flight.
LEMMA WindowReleases ==
    ASSUME NEW l \in Windows, NEW d \in Nat, WindowOwes(l, d), NEW amount \in Nat
    PROVE  /\ ReleaseCapacity(l, amount) \in Windows
           /\ WindowOwes(ReleaseCapacity(l, amount), Larger(0, d - WindowUnit * amount))
  <1> DEFINE n == ReleaseCapacity(l, amount)
             f == InFlight(l)
             g == Larger(0, f - amount)
             u == WindowUnit
  <1>1. WindowFits(l, d)
    BY WindowDecays
  <1>2. f \in Nat /\ u \in Nat /\ d <= u * f
    BY <1>1, LimitsAssumption DEF WindowFits
  <1>3. 0 \in 0 .. MaxAge
    BY AgeAssumption
  <1>4. g \in Nat /\ f - amount <= g
    BY <1>2 DEF Larger
  <1>5. n = [Checkpoint(l) EXCEPT !.inFlightOnLastUpdate = g]
    BY <1>1 DEF WindowFits, ReleaseCapacity
  <1>6. n \in Windows /\ n.age = 0 /\ n.inFlightOnLastUpdate = g
    BY <1>1, <1>3, <1>4, <1>5 DEF WindowFits, Windows
  <1>7. u * (f - amount) <= u * g
    BY <1>2, <1>4, Monotonic
  <1>8. u * (f - amount) = u * f - u * amount /\ u * amount \in Nat /\ u * f \in Nat /\ u * g \in Nat
    BY <1>2, <1>4, SMT
  <1>9. Larger(0, d - u * amount) \in Nat /\ Larger(0, d - u * amount) <= u * g
    BY <1>2, <1>7, <1>8 DEF Larger
  <1> QED
    BY <1>6, <1>9, WindowSaved

\* In a second, a window has no more decay than its limit allows.
LEMMA WindowAges ==
    ASSUME NEW l \in Windows, NEW d \in Nat, WindowOwes(l, d)
    PROVE  /\ AgedWindow(l) \in Windows
           /\ WindowOwes(AgedWindow(l), Larger(0, d - WindowFlow(l)))
  <1> DEFINE n == Older(l)
             a == l.age
             b == n.age
             w == WindowFlow(l)
             f == l.inFlightOnLastUpdate
             u == WindowUnit
             e == Larger(0, d - w)
  <1>1. WindowFits(l, d) /\ MaxAge \in Nat
    BY WindowDecays, AgeAssumption
  <1>2. w \in Nat /\ u \in Nat /\ f \in Nat /\ a \in 0 .. MaxAge
    BY <1>1, LimitsAssumption DEF WindowFits, Windows
  <1>3. Smaller(MaxAge, a + 1) \in 0 .. MaxAge
    BY <1>1, <1>2 DEF Smaller
  <1>4. /\ n \in Windows /\ b = Smaller(MaxAge, a + 1) /\ n.inFlightOnLastUpdate = f
        /\ WindowFlow(n) = w
    BY <1>3 DEF Older, Windows, WindowFlow
  <1>5. AgedWindow(l) = IF InFlight(l) = 0 THEN l ELSE n
    BY DEF AgedWindow
  <1>6. CASE InFlight(l) = 0
    <2>1. d = 0
      BY <1>1, <1>2, <1>6 DEF WindowFits
    <2>2. e = 0
      BY <2>1, <1>2 DEF Larger
    <2> QED
      BY <2>2, <1>5, <1>6 DEF WindowOwes
  <1>7. CASE InFlight(l) # 0
    <2>1. AgedWindow(l) = n
      BY <1>5, <1>7
    <2>2. d = 0 \/ d + a * w <= u * f
      BY DEF WindowOwes
    <2>3. WindowOwes(n, e) <=> e = 0 \/ e + b * w <= u * f
      BY <1>4 DEF WindowOwes
    <2> HIDE DEF n, a, b, w, f, u
    <2>4. b \in Nat /\ b <= a + 1 /\ a \in Nat
      BY <1>1, <1>2, <1>4 DEF Smaller
    <2>5. w * b <= w * (a + 1)
      BY <2>4, <1>2, Monotonic
    <2>6. w * (a + 1) = a * w + w /\ w * b = b * w /\ a * w \in Nat /\ b * w \in Nat /\ u * f \in Nat
      BY <2>4, <1>2, SMT
    <2>7. e = 0 \/ e + b * w <= u * f
      BY <2>2, <2>5, <2>6, <1>2 DEF Larger
    <2> QED
      BY <2>1, <2>3, <2>7, <1>4 DEF n, w
  <1> QED
    BY <1>6, <1>7

SuiParams == [limit : Nat, windowSeconds : WindowLengths]

\* Another limit or window changes nothing of what is in flight.
LEMMA WindowUpdates ==
    ASSUME NEW l \in Windows \cup {NoLimiter}, NEW params \in SuiParams,
           NEW d \in Nat, IF l = NoLimiter THEN d = 0 ELSE WindowOwes(l, d)
    PROVE  /\ UpdatedWindow(l, params) \in Windows
           /\ WindowOwes(UpdatedWindow(l, params), d)
  <1> DEFINE n == UpdatedWindow(l, params)
  <1>1. /\ 0 \in 0 .. MaxAge
        /\ params.limit \in Nat /\ params.windowSeconds \in WindowLengths
    BY AgeAssumption DEF SuiParams
  <1>2. CASE l = NoLimiter
    <2>1. n = NewWindow(params.limit, params.windowSeconds) /\ d = 0
      BY <1>2 DEF UpdatedWindow
    <2>2. n \in Windows
      BY <2>1, <1>1 DEF NewWindow, Windows
    <2> QED
      BY <2>1, <2>2 DEF WindowOwes
  <1>3. CASE l # NoLimiter
    <2>1. n = SetLimit(l, params.limit, params.windowSeconds) /\ l \in Windows
      BY <1>3 DEF UpdatedWindow
    <2>2. WindowFits(l, d)
      BY <2>1, <1>3, WindowDecays
    <2> DEFINE c == Checkpoint(l)
    <2>3. /\ c \in Windows /\ c.age = 0 /\ c.inFlightOnLastUpdate = InFlight(l)
      BY <2>1, <2>2, <1>1 DEF WindowFits, Windows
    <2> HIDE DEF c
    <2>4. n = [c EXCEPT !.limit = params.limit, !.windowSeconds = params.windowSeconds]
      BY <2>1 DEF SetLimit, c
    <2>5. n \in Windows /\ n.age = 0 /\ n.inFlightOnLastUpdate = InFlight(l)
      BY <2>3, <2>4, <1>1 DEF Windows
    <2> QED
      BY <2>2, <2>5, WindowSaved DEF WindowFits
  <1> QED
    BY <1>2, <1>3

----------------------------------------------------------------------------

LimitersOf(chain) == (IF IsSolana(chain) THEN Buckets ELSE Windows) \cup {NoLimiter}

\* What an exact limiter has outstanding, the limiter knows of.
Owes(chain, l, d) ==
    IF l = NoLimiter THEN d = 0
    ELSE IF IsSolana(chain) THEN BucketOwes(l, d) ELSE WindowOwes(l, d)

\* A limiter that lets an amount pass takes it, and stays within its limit.
LEMMA LimiterTakes ==
    ASSUME NEW chain, NEW l \in LimitersOf(chain),
           NEW d \in Nat, Owes(chain, l, d), NEW amount \in Nat,
           l # NoLimiter => IF IsSolana(chain) THEN CanConsume(l, amount) ELSE HasCapacity(l, amount)
    PROVE  LET n == Taken(chain, l, amount)
               e == IF l # NoLimiter THEN d + WindowUnit * amount ELSE 0
           IN  /\ n \in LimitersOf(chain) /\ e \in Nat
               /\ Owes(chain, n, e)
               /\ l # NoLimiter => e <= WindowUnit * LimitOf(chain, n)
  <1>1. NoLimiter \notin Buckets /\ NoLimiter \notin Windows /\ WindowUnit * amount \in Nat
    <2>1. WindowUnit \in Nat
      BY LimitsAssumption
    <2>2. WindowUnit * amount \in Nat
      BY <2>1, SMT
    <2> QED
      BY <2>2, LimitsAssumption
  <1>2. CASE l = NoLimiter
    BY <1>2 DEF Taken, Owes
  <1>3. CASE l # NoLimiter /\ IsSolana(chain)
    <2> DEFINE n == Consume(l, amount)
    <2>1. l \in Buckets /\ CanConsume(l, amount) /\ BucketOwes(l, d)
      BY <1>3 DEF LimitersOf, Owes
    <2>2. /\ n \in Buckets
          /\ BucketOwes(n, d + WindowUnit * amount)
          /\ d + WindowUnit * amount <= WindowUnit * n.capacity
      BY <2>1, BucketConsumes
    <2>3. Taken(chain, l, amount) = n
      BY <1>3 DEF Taken
    <2> HIDE DEF n
    <2> QED
      BY <2>2, <2>3, <1>1, <1>3 DEF LimitersOf, Owes, LimitOf
  <1>4. CASE l # NoLimiter /\ ~ IsSolana(chain)
    <2> DEFINE n == ConsumeCapacity(l, amount)
    <2>1. l \in Windows /\ HasCapacity(l, amount) /\ WindowOwes(l, d)
      BY <1>4 DEF LimitersOf, Owes
    <2>2. /\ n \in Windows
          /\ WindowOwes(n, d + WindowUnit * amount)
          /\ d + WindowUnit * amount <= WindowUnit * n.limit
      BY <2>1, WindowConsumes
    <2>3. Taken(chain, l, amount) = n
      BY <1>4 DEF Taken
    <2> HIDE DEF n
    <2> QED
      BY <2>2, <2>3, <1>1, <1>4 DEF LimitersOf, Owes, LimitOf
  <1> QED
    BY <1>2, <1>3, <1>4

\* A limiter to which an amount is given back owes that much less.
LEMMA LimiterGives ==
    ASSUME NEW chain, NEW l \in LimitersOf(chain),
           NEW d \in Nat, Owes(chain, l, d), NEW amount \in Nat
    PROVE  LET n == Given(chain, l, amount)
               e == Larger(0, d - WindowUnit * amount)
           IN  /\ n \in LimitersOf(chain) /\ e \in Nat /\ e <= d
               /\ Owes(chain, n, e)
  <1> DEFINE e == Larger(0, d - WindowUnit * amount)
  <1>1. NoLimiter \notin Buckets /\ NoLimiter \notin Windows
    BY LimitsAssumption
  <1>2. WindowUnit * amount \in Nat
    <2>1. WindowUnit \in Nat
      BY LimitsAssumption
    <2> QED
      BY <2>1, SMT
  <1>3. e \in Nat /\ e <= d
    BY <1>2 DEF Larger
  <1>4. CASE l = NoLimiter
    <2>1. d = 0 /\ Given(chain, l, amount) = l
      BY <1>4 DEF Owes, Given
    <2>2. e = 0
      BY <2>1, <1>3
    <2> QED
      BY <2>1, <2>2, <1>4 DEF Owes
  <1>5. CASE l # NoLimiter /\ IsSolana(chain)
    <2>1. l \in Buckets /\ BucketOwes(l, d)
      BY <1>5 DEF LimitersOf, Owes
    <2>2. Refill(l, amount) \in Buckets /\ BucketOwes(Refill(l, amount), e)
      BY <2>1, BucketRefills
    <2>3. Given(chain, l, amount) = Refill(l, amount)
      BY <1>5 DEF Given
    <2> QED
      BY <2>2, <2>3, <1>1, <1>3, <1>5 DEF LimitersOf, Owes
  <1>6. CASE l # NoLimiter /\ ~ IsSolana(chain)
    <2>1. l \in Windows /\ WindowOwes(l, d)
      BY <1>6 DEF LimitersOf, Owes
    <2>2. ReleaseCapacity(l, amount) \in Windows /\ WindowOwes(ReleaseCapacity(l, amount), e)
      BY <2>1, WindowReleases
    <2>3. Given(chain, l, amount) = ReleaseCapacity(l, amount)
      BY <1>6 DEF Given
    <2> QED
      BY <2>2, <2>3, <1>1, <1>3, <1>6 DEF LimitersOf, Owes
  <1> QED
    BY <1>4, <1>5, <1>6

\* A second lets the limiter forget no more than an exact one.
LEMMA LimiterAges ==
    ASSUME NEW chain, NEW l \in LimitersOf(chain), NEW d \in Nat, Owes(chain, l, d)
    PROVE  LET n == Aged(chain, l)
               e == IF l = NoLimiter THEN 0 ELSE Larger(0, d - Flow(chain, l))
           IN  /\ n \in LimitersOf(chain) /\ e \in Nat /\ e <= d
               /\ Owes(chain, n, e)
  <1>1. NoLimiter \notin Buckets /\ NoLimiter \notin Windows /\ WindowUnit \in Nat
    BY LimitsAssumption
  <1>2. \A flow \in Nat : Larger(0, d - flow) \in Nat /\ Larger(0, d - flow) <= d
    BY DEF Larger
  <1>3. CASE l = NoLimiter
    BY <1>3 DEF Aged, Owes
  <1>4. CASE l # NoLimiter /\ IsSolana(chain)
    <2> DEFINE flow == WindowUnit * l.refillPerSecond
    <2>1. l \in Buckets /\ BucketOwes(l, d)
      BY <1>4 DEF LimitersOf, Owes
    <2>2. AgedBucket(l) \in Buckets /\ BucketOwes(AgedBucket(l), Larger(0, d - flow))
      BY <2>1, BucketAges
    <2>3. l.refillPerSecond \in Nat
      BY <2>1 DEF Buckets
    <2>4. flow \in Nat
      BY <2>3, <1>1, SMT
    <2>5. Aged(chain, l) = AgedBucket(l) /\ Flow(chain, l) = flow
      BY <1>4 DEF Aged, Flow
    <2> HIDE DEF flow
    <2>6. Larger(0, d - flow) \in Nat /\ Larger(0, d - flow) <= d
      BY <2>4, <1>2
    <2> QED
      BY <2>2, <2>5, <2>6, <1>1, <1>4 DEF LimitersOf, Owes
  <1>5. CASE l # NoLimiter /\ ~ IsSolana(chain)
    <2>1. l \in Windows /\ WindowOwes(l, d)
      BY <1>5 DEF LimitersOf, Owes
    <2>2. AgedWindow(l) \in Windows /\ WindowOwes(AgedWindow(l), Larger(0, d - WindowFlow(l)))
      BY <2>1, WindowAges
    <2>3. WindowFlow(l) \in Nat
      BY <2>1, WindowDecays DEF WindowFits
    <2>4. Aged(chain, l) = AgedWindow(l) /\ Flow(chain, l) = WindowFlow(l)
      BY <1>5 DEF Aged, Flow, WindowFlow
    <2>5. Larger(0, d - WindowFlow(l)) \in Nat /\ Larger(0, d - WindowFlow(l)) <= d
      BY <2>3, <1>2
    <2> QED
      BY <2>2, <2>4, <2>5, <1>1, <1>5 DEF LimitersOf, Owes
  <1> QED
    BY <1>3, <1>4, <1>5

----------------------------------------------------------------------------
(* The limiters in every step                                                *)

LimitersFit ==
    /\ DOMAIN limiters = Limiters
    /\ drawn \in [Limiters -> Nat]
    /\ \A k \in Limiters : /\ limiters[k] \in LimitersOf(k[2][1])
                           /\ Owes(k[2][1], limiters[k], drawn[k])

\* The exact limiter of k lets pass what passes.
KeptAt(k) == drawn'[k] > drawn[k] => drawn'[k] <= WindowUnit * LimitOf(k[2][1], limiters'[k])

\* A transfer takes from one limiter and gives to another.
LEMMA TransferKeepsLimits ==
    ASSUME LimitersFit, NEW path \in Pathways,
           NEW taking \in Directions, NEW giving \in Directions, taking # giving,
           NEW amount \in Nat, Limit(path, taking, giving, amount)
    PROVE  LimitersFit' /\ \A k \in Limiters : KeptAt(k)
  <1> DEFINE chain == path[1]
             t == <<taking, path>>
             g == <<giving, path>>
             tl == Taken(chain, limiters[t], amount)
             gl == Given(chain, limiters[g], amount)
             td == IF limiters[t] # NoLimiter THEN drawn[t] + WindowUnit * amount ELSE 0
             gd == Larger(0, drawn[g] - WindowUnit * amount)
  <1>1. /\ t \in Limiters /\ g \in Limiters /\ t # g
        /\ t[2][1] = chain /\ g[2][1] = chain
    BY DEF Limiters
  <1>2. /\ limiters[t] \in LimitersOf(chain) /\ Owes(chain, limiters[t], drawn[t]) /\ drawn[t] \in Nat
        /\ limiters[g] \in LimitersOf(chain) /\ Owes(chain, limiters[g], drawn[g]) /\ drawn[g] \in Nat
    BY <1>1 DEF LimitersFit
  <1>3. limiters[t] # NoLimiter => IF IsSolana(chain) THEN CanConsume(limiters[t], amount)
                                                      ELSE HasCapacity(limiters[t], amount)
    BY <1>1 DEF Limit, Passes, HasLimiter
  <1>4. /\ tl \in LimitersOf(chain) /\ td \in Nat /\ Owes(chain, tl, td)
        /\ limiters[t] # NoLimiter => td <= WindowUnit * LimitOf(chain, tl)
    BY <1>2, <1>3, LimiterTakes
  <1>5. gl \in LimitersOf(chain) /\ gd \in Nat /\ gd <= drawn[g] /\ Owes(chain, gl, gd)
    BY <1>2, LimiterGives
  <1>6. limiters' = [limiters EXCEPT ![t] = tl, ![g] = gl]
    BY <1>1 DEF Limit
  <1>7. drawn' = [drawn EXCEPT ![t] = td, ![g] = gd]
    BY <1>1 DEF Limit, HasLimiter
  <1>8. limiters[t] = NoLimiter => td = 0
    OBVIOUS
  <1> HIDE DEF t, g, tl, gl, td, gd
  <1>9. /\ DOMAIN limiters' = Limiters
        /\ limiters'[t] = tl /\ limiters'[g] = gl
        /\ \A k \in Limiters \ {t, g} : limiters'[k] = limiters[k]
    BY <1>1, <1>6 DEF LimitersFit
  <1>10. /\ drawn' \in [Limiters -> Nat]
         /\ drawn'[t] = td /\ drawn'[g] = gd
         /\ \A k \in Limiters \ {t, g} : drawn'[k] = drawn[k]
    BY <1>1, <1>4, <1>5, <1>7 DEF LimitersFit
  <1>11. ASSUME NEW k \in Limiters
         PROVE  /\ limiters'[k] \in LimitersOf(k[2][1])
                /\ Owes(k[2][1], limiters'[k], drawn'[k])
                /\ KeptAt(k)
    <2>1. CASE k = t
      <3>1. td > drawn[t] => limiters[t] # NoLimiter
        BY <1>2, <1>8
      <3> QED
        BY <2>1, <3>1, <1>1, <1>4, <1>9, <1>10 DEF KeptAt
    <2>2. CASE k = g
      <3>1. ~ (gd > drawn[g])
        BY <1>2, <1>5
      <3> QED
        BY <2>2, <3>1, <1>1, <1>5, <1>9, <1>10 DEF KeptAt
    <2>3. CASE k \notin {t, g}
      <3>1. limiters'[k] = limiters[k] /\ drawn'[k] = drawn[k] /\ drawn[k] \in Nat
        BY <2>3, <1>9, <1>10 DEF LimitersFit
      <3> QED
        BY <3>1 DEF LimitersFit, KeptAt
    <2> QED
      BY <2>1, <2>2, <2>3
  <1>12. LimitersFit' <=> /\ DOMAIN limiters' = Limiters
                          /\ drawn' \in [Limiters -> Nat]
                          /\ \A k \in Limiters : /\ limiters'[k] \in LimitersOf(k[2][1])
                                                 /\ Owes(k[2][1], limiters'[k], drawn'[k])
    BY DEF LimitersFit, LimitersOf, Owes, BucketOwes, WindowOwes, IsSolana, Limiters, Refill, WindowFlow
  <1> QED
    BY <1>9, <1>10, <1>11, <1>12

\* Time passes for all limiters.
LEMMA TickKeepsLimits ==
    ASSUME LimitersFit, Tick
    PROVE  LimitersFit' /\ \A k \in Limiters : KeptAt(k)
  <1> DEFINE n(k) == Aged(k[2][1], limiters[k])
             e(k) == IF limiters[k] = NoLimiter THEN 0
                     ELSE Larger(0, drawn[k] - Flow(k[2][1], limiters[k]))
  <1>1. ASSUME NEW k \in Limiters
        PROVE  /\ n(k) \in LimitersOf(k[2][1]) /\ Owes(k[2][1], n(k), e(k))
               /\ e(k) \in Nat /\ e(k) <= drawn[k] /\ drawn[k] \in Nat
    <2>1. /\ limiters[k] \in LimitersOf(k[2][1])
          /\ Owes(k[2][1], limiters[k], drawn[k]) /\ drawn[k] \in Nat
      BY DEF LimitersFit
    <2> QED
      BY <2>1, LimiterAges
  <1>2. limiters' = [k \in Limiters |-> n(k)] /\ drawn' = [k \in Limiters |-> e(k)]
    BY DEF Tick
  <1> HIDE DEF n, e
  <1>3. DOMAIN limiters' = Limiters /\ drawn' \in [Limiters -> Nat]
    BY <1>1, <1>2
  <1>4. \A k \in Limiters : limiters'[k] = n(k) /\ drawn'[k] = e(k)
    BY <1>2
  <1>5. \A k \in Limiters : KeptAt(k)
    BY <1>1, <1>4 DEF KeptAt
  <1> QED
    BY <1>1, <1>3, <1>4, <1>5 DEF LimitersFit

\* One limiter changes, and an exact one has no more outstanding than before.
LEMMA ChangeKeepsLimits ==
    ASSUME LimitersFit, NEW k \in Limiters, NEW n \in LimitersOf(k[2][1]), NEW e \in Nat,
           Owes(k[2][1], n, e), e <= drawn[k],
           limiters' = [limiters EXCEPT ![k] = n],
           drawn' = [drawn EXCEPT ![k] = e]
    PROVE  LimitersFit' /\ \A j \in Limiters : KeptAt(j)
  <1>1. /\ DOMAIN limiters' = Limiters /\ drawn' \in [Limiters -> Nat]
        /\ limiters'[k] = n /\ drawn'[k] = e
        /\ \A j \in Limiters \ {k} : limiters'[j] = limiters[j] /\ drawn'[j] = drawn[j]
    BY DEF LimitersFit
  <1>2. ASSUME NEW j \in Limiters
        PROVE  /\ limiters'[j] \in LimitersOf(j[2][1])
               /\ Owes(j[2][1], limiters'[j], drawn'[j])
               /\ drawn'[j] <= drawn[j] /\ drawn[j] \in Nat /\ drawn'[j] \in Nat
    BY <1>1 DEF LimitersFit
  <1>3. \A j \in Limiters : KeptAt(j)
    BY <1>2 DEF KeptAt
  <1> QED
    BY <1>1, <1>2, <1>3 DEF LimitersFit

\* The admin of Solana's program sets a capacity, a rate, or both.
LEMMA SetSolanaKeepsLimits ==
    ASSUME LimitersFit, NEW k \in Limiters, SetSolanaRateLimit(k)
    PROVE  LimitersFit' /\ \A j \in Limiters : KeptAt(j)
  <1> DEFINE chain == k[2][1]
             l == limiters[k]
             d == drawn[k]
  <1>1. PICK params \in RateLimits[k] :
            /\ limiters' = [limiters EXCEPT ![k] = UpdatedBucket(@, params)]
            /\ drawn' = [drawn EXCEPT ![k] = IF params.capacity = None THEN @ ELSE 0]
    BY DEF SetSolanaRateLimit
  <1> DEFINE n == UpdatedBucket(l, params)
             e == IF params.capacity = None THEN d ELSE 0
  <1>2. IsSolana(chain)
    BY DEF SetSolanaRateLimit
  <1>3. params \in SolanaParams
    BY <1>2, LimitsAssumption DEF SolanaParams, IsSolana
  <1>4. l \in LimitersOf(chain) /\ Owes(chain, l, d) /\ d \in Nat
    BY DEF LimitersFit
  <1>5. l \in Buckets \cup {NoLimiter} /\ IF l = NoLimiter THEN d = 0 ELSE BucketOwes(l, d)
    BY <1>2, <1>4 DEF LimitersOf, Owes
  <1>6. n \in Buckets /\ BucketOwes(n, e)
    BY <1>3, <1>4, <1>5, BucketUpdates
  <1>7. n # NoLimiter
    BY <1>6, LimitsAssumption
  <1>8. limiters' = [limiters EXCEPT ![k] = n] /\ drawn' = [drawn EXCEPT ![k] = e]
    BY <1>1
  <1>9. e \in Nat /\ e <= d
    BY <1>4
  <1> HIDE DEF n, e
  <1>10. n \in LimitersOf(chain) /\ Owes(chain, n, e)
    BY <1>2, <1>6, <1>7 DEF LimitersOf, Owes
  <1> QED
    BY <1>8, <1>9, <1>10, ChangeKeepsLimits

\* The owner of Sui's OFT sets a limit and its window.
LEMMA SetSuiKeepsLimits ==
    ASSUME LimitersFit, NEW k \in Limiters, SetSuiRateLimit(k)
    PROVE  LimitersFit' /\ \A j \in Limiters : KeptAt(j)
  <1> DEFINE chain == k[2][1]
             l == limiters[k]
             d == drawn[k]
  <1>1. PICK params \in RateLimits[k] : limiters' = [limiters EXCEPT ![k] = UpdatedWindow(@, params)]
    BY DEF SetSuiRateLimit
  <1> DEFINE n == UpdatedWindow(l, params)
             e == d
  <1>2. ~ IsSolana(chain) /\ drawn' = drawn
    BY DEF SetSuiRateLimit
  <1>3. params \in SuiParams
    BY <1>2, LimitsAssumption DEF SuiParams, IsSolana
  <1>4. l \in LimitersOf(chain) /\ Owes(chain, l, d) /\ d \in Nat
    BY DEF LimitersFit
  <1>5. l \in Windows \cup {NoLimiter} /\ IF l = NoLimiter THEN d = 0 ELSE WindowOwes(l, d)
    BY <1>2, <1>4 DEF LimitersOf, Owes
  <1>6. n \in Windows /\ WindowOwes(n, d)
    BY <1>3, <1>4, <1>5, WindowUpdates
  <1>7. n # NoLimiter
    BY <1>6, LimitsAssumption
  <1>8. limiters' = [limiters EXCEPT ![k] = n] /\ drawn' = [drawn EXCEPT ![k] = e]
    BY <1>1, <1>2 DEF LimitersFit
  <1>9. e \in Nat /\ e <= d
    BY <1>4
  <1>10. n \in LimitersOf(chain) /\ Owes(chain, n, e)
    BY <1>2, <1>6, <1>7 DEF LimitersOf, Owes
  <1> HIDE DEF n, e
  <1> QED
    BY <1>8, <1>9, <1>10, ChangeKeepsLimits

\* Without a limiter, nothing is outstanding.
LEMMA UnsetKeepsLimits ==
    ASSUME LimitersFit, NEW k \in Limiters, UnsetRateLimit(k)
    PROVE  LimitersFit' /\ \A j \in Limiters : KeptAt(j)
  <1> DEFINE n == NoLimiter
             e == 0
  <1>1. n \in LimitersOf(k[2][1]) /\ Owes(k[2][1], n, e)
    BY DEF LimitersOf, Owes
  <1>2. e \in Nat /\ e <= drawn[k]
    BY DEF LimitersFit
  <1>3. limiters' = [limiters EXCEPT ![k] = n] /\ drawn' = [drawn EXCEPT ![k] = e]
    BY DEF UnsetRateLimit
  <1> HIDE DEF n, e
  <1> QED
    BY <1>1, <1>2, <1>3, ChangeKeepsLimits

----------------------------------------------------------------------------
(* The balances in every step                                                *)

BalancesFit ==
    /\ users \in [Chains -> Nat]
    /\ escrow \in [Chains -> Nat]
    /\ tvl \in [Chains -> Nat]
    /\ withheld \in [Chains -> Nat]
    /\ EscrowCoversTvl

FeePoints == 0 .. 10000

\* The rest of the state.
RestFits ==
    /\ adapters \subseteq Chains
    /\ tokenFee \in TokenFees
    /\ paused \subseteq Chains
    /\ fee \in [Pathways -> FeePoints]
    /\ inFlight \in [Packets -> Nat]

\* What Solana takes from a sender.
LEMMA SolanaDebitFits ==
    ASSUME TypeOK, BalancesFit, NEW path \in Pathways, NEW asked \in Nat,
           IsSolana(path[1]), SolanaDebit(path[1], AmountsOf(path, asked))
    PROVE  BalancesFit'
  <1> DEFINE chain == path[1]
             a == AmountsOf(path, asked)
             lost == TransferFeeOn(chain, a.sent)
             locks == IF IsAdapter(chain) THEN a.sent - lost ELSE a.fee
             more == IF IsAdapter(chain) THEN a.received ELSE 0
  <1>1. AmountsFit(path, asked) /\ chain \in Chains /\ tokenFee \in AnyTokenFee
    <2>1. AmountsFit(path, asked)
      BY AmountsAreExact
    <2> QED
      BY <2>1, TokenFeeFits DEF Pathways
  <1>2. a.sent \in Nat /\ a.received \in Nat /\ a.fee \in Nat
    BY <1>1 DEF AmountsFit
  <1>3. FeeFits(tokenFee, a.sent) /\ a.sent \in Nat /\ a.received \in Nat /\ a.fee \in Nat
    BY <1>1, <1>2, TransferFeeFits
  <1>4. lost \in Nat /\ lost <= a.sent
    BY <1>3 DEF FeeFits, TransferFeeOn
  <1>5. locks \in Nat /\ more \in Nat /\ more <= locks
    <2>1. CASE IsAdapter(chain)
      <3>1. lost = TransferFee(tokenFee, a.sent) /\ a.received <= a.sent - lost
        BY <2>1, <1>1, <1>3 DEF FeeFits, AmountsFit, TransferFeeOn
      <3> QED
        BY <2>1, <3>1, <1>3, <1>4
    <2>2. CASE ~ IsAdapter(chain)
      BY <2>2, <1>3
    <2> QED
      BY <2>1, <2>2
  <1>6. /\ users[chain] >= a.sent
        /\ users'    = [users EXCEPT ![chain] = @ - a.sent]
        /\ escrow'   = [escrow EXCEPT ![chain] = @ + locks]
        /\ tvl'      = [tvl EXCEPT ![chain] = @ + more]
        /\ withheld' = [withheld EXCEPT ![chain] = @ + lost]
    BY DEF SolanaDebit
  <1> HIDE DEF chain, a, lost, locks, more
  <1>7. /\ users' \in [Chains -> Nat] /\ escrow' \in [Chains -> Nat]
        /\ tvl' \in [Chains -> Nat] /\ withheld' \in [Chains -> Nat]
    BY <1>1, <1>3, <1>4, <1>5, <1>6 DEF BalancesFit
  <1>8. ASSUME NEW c \in SolanaChains
        PROVE  escrow'[c] >= tvl'[c]
    <2>1. escrow[c] >= tvl[c] /\ c \in Chains /\ escrow[c] \in Nat /\ tvl[c] \in Nat
      BY OftAssumption DEF BalancesFit, EscrowCoversTvl
    <2> QED
      BY <2>1, <1>5, <1>6 DEF BalancesFit
  <1> QED
    BY <1>7, <1>8 DEF BalancesFit, EscrowCoversTvl

\* What Solana gives to a receiver.
LEMMA SolanaCreditFits ==
    ASSUME TypeOK, BalancesFit, NEW chain \in Chains, NEW amount \in Nat,
           SolanaCredit(chain, amount)
    PROVE  BalancesFit'
  <1> DEFINE lost == TransferFeeOn(chain, amount)
             unlocks == IF IsAdapter(chain) THEN amount ELSE 0
  <1>1. FeeFits(tokenFee, amount)
    BY TransferFeeFits, TokenFeeFits
  <1>2. lost \in Nat /\ lost <= amount
    BY <1>1 DEF FeeFits, TransferFeeOn
  <1>3. unlocks \in Nat /\ unlocks <= tvl[chain] /\ unlocks <= escrow[chain]
    BY DEF SolanaCredit, BalancesFit
  <1>4. /\ users'    = [users EXCEPT ![chain] = @ + amount - lost]
        /\ escrow'   = [escrow EXCEPT ![chain] = @ - unlocks]
        /\ tvl'      = [tvl EXCEPT ![chain] = @ - unlocks]
        /\ withheld' = [withheld EXCEPT ![chain] = @ + lost]
    BY DEF SolanaCredit
  <1> HIDE DEF lost, unlocks
  <1>5. /\ users' \in [Chains -> Nat] /\ escrow' \in [Chains -> Nat]
        /\ tvl' \in [Chains -> Nat] /\ withheld' \in [Chains -> Nat]
    BY <1>2, <1>3, <1>4 DEF BalancesFit
  <1>6. ASSUME NEW c \in SolanaChains
        PROVE  escrow'[c] >= tvl'[c]
    <2>1. escrow[c] >= tvl[c] /\ c \in Chains /\ escrow[c] \in Nat /\ tvl[c] \in Nat
      BY OftAssumption DEF BalancesFit, EscrowCoversTvl
    <2> QED
      BY <2>1, <1>3, <1>4 DEF BalancesFit
  <1> QED
    BY <1>5, <1>6 DEF BalancesFit, EscrowCoversTvl

\* What Sui takes from a sender.
LEMMA SuiDebitFits ==
    ASSUME TypeOK, BalancesFit, NEW path \in Pathways, NEW asked \in Nat,
           ~ IsSolana(path[1]), SuiDebit(path[1], AmountsOf(path, asked))
    PROVE  BalancesFit'
  <1> DEFINE chain == path[1]
             a == AmountsOf(path, asked)
             locks == IF IsAdapter(chain) THEN a.received ELSE 0
  <1>1. AmountsFit(path, asked)
    BY AmountsAreExact
  <1>2. /\ a.received \in Nat /\ a.sent \in Nat /\ a.received <= a.sent /\ locks \in Nat
        /\ chain \in Chains /\ chain \notin SolanaChains
    BY <1>1 DEF AmountsFit, Pathways, IsSolana
  <1>3. /\ users[chain] >= a.sent
        /\ users'  = [users EXCEPT ![chain] = @ - a.received]
        /\ escrow' = [escrow EXCEPT ![chain] = @ + locks]
        /\ tvl' = tvl /\ withheld' = withheld
    BY DEF SuiDebit
  <1> HIDE DEF chain, a, locks
  <1>4. users' \in [Chains -> Nat] /\ escrow' \in [Chains -> Nat]
    BY <1>2, <1>3 DEF BalancesFit
  <1>5. \A c \in SolanaChains : escrow'[c] = escrow[c] /\ tvl'[c] = tvl[c]
    BY <1>2, <1>3, OftAssumption DEF BalancesFit
  <1> QED
    BY <1>3, <1>4, <1>5 DEF BalancesFit, EscrowCoversTvl

\* What Sui gives to a receiver.
LEMMA SuiCreditFits ==
    ASSUME BalancesFit, NEW chain \in Chains, NEW amount \in Nat,
           ~ IsSolana(chain), SuiCredit(chain, amount)
    PROVE  BalancesFit'
  <1> DEFINE unlocks == IF IsAdapter(chain) THEN amount ELSE 0
  <1>1. unlocks \in Nat /\ unlocks <= escrow[chain] /\ chain \notin SolanaChains
    BY DEF SuiCredit, BalancesFit, IsSolana
  <1>2. /\ users'  = [users EXCEPT ![chain] = @ + amount]
        /\ escrow' = [escrow EXCEPT ![chain] = @ - unlocks]
        /\ tvl' = tvl /\ withheld' = withheld
    BY DEF SuiCredit
  <1> HIDE DEF unlocks
  <1>3. users' \in [Chains -> Nat] /\ escrow' \in [Chains -> Nat]
    BY <1>1, <1>2 DEF BalancesFit
  <1>4. \A c \in SolanaChains : escrow'[c] = escrow[c] /\ tvl'[c] = tvl[c]
    BY <1>1, <1>2, OftAssumption DEF BalancesFit
  <1> QED
    BY <1>2, <1>3, <1>4 DEF BalancesFit, EscrowCoversTvl

\* The admin withdraws what the escrow holds beside the locked amount.
LEMMA WithdrawFits ==
    ASSUME TypeOK, BalancesFit, NEW chain \in Chains, NEW amount \in Nat,
           WithdrawFee(chain, amount)
    PROVE  BalancesFit'
  <1> DEFINE lost == TransferFeeOn(chain, amount)
  <1>1. escrow[chain] \in Nat /\ tvl[chain] \in Nat
    BY DEF BalancesFit
  <1>2. /\ users' = [users EXCEPT ![chain] = @ + amount - lost]
        /\ escrow' = [escrow EXCEPT ![chain] = @ - amount]
        /\ withheld' = [withheld EXCEPT ![chain] = @ + lost]
    BY DEF WithdrawFee
  <1>3. amount <= escrow[chain] - tvl[chain] /\ tvl' = tvl
    BY DEF WithdrawFee
  <1>4. FeeFits(tokenFee, amount)
    BY <1>1, <1>3, TransferFeeFits, TokenFeeFits
  <1>5. lost \in Nat /\ lost <= amount
    BY <1>3, <1>4 DEF FeeFits, TransferFeeOn
  <1> HIDE DEF lost
  <1>6. users' \in [Chains -> Nat] /\ escrow' \in [Chains -> Nat] /\ withheld' \in [Chains -> Nat]
    BY <1>1, <1>2, <1>3, <1>5 DEF BalancesFit
  <1>7. ASSUME NEW c \in SolanaChains
        PROVE  escrow'[c] >= tvl'[c]
    <2>1. escrow[c] >= tvl[c] /\ c \in Chains /\ escrow[c] \in Nat /\ tvl[c] \in Nat
      BY OftAssumption DEF BalancesFit, EscrowCoversTvl
    <2> QED
      BY <2>1, <1>2, <1>3 DEF BalancesFit
  <1> QED
    BY <1>3, <1>6, <1>7 DEF BalancesFit, EscrowCoversTvl

----------------------------------------------------------------------------
(* The inductive invariant                                                   *)

\* The limiters join it because what a limiter lets pass depends on what it
\* has recorded of all that passed before.
IInv == BalancesFit /\ RestFits /\ LimitersFit

\* The invariant has the types, and the escrow covers what is locked.
LEMMA InvariantFits == IInv => TypeOK /\ EscrowCoversTvl
  <1> SUFFICES ASSUME IInv PROVE TypeOK /\ EscrowCoversTvl
    OBVIOUS
  <1>1. BalancesFit /\ RestFits /\ LimitersFit
    BY DEF IInv
  <1>2. \A k \in Limiters :
            limiters[k] \in (IF IsSolana(k[2][1]) THEN Buckets ELSE Windows) \cup {NoLimiter}
    BY <1>1 DEF LimitersFit, LimitersOf
  <1> QED
    BY <1>1, <1>2 DEF BalancesFit, RestFits, LimitersFit, TypeOK, FeePoints

\* At first nothing is locked, travels or is limited.
LEMMA InitFits ==
    ASSUME Init
    PROVE  IInv
  <1>1. PICK home \in Chains :
            /\ adapters \in {{}, {home}}
            /\ users = [chain \in Chains |-> IF chain = home THEN ToLD(chain, Supply) ELSE 0]
    BY DEF Init
  <1>2. ToLD(home, Supply) \in Nat
    <2>1. Supply \in Nat /\ Rates[home] \in Nat
      BY OftAssumption
    <2> QED
      BY <2>1, SMT DEF ToLD
  <1>3. BalancesFit
    <2>1. users \in [Chains -> Nat]
      BY <1>1, <1>2
    <2>2. escrow = [chain \in Chains |-> 0] /\ tvl = [chain \in Chains |-> 0]
          /\ withheld = [chain \in Chains |-> 0]
      BY DEF Init
    <2> QED
      BY <2>1, <2>2, OftAssumption DEF BalancesFit, EscrowCoversTvl
  <1>4. RestFits
    BY <1>1, OftAssumption DEF Init, RestFits, FeePoints
  <1>5. LimitersFit
    BY DEF Init, LimitersFit, LimitersOf, Owes
  <1> QED
    BY <1>3, <1>4, <1>5 DEF IInv

\* What is sent leaves a sender and passes the limiter of its path.
LEMMA SendFits ==
    ASSUME IInv,
           NEW path \in Pathways, NEW asked \in Amounts, Send(path, asked)
    PROVE  IInv' /\ \A k \in Limiters : KeptAt(k)
  <1> DEFINE chain == path[1]
             a == AmountsOf(path, asked)
             packet == [path |-> path, amountSD |-> ToSD(chain, a.received)]
  <1>1. TypeOK /\ BalancesFit /\ RestFits /\ LimitersFit
    BY InvariantFits DEF IInv
  <1>2. asked \in Nat /\ AmountsFit(path, asked)
    <2>1. Amounts \subseteq Nat
      BY OftAssumption
    <2>2. asked \in Nat
      BY <2>1
    <2> QED
      BY <2>2, <1>1, AmountsAreExact
  <1>3. a.received \in Nat
    BY <1>2 DEF AmountsFit
  <1>4. /\ IF IsSolana(chain) THEN SolanaDebit(chain, a) ELSE SuiDebit(chain, a)
        /\ Limit(path, "outbound", "inbound", a.received)
        /\ packet \in Packets
        /\ inFlight' = [inFlight EXCEPT ![packet] = @ + 1]
        /\ UNCHANGED config
    BY DEF Send
  <1> HIDE DEF packet
  <1>5. BalancesFit'
    BY <1>1, <1>2, <1>4, SolanaDebitFits, SuiDebitFits
  <1>6. RestFits'
    BY <1>1, <1>4 DEF RestFits, config
  <1>7. "outbound" \in Directions /\ "inbound" \in Directions /\ "outbound" # "inbound"
    BY DEF Directions
  <1> HIDE DEF a
  <1>8. LimitersFit' /\ \A k \in Limiters : KeptAt(k)
    BY <1>1, <1>3, <1>4, <1>7, TransferKeepsLimits
  <1> QED
    BY <1>5, <1>6, <1>8 DEF IInv

\* What is received passes the limiter of its path and reaches a receiver.
LEMMA LzReceiveFits ==
    ASSUME IInv, NEW packet \in Packets, LzReceive(packet)
    PROVE  IInv' /\ \A k \in Limiters : KeptAt(k)
  <1> DEFINE chain == packet.path[2]
             path == <<chain, packet.path[1]>>
             amount == ToLD(chain, packet.amountSD)
  <1>1. TypeOK /\ BalancesFit /\ RestFits /\ LimitersFit
    BY InvariantFits DEF IInv
  <1>2. chain \in Chains /\ path \in Pathways
    BY DEF Packets, Pathways
  <1>3. amount \in Nat
    <2>1. packet.amountSD \in Nat /\ Rates[chain] \in Nat
      BY <1>2, OftAssumption DEF Packets
    <2> DEFINE x == packet.amountSD
               r == Rates[chain]
    <2> HIDE DEF x, r
    <2>2. x \in Nat /\ r \in Nat => x * r \in Nat
      BY SMT
    <2> QED
      BY <2>1, <2>2 DEF ToLD, x, r
  <1>4. /\ inFlight[packet] > 0
        /\ Limit(path, "inbound", "outbound", amount)
        /\ IF IsSolana(chain) THEN SolanaCredit(chain, amount) ELSE SuiCredit(chain, amount)
        /\ inFlight' = [inFlight EXCEPT ![packet] = @ - 1]
        /\ UNCHANGED config
    BY DEF LzReceive
  <1> HIDE DEF path, amount, chain
  <1>5. BalancesFit'
    BY <1>1, <1>2, <1>3, <1>4, SolanaCreditFits, SuiCreditFits
  <1>6. RestFits'
    BY <1>1, <1>4 DEF RestFits, config
  <1>7. "outbound" \in Directions /\ "inbound" \in Directions /\ "outbound" # "inbound"
    BY DEF Directions
  <1>8. LimitersFit' /\ \A k \in Limiters : KeptAt(k)
    BY <1>1, <1>2, <1>3, <1>4, <1>7, TransferKeepsLimits
  <1> QED
    BY <1>5, <1>6, <1>8 DEF IInv

\* Where limiters do not change, there is nothing to keep.
LEMMA SameLimits ==
    ASSUME LimitersFit, UNCHANGED <<limiters, drawn>>
    PROVE  LimitersFit' /\ \A k \in Limiters : KeptAt(k)
  BY DEF LimitersFit, KeptAt

\* Which fees are set.
LEMMA FeesFit ==
    \A path \in Pathways : Fees[path] \subseteq FeePoints
  BY OftAssumption DEF FeePoints

\* Every step keeps the invariant and the limits.
LEMMA StepFits ==
    ASSUME IInv, [Next]_vars
    PROVE  IInv' /\ \A k \in Limiters : KeptAt(k)
  <1>1. TypeOK /\ BalancesFit /\ RestFits /\ LimitersFit
    BY InvariantFits DEF IInv
  <1>2. UNCHANGED balances => BalancesFit'
    BY <1>1 DEF BalancesFit, EscrowCoversTvl, balances
  <1>3. UNCHANGED <<config, inFlight>> => RestFits'
    BY <1>1 DEF RestFits, config
  <1>4. ASSUME NEW path \in Pathways, NEW asked \in Amounts, Send(path, asked)
        PROVE  IInv' /\ \A k \in Limiters : KeptAt(k)
    BY ONLY <1>4, SendFits, IInv, SMTT(30)
  <1>5. ASSUME NEW packet \in Packets, LzReceive(packet)
        PROVE  IInv' /\ \A k \in Limiters : KeptAt(k)
    BY <1>5, LzReceiveFits
  <1>6. ASSUME NEW chain \in Chains, NEW amount \in 1 .. ToLD(chain, Supply), WithdrawFee(chain, amount)
        PROVE  IInv' /\ \A k \in Limiters : KeptAt(k)
    <2>1. amount \in Nat
      OBVIOUS
    <2>2. BalancesFit'
      BY <2>1, <1>1, <1>6, WithdrawFits
    <2>3. UNCHANGED <<config, inFlight>> /\ UNCHANGED <<limiters, drawn>>
      BY <1>6 DEF WithdrawFee
    <2> QED
      BY <2>2, <2>3, <1>1, <1>3, SameLimits DEF IInv
  <1>7. ASSUME NEW chain \in Chains, Pause(chain) \/ Unpause(chain)
        PROVE  IInv' /\ \A k \in Limiters : KeptAt(k)
    <2>1. UNCHANGED balances /\ UNCHANGED <<limiters, drawn>> /\ RestFits'
      BY <1>1, <1>7 DEF Pause, Unpause, RestFits
    <2> QED
      BY <2>1, <1>1, <1>2, SameLimits DEF IInv
  <1>8. ASSUME NEW path \in Pathways, NEW bps \in Fees[path], SetFee(path, bps)
        PROVE  IInv' /\ \A k \in Limiters : KeptAt(k)
    <2>1. bps \in FeePoints
      BY FeesFit
    <2>2. RestFits'
      BY <2>1, <1>1, <1>8 DEF SetFee, RestFits
    <2>3. UNCHANGED balances /\ UNCHANGED <<limiters, drawn>>
      BY <1>8 DEF SetFee
    <2> QED
      BY <2>2, <2>3, <1>1, <1>2, SameLimits DEF IInv
  <1>9. ASSUME NEW k \in Limiters, SetSolanaRateLimit(k) \/ SetSuiRateLimit(k) \/ UnsetRateLimit(k)
        PROVE  IInv' /\ \A j \in Limiters : KeptAt(j)
    <2>1. UNCHANGED balances /\ UNCHANGED <<config, inFlight>>
      BY <1>9 DEF SetSolanaRateLimit, SetSuiRateLimit, UnsetRateLimit
    <2>2. LimitersFit' /\ \A j \in Limiters : KeptAt(j)
      BY <1>1, <1>9, SetSolanaKeepsLimits, SetSuiKeepsLimits, UnsetKeepsLimits
    <2> QED
      BY <2>1, <2>2, <1>2, <1>3 DEF IInv
  <1>10. CASE Tick
    <2>1. UNCHANGED balances /\ UNCHANGED <<config, inFlight>>
      BY <1>10 DEF Tick
    <2> QED
      BY <2>1, <1>1, <1>2, <1>3, <1>10, TickKeepsLimits DEF IInv
  <1>11. CASE EpochBegins
    <2>1. UNCHANGED balances /\ UNCHANGED <<limiters, drawn>> /\ RestFits'
      BY <1>1, <1>11 DEF EpochBegins, RestFits
    <2> QED
      BY <2>1, <1>1, <1>2, SameLimits DEF IInv
  <1>12. CASE UNCHANGED vars
    <2>1. UNCHANGED balances /\ UNCHANGED <<config, inFlight>> /\ UNCHANGED <<limiters, drawn>>
      BY <1>12 DEF vars
    <2> QED
      BY <2>1, <1>1, <1>2, <1>3, SameLimits DEF IInv
  <1> QED
    BY <1>4, <1>5, <1>6, <1>7, <1>8, <1>9, <1>10, <1>11, <1>12 DEF Next, Transfers, Administration

----------------------------------------------------------------------------
(* Nothing is created or lost                                                *)

Weight(chain) == Unit \div Rates[chain]

\* A local unit weighs as much on every chain as its part of a shared one.
LEMMA WeightIsExact ==
    ASSUME NEW chain \in Chains
    PROVE  /\ Rates[chain] \in Nat \ {0} /\ Weight(chain) \in Nat
           /\ Rates[chain] * Weight(chain) = Unit
  <1> DEFINE r == Rates[chain]
             w == Unit \div r
  <1>1. r \in Nat \ {0} /\ Unit \in Nat /\ Unit % r = 0
    BY OftAssumption, UnitAssumption
  <1> HIDE DEF r
  <1>2. w \in Nat /\ Unit = r * w + (Unit % r)
    BY <1>1, SMT
  <1> HIDE DEF w
  <1>3. r * w = Unit
    BY <1>1, <1>2, SMT
  <1> QED
    BY <1>1, <1>2, <1>3 DEF Weight, r, w

LEMMA ValueOfShared ==
    ASSUME NEW chain \in Chains, NEW amountSD \in Nat
    PROVE  ToLD(chain, amountSD) \in Nat /\ ToLD(chain, amountSD) * Weight(chain) = Unit * amountSD
  <1> DEFINE r == Rates[chain]
             w == Weight(chain)
  <1>1. r \in Nat /\ w \in Nat /\ r * w = Unit
    BY WeightIsExact
  <1> HIDE DEF r, w
  <1>2. (amountSD * r) * w = amountSD * (r * w) /\ amountSD * r \in Nat
    BY <1>1, SMT
  <1>3. amountSD * (r * w) = Unit * amountSD
    BY <1>1, SMT
  <1> QED
    BY <1>2, <1>3 DEF ToLD, r, w

\* Multiples of the rate have no dust.
LEMMA MultipleIsExact ==
    ASSUME NEW r \in Nat \ {0}, NEW k \in Nat
    PROVE  k * r \in Nat /\ (k * r) \div r = k
  <1> DEFINE q == (k * r) \div r
  <1>1. k * r \in Nat
    BY SMT
  <1>2. q \in Nat /\ r * q <= k * r /\ k * r < r * q + r
    BY <1>1, Division
  <1> HIDE DEF q
  <1>3. CASE q < k
    <2>1. r * (q + 1) <= r * k
      BY <1>2, <1>3, Monotonic
    <2>2. r * (q + 1) = r * q + r /\ r * k = k * r
      BY <1>2, SMT
    <2> QED
      BY <1>1, <1>2, <2>1, <2>2, SMT
  <1>4. CASE q > k
    <2>1. r * (k + 1) <= r * q
      BY <1>2, <1>4, Monotonic
    <2>2. r * (k + 1) = k * r + r
      BY <1>2, SMT
    <2> QED
      BY <1>1, <1>2, <2>1, <2>2, SMT
  <1> QED
    BY <1>1, <1>2, <1>3, <1>4 DEF q

LEMMA WithoutDust ==
    ASSUME NEW chain \in Chains, NEW amount \in Nat
    PROVE  \E k \in Nat : RemoveDust(chain, amount) = k * Rates[chain]
  <1> DEFINE r == Rates[chain]
             k == amount \div r
  <1>1. r \in Nat \ {0}
    BY OftAssumption
  <1> HIDE DEF r
  <1>2. k \in Nat /\ amount = r * k + (amount % r)
    BY <1>1, SMT
  <1> HIDE DEF k
  <1>3. amount - (amount % r) = k * r
    BY <1>1, <1>2, SMT
  <1> QED
    BY <1>2, <1>3 DEF RemoveDust, r

\* What the receiver gets is a number of shared units.
LEMMA ReceivedIsShared ==
    ASSUME TypeOK, NEW path \in Pathways, NEW asked \in Nat
    PROVE  LET received == AmountsOf(path, asked).received
           IN  /\ ToSD(path[1], received) \in Nat
               /\ ToLD(path[1], ToSD(path[1], received)) = received
  <1> DEFINE chain == path[1]
             r == Rates[chain]
             received == AmountsOf(path, asked).received
  <1>1. chain \in Chains /\ fee[path] \in 0 .. 10000 /\ tokenFee \in AnyTokenFee
    <2>1. chain \in Chains
      BY DEF Pathways
    <2>2. fee[path] \in 0 .. 10000
      BY DEF TypeOK
    <2>3. tokenFee \in AnyTokenFee
      BY TokenFeeFits
    <2> QED
      BY <2>1, <2>2, <2>3
  <1>2. r \in Nat \ {0}
    BY <1>1, RatesFit
  <1>3. AmountsFit(path, asked)
    BY AmountsAreExact
  <1>4. received \in Nat
    BY <1>3 DEF AmountsFit
  <1>5. \E k \in Nat : received = k * r
    <2>1. CASE IsSolana(chain)
      <3> DEFINE arrives == IF IsAdapter(chain) THEN RemoveDust(chain, PostFee(tokenFee, asked))
                                                ELSE RemoveDust(chain, asked)
                 cut     == RemoveDust(chain, OftFee(path, arrives))
      <3>1. received = arrives - cut
        BY <2>1 DEF AmountsOf, SolanaAmounts
      <3>2. PostFee(tokenFee, asked) \in Nat
        BY <1>1, TransferFeeFits DEF FeeFits
      <3>3. arrives \in Nat /\ \E k \in Nat : arrives = k * r
        <4>1. \E x \in Nat : arrives = RemoveDust(chain, x)
          BY <3>2
        <4> HIDE DEF arrives
        <4>2. PICK x \in Nat : arrives = RemoveDust(chain, x)
          BY <4>1
        <4>3. RemoveDust(chain, x) \in Nat
          BY <1>1, DustIsPart
        <4> QED
          BY <1>1, <4>2, <4>3, WithoutDust
      <3>4. OftFee(path, arrives) \in Nat
        <4> HIDE DEF arrives
        <4>1. arrives \in Nat
          BY <3>3
        <4>2. fee[path] \in 0 .. 10000
          BY <1>1
        <4> QED
          BY ONLY <4>1, <4>2, path \in Pathways, OftFeeIsPart
      <3>5. \E k \in Nat : cut = k * r
        <4> HIDE DEF arrives
        <4> QED
          BY <1>1, <3>4, WithoutDust
      <3> HIDE DEF arrives, cut, r, received
      <3>6. PICK m \in Nat : arrives = m * r
        BY <3>3
      <3>7. PICK n \in Nat : cut = n * r
        BY <3>5
      <3>8. received = (m - n) * r
        BY <1>2, <3>1, <3>6, <3>7, SMT
      <3>9. m - n \in Nat
        <4> SUFFICES ASSUME m < n PROVE FALSE
          OBVIOUS
        <4>1. r * (m + 1) <= r * n
          BY <1>2, Monotonic
        <4>2. r * (m + 1) = m * r + r /\ r * n = n * r
          BY <1>2, SMT
        <4>3. m * r \in Nat /\ n * r \in Nat
          BY <1>2, SMT
        <4> QED
          BY <1>2, <1>4, <3>1, <3>6, <3>7, <4>1, <4>2, <4>3
      <3> QED
        BY <3>8, <3>9
    <2>2. CASE ~ IsSolana(chain)
      <3>1. received = RemoveDust(chain, asked - OftFee(path, asked))
        BY <2>2 DEF AmountsOf, SuiAmounts
      <3>2. asked - OftFee(path, asked) \in Nat
        <4>1. OftFee(path, asked) \in 0 .. asked
          BY ONLY <1>1, path \in Pathways, asked \in Nat, OftFeeIsPart
        <4> QED
          BY <4>1, SMT
      <3> QED
        BY <1>1, <3>1, <3>2, WithoutDust
    <2> QED
      BY <2>1, <2>2
  <1> HIDE DEF received, r
  <1>6. PICK k \in Nat : received = k * r
    BY <1>5
  <1>7. received \div r = k
    BY <1>2, <1>6, MultipleIsExact
  <1>8. ToSD(chain, received) = k
    BY <1>7 DEF ToSD, r
  <1> QED
    BY <1>6, <1>8 DEF ToLD, r, received

LEMMA PacketsAreFinite ==
    IsFiniteSet(Packets)
  <1> DEFINE P == Pathways \X (0 .. Supply)
             f == [x \in P |-> [path |-> x[1], amountSD |-> x[2]]]
  <1>1. IsFiniteSet(Chains \X Chains)
    <2>1. IsFiniteSet(Chains)
      BY UnitAssumption
    <2> QED
      BY <2>1, FS_Product, Zenon
  <1>2. IsFiniteSet(Pathways)
    <2>1. Pathways \in SUBSET (Chains \X Chains)
      BY DEF Pathways
    <2> QED
      BY <1>1, <2>1, FS_Subset
  <1>3. IsFiniteSet(0 .. Supply)
    <2>1. 0 \in Int /\ Supply \in Int
      BY OftAssumption
    <2> QED
      BY <2>1, FS_Interval
  <1>4. IsFiniteSet(P)
    BY <1>2, <1>3, FS_Product, Zenon
  <1>5. f \in [P -> Packets]
    BY DEF Packets
  <1>6. ASSUME NEW packet \in Packets
        PROVE  \E x \in P : f[x] = packet
    <2>1. <<packet.path, packet.amountSD>> \in P
      BY DEF Packets
    <2>2. f[<<packet.path, packet.amountSD>>] = packet
      BY <2>1 DEF Packets
    <2> QED
      BY <2>1, <2>2
  <1> HIDE DEF P, f
  <1>7. f \in Surjection(P, Packets)
    BY <1>5, <1>6 DEF Surjection
  <1> QED
    BY <1>4, <1>7, FS_Surjection

HeldType == \A chain \in Chains : Held(chain) \in Int

LEMMA HeldIsInteger ==
    ASSUME BalancesFit
    PROVE  HeldType
  BY DEF BalancesFit, HeldType, Held, Locked

\* What circulates changes by what one chain gains or loses.
LEMMA CirculatingChanges ==
    ASSUME HeldType, HeldType', NEW chain \in Chains,
           \A other \in Chains \ {chain} : Held(other)' = Held(other)
    PROVE  /\ Circulating \in Int
           /\ Circulating' = Circulating + (Held(chain)' * Weight(chain) - Held(chain) * Weight(chain))
  <1> DEFINE f == [c \in Chains |-> Held(c) * Weight(c)]
             e == [c \in Chains |-> Held(c)' * Weight(c)]
  <1>1. \A n \in Int, w \in Nat : n * w \in Int
    BY SMT
  <1>2. \A c \in Chains : Weight(c) \in Nat
    BY WeightIsExact
  <1>3. f \in [Chains -> Int] /\ e \in [Chains -> Int]
    <2>1. ASSUME NEW c \in Chains
          PROVE  Held(c) * Weight(c) \in Int /\ Held(c)' * Weight(c) \in Int
      <3> DEFINE old == Held(c)
                 new == Held(c)'
                 w   == Weight(c)
      <3>1. old \in Int /\ new \in Int /\ w \in Nat
        BY <1>2 DEF HeldType
      <3> HIDE DEF old, new, w
      <3>2. old * w \in Int /\ new * w \in Int
        BY <1>1, <3>1
      <3> QED
        BY <3>2 DEF old, new, w
    <2> QED
      BY <2>1
  <1>4. \A c \in Chains \ {chain} : e[c] = f[c]
    OBVIOUS
  <1>5. Circulating = SumFunction(f) /\ Circulating' = SumFunction(e)
    BY DEF Circulating, Value, Weight
  <1>6. IsFiniteSet(Chains)
    BY UnitAssumption
  <1>7. SumFollows(f, e, chain)
    <2> HIDE DEF f, e
    <2> QED
      BY <1>3, <1>4, <1>6, SumChanges
  <1>8. SumFunction(f) \in Int /\ SumFunction(e) = SumFunction(f) + (e[chain] - f[chain])
    BY <1>7 DEF SumFollows
  <1>9. f[chain] = Held(chain) * Weight(chain) /\ e[chain] = Held(chain)' * Weight(chain)
    OBVIOUS
  <1> HIDE DEF f, e
  <1>10. Circulating \in Int /\ Circulating' = Circulating + (e[chain] - f[chain])
    BY <1>5, <1>8, Zenon
  <1> QED
    BY <1>9, <1>10, Zenon

\* What one chain gains or loses of the shared units is what circulates more or less.
LEMMA SharedUnitsMove ==
    ASSUME HeldType, HeldType', NEW chain \in Chains,
           \A other \in Chains \ {chain} : Held(other)' = Held(other),
           NEW amountSD \in Nat, NEW sign \in {-1, 1},
           Held(chain)' = Held(chain) + sign * ToLD(chain, amountSD)
    PROVE  /\ Circulating \in Int
           /\ Circulating' = Circulating + sign * (Unit * amountSD)
  <1> DEFINE w == Weight(chain)
             h == Held(chain)
             a == ToLD(chain, amountSD)
             s == Unit * amountSD
  <1>1. w \in Nat /\ h \in Int /\ a \in Nat /\ a * w = s
    BY WeightIsExact, ValueOfShared DEF HeldType
  <1>2. Circulating \in Int /\ Circulating' = Circulating + (Held(chain)' * w - h * w)
    BY CirculatingChanges, Zenon
  <1>0. Held(chain)' = h + sign * a
    OBVIOUS
  <1> HIDE DEF w, h, a, s
  <1>3. (h + sign * a) * w = h * w + sign * (a * w) /\ h * w \in Int /\ a * w \in Int
    BY <1>1, SMT
  <1>4. (h + sign * a) * w - h * w = sign * (a * w)
    BY <1>3
  <1>5. (h + sign * a) * w - h * w = sign * s
    BY <1>1, <1>4
  <1>6. Circulating' = Circulating + sign * s
    BY ONLY <1>0, <1>2, <1>5, Zenon
  <1> QED
    BY <1>2, <1>6, Zenon DEF s

\* One packet more or less on its way.
LEMMA TravellingChanges ==
    ASSUME inFlight \in [Packets -> Nat], NEW packet \in Packets,
           NEW sign \in {-1, 1}, inFlight[packet] + sign \in Nat,
           inFlight' = [inFlight EXCEPT ![packet] = @ + sign]
    PROVE  /\ Travelling \in Int
           /\ Travelling' = Travelling + sign * (Unit * packet.amountSD)
  <1> DEFINE f == [p \in Packets |-> p.amountSD * inFlight[p]]
             e == [p \in Packets |-> p.amountSD * inFlight'[p]]
             a == packet.amountSD
             n == inFlight[packet]
  <1>1. \A p \in Packets : p.amountSD \in Nat
    BY OftAssumption DEF Packets
  <1>2. \A m, k \in Nat : m * k \in Int
    BY SMT
  <1>3. inFlight' \in [Packets -> Nat]
    OBVIOUS
  <1>4. f \in [Packets -> Int] /\ e \in [Packets -> Int]
    BY <1>1, <1>2, <1>3
  <1>5. \A p \in Packets \ {packet} : e[p] = f[p]
    OBVIOUS
  <1>6. f[packet] = a * n /\ e[packet] = a * (n + sign) /\ a \in Nat /\ n \in Nat
    BY <1>1
  <1>7. Travelling = Unit * SumFunction(f) /\ Travelling' = Unit * SumFunction(e)
    BY DEF Travelling
  <1> HIDE DEF f, e, a, n
  <1>8. SumFunction(f) \in Int /\ SumFunction(e) = SumFunction(f) + (e[packet] - f[packet])
    <2>1. SumFollows(f, e, packet)
      BY <1>4, <1>5, PacketsAreFinite, SumChanges
    <2> QED
      BY <2>1 DEF SumFollows
  <1>9. a * (n + sign) = a * n + sign * a /\ a * n \in Nat
    BY <1>6, SMT
  <1>10. SumFunction(e) = SumFunction(f) + sign * a
    BY <1>6, <1>8, <1>9
  <1> DEFINE t == SumFunction(f)
  <1>11. t \in Int /\ Unit \in Nat
    BY <1>8, UnitAssumption
  <1> HIDE DEF t
  <1>12. Unit * (t + sign * a) = Unit * t + sign * (Unit * a) /\ Unit * t \in Int
    BY <1>6, <1>11, SMT
  <1> QED
    BY <1>7, <1>10, <1>12 DEF t, a

\* What a chain holds is shared units, in or out.
Gains(chain, amount) ==
    /\ Held(chain)' = Held(chain) + amount
    /\ \A other \in Chains \ {chain} : Held(other)' = Held(other)

\* The balances of one chain in a step that changes those of no other.
OnlyOn(chain) ==
    \A other \in Chains \ {chain} :
        /\ users'[other] = users[other] /\ escrow'[other] = escrow[other]
        /\ tvl'[other] = tvl[other] /\ withheld'[other] = withheld[other]

LEMMA OthersHold ==
    ASSUME NEW chain \in Chains, OnlyOn(chain), adapters' = adapters
    PROVE  \A other \in Chains \ {chain} : Held(other)' = Held(other)
  BY DEF OnlyOn, Held, Locked, IsAdapter, IsSolana

LEMMA SolanaDebitTakes ==
    ASSUME TypeOK, BalancesFit, NEW path \in Pathways, NEW asked \in Nat,
           IsSolana(path[1]), SolanaDebit(path[1], AmountsOf(path, asked)), adapters' = adapters
    PROVE  Gains(path[1], - AmountsOf(path, asked).received)
  <1> DEFINE chain == path[1]
             a == AmountsOf(path, asked)
             lost == TransferFeeOn(chain, a.sent)
             locks == IF IsAdapter(chain) THEN a.sent - lost ELSE a.fee
             more == IF IsAdapter(chain) THEN a.received ELSE 0
  <1>1. AmountsFit(path, asked) /\ chain \in Chains
    <2>1. AmountsFit(path, asked)
      BY AmountsAreExact
    <2>2. chain \in Chains
      BY DEF Pathways
    <2> QED
      BY <2>1, <2>2
  <1>2. tokenFee \in AnyTokenFee
    BY TokenFeeFits
  <1>3. /\ a.sent \in Nat /\ a.received \in Nat /\ a.fee \in Nat
        /\ ~ IsAdapter(chain) => a.sent = a.received + a.fee
    BY <1>1 DEF AmountsFit
  <1>4. lost \in Nat /\ (~ IsAdapter(chain) => lost = 0)
    BY <1>2, <1>3, TransferFeeFits DEF FeeFits, TransferFeeOn
  <1>5. /\ users'    = [users EXCEPT ![chain] = @ - a.sent]
        /\ escrow'   = [escrow EXCEPT ![chain] = @ + locks]
        /\ tvl'      = [tvl EXCEPT ![chain] = @ + more]
        /\ withheld' = [withheld EXCEPT ![chain] = @ + lost]
    BY DEF SolanaDebit
  <1>6. - a.sent + locks + lost - more = - a.received
    BY <1>3, <1>4
  <1>7. locks \in Int /\ more \in Int
    BY <1>3, <1>4
  <1>8. IsSolana(chain)
    OBVIOUS
  <1> HIDE DEF chain, a, lost, locks, more
  <1>9. /\ users'[chain] = users[chain] - a.sent /\ escrow'[chain] = escrow[chain] + locks
        /\ tvl'[chain] = tvl[chain] + more /\ withheld'[chain] = withheld[chain] + lost
        /\ users[chain] \in Nat /\ escrow[chain] \in Nat
        /\ tvl[chain] \in Nat /\ withheld[chain] \in Nat
    BY <1>1, <1>5 DEF BalancesFit
  <1>10. OnlyOn(chain)
    BY <1>1, <1>5 DEF BalancesFit, OnlyOn
  <1>11. /\ Held(chain) = users[chain] + escrow[chain] + withheld[chain] - tvl[chain]
         /\ Held(chain)' = users'[chain] + escrow'[chain] + withheld'[chain] - tvl'[chain]
    BY <1>8 DEF Held, Locked, IsSolana
  <1>12. Held(chain)' = Held(chain) + (- a.received)
    BY <1>3, <1>4, <1>6, <1>7, <1>9, <1>11
  <1> QED
    BY <1>1, <1>10, <1>12, OthersHold DEF Gains, chain, a

LEMMA SuiDebitTakes ==
    ASSUME TypeOK, BalancesFit, NEW path \in Pathways, NEW asked \in Nat,
           ~ IsSolana(path[1]), SuiDebit(path[1], AmountsOf(path, asked)), adapters' = adapters
    PROVE  Gains(path[1], - AmountsOf(path, asked).received)
  <1> DEFINE chain == path[1]
             a == AmountsOf(path, asked)
             locks == IF IsAdapter(chain) THEN a.received ELSE 0
  <1>1. AmountsFit(path, asked) /\ chain \in Chains
    <2>1. AmountsFit(path, asked)
      BY AmountsAreExact
    <2>2. chain \in Chains
      BY DEF Pathways
    <2> QED
      BY <2>1, <2>2
  <1>2. a.received \in Nat /\ locks \in Nat
    BY <1>1 DEF AmountsFit
  <1>3. /\ users'  = [users EXCEPT ![chain] = @ - a.received]
        /\ escrow' = [escrow EXCEPT ![chain] = @ + locks]
        /\ tvl' = tvl /\ withheld' = withheld
    BY DEF SuiDebit
  <1>4. (IsAdapter(chain) => locks = a.received) /\ (~ IsAdapter(chain) => locks = 0)
    OBVIOUS
  <1>5. ~ IsSolana(chain)
    OBVIOUS
  <1> HIDE DEF chain, a, locks
  <1>6. /\ users'[chain] = users[chain] - a.received /\ escrow'[chain] = escrow[chain] + locks
        /\ users[chain] \in Nat /\ escrow[chain] \in Nat
        /\ tvl[chain] \in Nat /\ withheld[chain] \in Nat
    BY <1>1, <1>3 DEF BalancesFit
  <1>7. OnlyOn(chain)
    BY <1>1, <1>3 DEF BalancesFit, OnlyOn
  <1>8. Held(chain)' = Held(chain) + (- a.received)
    <2>1. CASE IsAdapter(chain)
      <3>1. /\ Held(chain) = users[chain] + escrow[chain] + withheld[chain] - escrow[chain]
            /\ Held(chain)' = users'[chain] + escrow'[chain] + withheld[chain] - escrow'[chain]
        BY <1>3, <1>5, <2>1 DEF Held, Locked, IsSolana, IsAdapter
      <3> QED
        BY <1>2, <1>6, <3>1
    <2>2. CASE ~ IsAdapter(chain)
      <3>1. /\ Held(chain) = users[chain] + escrow[chain] + withheld[chain] - tvl[chain]
            /\ Held(chain)' = users'[chain] + escrow'[chain] + withheld[chain] - tvl[chain]
        BY <1>3, <1>5, <2>2 DEF Held, Locked, IsSolana, IsAdapter
      <3> QED
        BY <1>2, <1>4, <1>6, <2>2, <3>1
    <2> QED
      BY <2>1, <2>2
  <1> QED
    BY <1>1, <1>7, <1>8, OthersHold DEF Gains, chain, a

LEMMA SolanaCreditGives ==
    ASSUME TypeOK, BalancesFit, NEW chain \in Chains, NEW amount \in Nat,
           IsSolana(chain), SolanaCredit(chain, amount), adapters' = adapters
    PROVE  Gains(chain, amount)
  <1> DEFINE lost == TransferFeeOn(chain, amount)
             unlocks == IF IsAdapter(chain) THEN amount ELSE 0
  <1>1. tokenFee \in AnyTokenFee
    BY TokenFeeFits
  <1>2. lost \in Nat /\ unlocks \in Nat
    BY <1>1, TransferFeeFits DEF FeeFits, TransferFeeOn
  <1>3. /\ users'    = [users EXCEPT ![chain] = @ + amount - lost]
        /\ escrow'   = [escrow EXCEPT ![chain] = @ - unlocks]
        /\ tvl'      = [tvl EXCEPT ![chain] = @ - unlocks]
        /\ withheld' = [withheld EXCEPT ![chain] = @ + lost]
    BY DEF SolanaCredit
  <1> HIDE DEF lost, unlocks
  <1>4. /\ users'[chain] = users[chain] + amount - lost
        /\ escrow'[chain] = escrow[chain] - unlocks
        /\ tvl'[chain] = tvl[chain] - unlocks /\ withheld'[chain] = withheld[chain] + lost
        /\ users[chain] \in Nat /\ escrow[chain] \in Nat
        /\ tvl[chain] \in Nat /\ withheld[chain] \in Nat
    BY <1>3 DEF BalancesFit
  <1>5. OnlyOn(chain)
    BY <1>3 DEF BalancesFit, OnlyOn
  <1>6. /\ Held(chain) = users[chain] + escrow[chain] + withheld[chain] - tvl[chain]
        /\ Held(chain)' = users'[chain] + escrow'[chain] + withheld'[chain] - tvl'[chain]
    BY DEF Held, Locked, IsSolana
  <1>7. Held(chain)' = Held(chain) + amount
    BY <1>2, <1>4, <1>6
  <1> QED
    BY <1>5, <1>7, OthersHold DEF Gains

LEMMA SuiCreditGives ==
    ASSUME BalancesFit, NEW chain \in Chains, NEW amount \in Nat,
           ~ IsSolana(chain), SuiCredit(chain, amount), adapters' = adapters
    PROVE  Gains(chain, amount)
  <1> DEFINE unlocks == IF IsAdapter(chain) THEN amount ELSE 0
  <1>1. /\ users'  = [users EXCEPT ![chain] = @ + amount]
        /\ escrow' = [escrow EXCEPT ![chain] = @ - unlocks]
        /\ tvl' = tvl /\ withheld' = withheld
    BY DEF SuiCredit
  <1>2. unlocks \in Nat /\ (~ IsAdapter(chain) => unlocks = 0)
    OBVIOUS
  <1> HIDE DEF unlocks
  <1>3. /\ users'[chain] = users[chain] + amount /\ escrow'[chain] = escrow[chain] - unlocks
        /\ users[chain] \in Nat /\ escrow[chain] \in Nat
        /\ tvl[chain] \in Nat /\ withheld[chain] \in Nat
    BY <1>1 DEF BalancesFit
  <1>4. OnlyOn(chain)
    BY <1>1 DEF BalancesFit, OnlyOn
  <1>5. Held(chain)' = Held(chain) + amount
    <2>1. CASE IsAdapter(chain)
      <3>1. /\ Held(chain) = users[chain] + escrow[chain] + withheld[chain] - escrow[chain]
            /\ Held(chain)' = users'[chain] + escrow'[chain] + withheld[chain] - escrow'[chain]
        BY <1>1, <2>1 DEF Held, Locked, IsSolana, IsAdapter
      <3> QED
        BY <1>2, <1>3, <3>1
    <2>2. CASE ~ IsAdapter(chain)
      <3>1. /\ Held(chain) = users[chain] + escrow[chain] + withheld[chain] - tvl[chain]
            /\ Held(chain)' = users'[chain] + escrow'[chain] + withheld[chain] - tvl[chain]
        BY <1>1, <2>2 DEF Held, Locked, IsSolana, IsAdapter
      <3> QED
        BY <1>2, <1>3, <2>2, <3>1
    <2> QED
      BY <2>1, <2>2
  <1> QED
    BY <1>4, <1>5, OthersHold DEF Gains

\* The fees that are withdrawn were in circulation before.
LEMMA WithdrawMoves ==
    ASSUME TypeOK, BalancesFit, NEW chain \in Chains, NEW amount \in Nat, WithdrawFee(chain, amount)
    PROVE  \A c \in Chains : Held(c)' = Held(c)
  <1> DEFINE lost == TransferFeeOn(chain, amount)
  <1>1. tokenFee \in AnyTokenFee
    BY TokenFeeFits
  <1>2. lost \in Nat
    BY <1>1, TransferFeeFits DEF FeeFits, TransferFeeOn
  <1>3. /\ users' = [users EXCEPT ![chain] = @ + amount - lost]
        /\ escrow' = [escrow EXCEPT ![chain] = @ - amount]
        /\ withheld' = [withheld EXCEPT ![chain] = @ + lost]
        /\ tvl' = tvl /\ adapters' = adapters /\ IsSolana(chain)
    BY DEF WithdrawFee, config
  <1> HIDE DEF lost
  <1>4. /\ users'[chain] = users[chain] + amount - lost
        /\ escrow'[chain] = escrow[chain] - amount /\ withheld'[chain] = withheld[chain] + lost
        /\ users[chain] \in Nat /\ escrow[chain] \in Nat
        /\ tvl[chain] \in Nat /\ withheld[chain] \in Nat
    BY <1>3 DEF BalancesFit
  <1>5. OnlyOn(chain)
    BY <1>3 DEF BalancesFit, OnlyOn
  <1>6. /\ Held(chain) = users[chain] + escrow[chain] + withheld[chain] - tvl[chain]
        /\ Held(chain)' = users'[chain] + escrow'[chain] + withheld'[chain] - tvl[chain]
    BY <1>3 DEF Held, Locked, IsSolana
  <1>7. Held(chain)' = Held(chain)
    BY <1>2, <1>4, <1>6
  <1> QED
    BY <1>3, <1>5, <1>7, OthersHold

\* A send turns what circulates into a packet of the same worth.
LEMMA SendConserves ==
    ASSUME IInv, HeldType', SupplyIsConserved,
           NEW path \in Pathways, NEW asked \in Amounts, Send(path, asked)
    PROVE  SupplyIsConserved'
  <1> DEFINE chain == path[1]
             a == AmountsOf(path, asked)
             amountSD == ToSD(chain, a.received)
             packet == [path |-> path, amountSD |-> amountSD]
  <1>1. TypeOK /\ BalancesFit /\ RestFits /\ HeldType /\ asked \in Nat /\ chain \in Chains
    BY InvariantFits, HeldIsInteger, OftAssumption DEF IInv, Pathways
  <1>2. /\ IF IsSolana(chain) THEN SolanaDebit(chain, a) ELSE SuiDebit(chain, a)
        /\ packet \in Packets
        /\ inFlight' = [inFlight EXCEPT ![packet] = @ + 1]
        /\ adapters' = adapters
    BY DEF Send, config
  <1>3. Gains(chain, - a.received)
    BY <1>1, <1>2, SolanaDebitTakes, SuiDebitTakes
  <1>4. amountSD \in Nat /\ ToLD(chain, amountSD) = a.received
    BY <1>1, ReceivedIsShared
  <1>5. packet.amountSD = amountSD
    OBVIOUS
  <1> HIDE DEF packet, amountSD, a, chain
  <1>6. /\ Held(chain)' = Held(chain) + (-1) * ToLD(chain, amountSD)
        /\ \A other \in Chains \ {chain} : Held(other)' = Held(other)
    <2>1. ToLD(chain, amountSD) \in Nat
      BY <1>1, <1>4, ValueOfShared
    <2>2. - ToLD(chain, amountSD) = (-1) * ToLD(chain, amountSD)
      BY <2>1
    <2> QED
      BY <1>3, <1>4, <2>2 DEF Gains
  <1>7. Circulating \in Int /\ Circulating' = Circulating + (-1) * (Unit * amountSD)
    BY <1>1, <1>4, <1>6, SharedUnitsMove
  <1>8. Travelling \in Int /\ Travelling' = Travelling + 1 * (Unit * packet.amountSD)
    <2>1. inFlight[packet] + 1 \in Nat
      BY <1>1, <1>2 DEF RestFits
    <2> QED
      BY <1>1, <1>2, <2>1, TravellingChanges DEF RestFits
  <1>9. Unit * amountSD \in Int
    BY <1>4, UnitAssumption
  <1> QED
    BY <1>5, <1>7, <1>8, <1>9 DEF SupplyIsConserved

\* A receive turns a packet into what circulates, of the same worth.
LEMMA LzReceiveConserves ==
    ASSUME IInv, HeldType', SupplyIsConserved, NEW packet \in Packets, LzReceive(packet)
    PROVE  SupplyIsConserved'
  <1> DEFINE chain == packet.path[2]
             amountSD == packet.amountSD
             amount == ToLD(chain, amountSD)
  <1>1. /\ TypeOK /\ BalancesFit /\ RestFits /\ HeldType
        /\ chain \in Chains /\ amountSD \in Nat
    BY InvariantFits, HeldIsInteger, OftAssumption DEF IInv, Packets, Pathways
  <1>2. /\ IF IsSolana(chain) THEN SolanaCredit(chain, amount) ELSE SuiCredit(chain, amount)
        /\ inFlight[packet] > 0
        /\ inFlight' = [inFlight EXCEPT ![packet] = @ - 1]
        /\ adapters' = adapters
    BY DEF LzReceive, config
  <1> HIDE DEF chain, amountSD
  <1>3. amount \in Nat
    BY <1>1, ValueOfShared
  <1> HIDE DEF amount
  <1>4. Gains(chain, amount)
    BY <1>1, <1>2, <1>3, SolanaCreditGives, SuiCreditGives
  <1>5. /\ Held(chain)' = Held(chain) + 1 * ToLD(chain, amountSD)
        /\ \A other \in Chains \ {chain} : Held(other)' = Held(other)
    BY <1>3, <1>4 DEF Gains, amount
  <1>6. Circulating \in Int /\ Circulating' = Circulating + 1 * (Unit * amountSD)
    BY <1>1, <1>5, SharedUnitsMove
  <1>7. Travelling \in Int /\ Travelling' = Travelling + (-1) * (Unit * packet.amountSD)
    <2>1. inFlight \in [Packets -> Nat] /\ inFlight[packet] \in Nat
      BY <1>1 DEF RestFits
    <2>2. inFlight[packet] + (-1) \in Nat /\ inFlight[packet] - 1 = inFlight[packet] + (-1)
      BY <1>2, <2>1
    <2>3. inFlight' = [inFlight EXCEPT ![packet] = @ + (-1)]
      BY <1>2, <2>2
    <2> QED
      BY <2>1, <2>2, <2>3, TravellingChanges
  <1>8. Unit * amountSD \in Int
    BY <1>1, UnitAssumption
  <1> QED
    BY <1>6, <1>7, <1>8 DEF SupplyIsConserved, amountSD

\* A step that moves nothing between chains.
LEMMA StillConserves ==
    ASSUME SupplyIsConserved, inFlight' = inFlight, \A c \in Chains : Held(c)' = Held(c)
    PROVE  SupplyIsConserved'
  <1>1. [chain \in Chains |-> Value(chain, Held(chain)')] = [chain \in Chains |-> Value(chain, Held(chain))]
    OBVIOUS
  <1>2. Circulating' = Circulating
    BY <1>1 DEF Circulating, Value
  <1>3. Travelling' = Travelling
    BY DEF Travelling
  <1> QED
    BY <1>2, <1>3 DEF SupplyIsConserved

LEMMA StepConserves ==
    ASSUME IInv, IInv', SupplyIsConserved, [Next]_vars
    PROVE  SupplyIsConserved'
  <1>1. TypeOK /\ BalancesFit
    BY InvariantFits DEF IInv
  <1>2. HeldType'
    <2>1. BalancesFit'
      BY DEF IInv
    <2> QED
      BY <2>1 DEF BalancesFit, HeldType, Held, Locked
  <1>3. ASSUME NEW path \in Pathways, NEW asked \in Amounts, Send(path, asked)
        PROVE  SupplyIsConserved'
    BY <1>2, <1>3, SendConserves
  <1>4. ASSUME NEW packet \in Packets, LzReceive(packet)
        PROVE  SupplyIsConserved'
    BY <1>2, <1>4, LzReceiveConserves
  <1>5. ASSUME NEW chain \in Chains, NEW amount \in 1 .. ToLD(chain, Supply), WithdrawFee(chain, amount)
        PROVE  SupplyIsConserved'
    <2>1. amount \in Nat
      OBVIOUS
    <2>2. \A c \in Chains : Held(c)' = Held(c)
      BY <1>1, <1>5, <2>1, WithdrawMoves
    <2>3. inFlight' = inFlight
      BY <1>5 DEF WithdrawFee
    <2> QED
      BY <2>2, <2>3, StillConserves
  <1>6. CASE UNCHANGED <<balances, adapters, inFlight>>
    <2>1. \A c \in Chains : Held(c)' = Held(c)
      BY <1>6 DEF balances, Held, Locked, IsAdapter, IsSolana
    <2> QED
      BY <1>6, <2>1, StillConserves
  <1>7. ASSUME Administration, ~ UNCHANGED <<balances, adapters, inFlight>>
        PROVE  \E chain \in Chains : \E amount \in 1 .. ToLD(chain, Supply) : WithdrawFee(chain, amount)
    BY <1>7 DEF Administration, Pause, Unpause, SetFee, SetSolanaRateLimit, SetSuiRateLimit,
                UnsetRateLimit, config
  <1>8. Tick \/ EpochBegins \/ UNCHANGED vars => UNCHANGED <<balances, adapters, inFlight>>
    BY DEF Tick, EpochBegins, vars, config
  <1> QED
    BY <1>3, <1>4, <1>5, <1>6, <1>7, <1>8 DEF Next, Transfers

\* At first the supply is on one chain, and nothing travels.
LEMMA InitConserves ==
    ASSUME Init
    PROVE  SupplyIsConserved
  <1>1. PICK home \in Chains :
            users = [chain \in Chains |-> IF chain = home THEN ToLD(chain, Supply) ELSE 0]
    BY DEF Init
  <1>2. Supply \in Nat
    BY OftAssumption
  <1>3. \A c \in Chains : Held(c) = users[c]
    <2>1. \A c \in Chains : escrow[c] = 0 /\ tvl[c] = 0 /\ withheld[c] = 0
      BY DEF Init
    <2>2. \A c \in Chains : users[c] \in Nat
      BY <1>1, <1>2, ValueOfShared
    <2> QED
      BY <2>1, <2>2 DEF Held, Locked
  <1> DEFINE zero == [c \in Chains |-> 0]
             f    == [c \in Chains |-> Value(c, Held(c))]
  <1>4. \A c \in Chains \ {home} : f[c] = zero[c]
    <2> SUFFICES ASSUME NEW c \in Chains \ {home} PROVE 0 * Weight(c) = 0
      BY <1>1, <1>3 DEF Value, Weight
    <2>1. Weight(c) \in Nat
      BY WeightIsExact, OftAssumption, UnitAssumption
    <2> QED
      BY <2>1
  <1>5. f[home] = Unit * Supply
    <2>1. f[home] = ToLD(home, Supply) * Weight(home)
      BY <1>1, <1>3 DEF Value, Weight
    <2> QED
      BY <1>2, <2>1, ValueOfShared
  <1>6. f \in [Chains -> Int] /\ zero \in [Chains -> Int]
    <2>1. Unit * Supply \in Int
      BY <1>2, UnitAssumption
    <2>2. \A c \in Chains : f[c] \in Int
      BY <1>4, <1>5, <2>1
    <2> QED
      BY <2>2
  <1>7. IsFiniteSet(Chains)
    BY UnitAssumption
  <1>8. zero[home] = 0 /\ \A c \in Chains : zero[c] = 0
    OBVIOUS
  <1> HIDE DEF zero, f
  <1>9. SumFunction(zero) = 0
    BY <1>6, <1>7, <1>8, SumOfZeroes
  <1>10. SumFunction(f) = SumFunction(zero) + (f[home] - zero[home])
    BY <1>4, <1>6, <1>7, SumChanges DEF SumFollows
  <1>11. Circulating = Unit * Supply /\ Unit * Supply \in Int
    <2>1. Circulating = SumFunction(f)
      BY DEF Circulating, f
    <2>2. Unit * Supply \in Int
      BY <1>2, UnitAssumption
    <2> QED
      BY <1>5, <1>8, <1>9, <1>10, <2>1, <2>2
  <1>12. Travelling = 0
    <2> DEFINE e == [packet \in Packets |-> packet.amountSD * inFlight[packet]]
    <2>1. ASSUME NEW packet \in Packets
          PROVE  packet.amountSD * inFlight[packet] = 0
      <3>1. packet.amountSD \in Nat /\ inFlight[packet] = 0
        BY <1>2 DEF Init, Packets
      <3> QED
        BY <3>1
    <2>2. e \in [Packets -> Int] /\ \A packet \in Packets : e[packet] = 0
      BY <2>1
    <2>3. Travelling = Unit * SumFunction(e)
      BY DEF Travelling
    <2> HIDE DEF e
    <2>4. SumFunction(e) = 0
      BY <2>2, PacketsAreFinite, SumOfZeroes
    <2> QED
      BY <2>3, <2>4, UnitAssumption
  <1> QED
    BY <1>11, <1>12 DEF SupplyIsConserved

----------------------------------------------------------------------------
(* Theorems                                                                  *)

\* The inductive invariant holds in all reachable states.
THEOREM Invariance == Spec => []IInv
  <1>1. Init => IInv
    BY InitFits
  <1>2. IInv /\ [Next]_vars => IInv'
    BY StepFits
  <1> QED
    BY <1>1, <1>2, PTL DEF Spec

\* Every variable keeps its type: no balance, limiter or count goes below 0.
THEOREM TypeCorrect == Spec => []TypeOK
  <1>1. IInv => TypeOK
    BY InvariantFits
  <1> QED
    BY <1>1, Invariance, PTL

\* Solana's escrow always covers what is locked, so no unlock and no
\* withdrawal of fees fails or underflows, whatever the token's fee was when.
THEOREM EscrowIsCovered == Spec => []EscrowCoversTvl
  <1>1. IInv => EscrowCoversTvl
    BY InvariantFits
  <1> QED
    BY <1>1, Invariance, PTL

\* No sender ever pays more than was asked: the amount before the token's fee
\* is computed exactly, for every fee.
THEOREM DebitsStayWithin == Spec => []DebitWithinAmount
  <1>1. IInv => DebitWithinAmount
    <2> SUFFICES ASSUME IInv, NEW path \in Pathways, NEW asked \in 0 .. ToLD(path[1], Supply)
                 PROVE  AmountsOf(path, asked).sent <= asked
      BY DEF DebitWithinAmount
    <2>1. AmountsFit(path, asked)
      BY InvariantFits, AmountsAreExact
    <2> QED
      BY <2>1 DEF AmountsFit
  <1> QED
    BY <1>1, Invariance, PTL

\* Nothing passes a limiter that an exact one would refuse, through all changes
\* of limits, rates and windows, for every time between two calls.
THEOREM LimitsHold == Spec => LimitsAreKept
  <1>1. IInv /\ [Next]_vars => \A k \in Limiters : KeptAt(k)
    BY StepFits
  <1>2. (\A k \in Limiters : KeptAt(k)) =>
            \A k \in Limiters : drawn'[k] > drawn[k] =>
                drawn'[k] <= WindowUnit * LimitOf(k[2][1], limiters'[k])
    BY DEF KeptAt
  <1> QED
    BY <1>1, <1>2, Invariance, PTL DEF Spec, LimitsAreKept

\* No transfer, fee, limit, pause or change of them creates or loses a token:
\* what circulates and what is on its way is the supply, for any number of
\* chains and any decimals.
THEOREM SupplyIsKept == Spec => []SupplyIsConserved
  <1>1. Init => SupplyIsConserved
    BY InitConserves
  <1>2. IInv /\ IInv' /\ SupplyIsConserved /\ [Next]_vars => SupplyIsConserved'
    BY StepConserves
  <1> QED
    BY <1>1, <1>2, Invariance, PTL DEF Spec

=============================================================================
