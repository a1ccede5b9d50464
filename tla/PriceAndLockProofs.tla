------------------------- MODULE PriceAndLockProofs -------------------------
(***************************************************************************)
(* Proofs about Pricing, for baskets of any lines, rates and prices: what  *)
(* a quote charges is the sum of its parts, however they are rounded.  The *)
(* units that rounding down leaves are as many as the lines that get one   *)
(* more, because a strict order gives every line a rank of its own.        *)
(*                                                                         *)
(* Proofs about StockLocks, for any number of transactions, items and      *)
(* locations: a deadlock has a member that found a level missing, and one  *)
(* that is not a change made by hand.  Whoever found every level it        *)
(* needed, and every change made by hand, holds no row beyond the one it   *)
(* waits for.  In a circle of such transactions the one that waits for the *)
(* highest row would wait for a transaction that waits for the same row    *)
(* and holds it: but a row has one holder.                                 *)
(***************************************************************************)
EXTENDS Pricing, StockLocks, Sums

-----------------------------------------------------------------------------
(* Rounding.                                                               *)

\* A product is not below zero, and not above that of a larger factor.
LEMMA Products ==
  /\ \A n, k \in Nat : n * k \in Nat
  /\ \A n, m, k \in Nat : n <= m => n * k <= m * k /\ k * n <= k * m
OBVIOUS

\* Division leaves a remainder below the divisor.
LEMMA DivisionLeaves ==
  ASSUME NEW n \in Int, NEW d \in Int, d > 0
  PROVE  n = d * (n \div d) + (n % d)
OBVIOUS

\* The quotient and the remainder of amounts are amounts.
LEMMA Division ==
  ASSUME NEW n \in Nat, NEW d \in Nat \ {0}
  PROVE  /\ n \div d \in Nat /\ n % d \in Nat /\ n % d < d
         /\ n = d * (n \div d) + (n % d)
<1>1. n \div d \in Int /\ n \div d >= 0
  OBVIOUS
<1>2. n % d \in Nat
  OBVIOUS
<1>3. n % d < d
  OBVIOUS
<1>4. n = d * (n \div d) + (n % d)
  BY DivisionLeaves
<1> QED
  BY <1>1, <1>2, <1>3, <1>4

\* A quotient is at most the bound of what is divided, and less with a remainder.
LEMMA QuotientIsBounded ==
  ASSUME NEW q \in Nat, NEW d \in Nat \ {0}, NEW k \in Nat, NEW r \in Nat,
         d * q + r <= d * k
  PROVE  q <= k /\ (r > 0 => q < k)
<1>0. d * q \in Nat /\ d * k \in Nat
  BY Products
<1>1. CASE q > k
  <2>1. d * (k + 1) <= d * q
    BY <1>1, Products
  <2>2. d * (k + 1) = d * k + d
    OBVIOUS
  <2> QED
    BY <1>0, <2>1, <2>2
<1>2. CASE q = k
  BY <1>2, Products
<1> QED
  BY <1>1, <1>2

\* An amount that is at most k times the divisor is not rounded beyond k.
LEMMA RoundedIsBounded ==
  ASSUME NEW n \in Nat, NEW d \in Nat \ {0}, NEW rounding
  PROVE  /\ DivideRounded(n, d, rounding) \in Nat
         /\ \A k \in Nat : n <= d * k => DivideRounded(n, d, rounding) <= k
<1>1. PICK q \in Nat, r \in Nat : q = n \div d /\ r = n % d /\ r < d /\ n = d * q + r
  BY Division
<1>2. DivideRounded(n, d, rounding) = q \/ (r > 0 /\ DivideRounded(n, d, rounding) = q + 1)
  BY <1>1 DEF DivideRounded
<1>3. ASSUME NEW k \in Nat, n <= d * k PROVE DivideRounded(n, d, rounding) <= k
  <2>1. q <= k /\ (r > 0 => q < k)
    BY <1>1, <1>3, QuotientIsBounded
  <2> QED
    BY <1>2, <2>1
<1> QED
  BY <1>2, <1>3

\* A number that is not even has an even successor.
LEMMA OddsAndEvens ==
  ASSUME NEW q \in Nat
  PROVE  q % 2 = 0 \/ (q % 2 = 1 /\ (q + 1) % 2 = 0)
OBVIOUS

\* divideRounded is to the nearest: no amount is off by more than half a unit, and of a
\* half, half-up never goes down and half-even always ends on an even number.
THEOREM RoundingIsToNearest ==
  ASSUME NEW n \in Nat, NEW d \in Nat \ {0}, NEW rounding
  PROVE  LET r == DivideRounded(n, d, rounding) IN
         /\ r \in Nat
         /\ 2 * (d * r - n) <= d /\ 2 * (n - d * r) <= d
         /\ 2 * (n - d * r) = d => rounding # "half-up" /\ r % 2 = 0
         /\ 2 * (d * r - n) = d => rounding = "half-up" \/ r % 2 = 0
<1>1. PICK q \in Nat, m \in Nat : q = n \div d /\ m = n % d /\ m < d /\ n = d * q + m
  BY Division
<1> DEFINE up == 2 * m > d \/ (2 * m = d /\ (rounding = "half-up" \/ q % 2 = 1))
<1>2. DivideRounded(n, d, rounding) = IF up THEN q + 1 ELSE q
  BY <1>1 DEF DivideRounded
<1>3. PICK w \in Nat : w = d * q
  BY Products
<1>4. d * (q + 1) = w + d
  BY <1>3
<1>5. n = w + m
  BY <1>1, <1>3
<1>6. CASE up
  <2>1. PICK r \in Nat : r = q + 1
    OBVIOUS
  <2>2. DivideRounded(n, d, rounding) = r
    BY <1>2, <1>6, <2>1
  <2>3. PICK v \in Nat : v = d * r
    BY Products
  <2>4. v - n = d - m /\ n - v = m - d
    BY <1>4, <1>5, <2>1, <2>3
  <2>5. 2 * (v - n) <= d /\ 2 * (n - v) < d
    BY <1>1, <1>6, <2>4
  <2>6. 2 * (v - n) = d => rounding = "half-up" \/ q % 2 = 1
    BY <1>6, <2>4
  <2>7. q % 2 = 1 => r % 2 = 0
    BY <2>1, OddsAndEvens
  <2> QED
    BY <2>2, <2>3, <2>5, <2>6, <2>7
<1>7. CASE ~up
  <2>1. DivideRounded(n, d, rounding) = q
    BY <1>2, <1>7
  <2>2. n - w = m /\ w - n = 0 - m
    BY <1>5
  <2>3. 2 * (w - n) < d /\ 2 * (n - w) <= d
    BY <1>7, <2>2
  <2>4. 2 * (n - w) = d => rounding # "half-up" /\ q % 2 = 0
    BY <1>7, <2>2, OddsAndEvens
  <2> QED
    BY <1>3, <2>1, <2>3, <2>4
<1> QED
  BY <1>6, <1>7

-----------------------------------------------------------------------------
(* The largest remainders.                                                 *)

\* Of things in a strict order as many come early as there are places.
LEMMA EarlyOnes ==
  ASSUME NEW D, IsFiniteSet(D), NEW Before, \A i \in D : Before[i] \subseteq D \ {i},
         \A i, j \in D : i # j => i \in Before[j] \/ j \in Before[i],
         \A i, j \in D : i \in Before[j] => Before[i] \subseteq Before[j],
         NEW left \in Nat, left <= Cardinality(D)
  PROVE  /\ IsFiniteSet({i \in D : Cardinality(Before[i]) < left})
         /\ Cardinality({i \in D : Cardinality(Before[i]) < left}) = left
<1> DEFINE n == Cardinality(D)
           rank == [i \in D |-> Cardinality(Before[i])]
           early == {i \in D : rank[i] < left}
<1>1. n \in Nat
  BY FS_CardinalityType
<1>2. \A i \in D : IsFiniteSet(Before[i]) /\ rank[i] \in 0 .. (n - 1)
  <2> TAKE i \in D
  <2>1. IsFiniteSet(D \ {i}) /\ Cardinality(D \ {i}) = n - 1
    BY FS_RemoveElement
  <2>2. /\ IsFiniteSet(Before[i]) /\ Cardinality(Before[i]) <= n - 1
        /\ Cardinality(Before[i]) \in Nat
    BY <2>1, FS_Subset, FS_CardinalityType
  <2> QED
    BY <1>1, <2>2
<1>3. ASSUME NEW i \in D, NEW j \in D, i \in Before[j] PROVE rank[i] < rank[j]
  <2>1. Before[i] \subseteq Before[j] /\ Before[i] # Before[j]
    BY <1>3
  <2> QED
    BY <1>2, <2>1, FS_Subset, FS_CardinalityType
<1>4. \A i, j \in D : i # j => rank[i] # rank[j]
  <2> TAKE i, j \in D
  <2> HAVE i # j
  <2>1. rank[i] \in Int /\ rank[j] \in Int
    BY <1>1, <1>2
  <2> QED
    BY <1>3, <2>1
<1>5. rank \in Injection(D, 0 .. (n - 1))
  BY <1>2, <1>4 DEF Injection, IsInjective
<1>6. IsFiniteSet(0 .. (n - 1)) /\ Cardinality(0 .. (n - 1)) = n
  <2>1. \A m \in Nat : IsFiniteSet(0 .. (m - 1)) /\ Cardinality(0 .. (m - 1)) = m
    BY FS_Interval
  <2> QED
    BY <1>1, <2>1
<1>7. rank \in Surjection(D, 0 .. (n - 1))
  BY <1>5, <1>6, FS_Injection
<1> DEFINE r == [i \in early |-> rank[i]]
<1>8. r \in Bijection(early, 0 .. (left - 1))
  <2>1. \A i \in early : r[i] \in 0 .. (left - 1)
    BY <1>1, <1>2
  <2>2. \A k \in 0 .. (left - 1) : \E i \in early : r[i] = k
    <3> TAKE k \in 0 .. (left - 1)
    <3>1. k \in 0 .. (n - 1) /\ k < left
      BY <1>1
    <3>2. PICK i \in D : rank[i] = k
      BY <1>7, <3>1 DEF Surjection
    <3> QED
      BY <3>1, <3>2
  <2> QED
    BY <1>4, <2>1, <2>2 DEF Bijection, Injection, IsInjective, Surjection
<1>9. IsFiniteSet(early) /\ Cardinality(early) = Cardinality(0 .. (left - 1))
  <2>1. IsFiniteSet(early)
    BY FS_Subset
  <2> HIDE DEF early, r
  <2> QED
    BY <1>8, <2>1, FS_Bijection DEF ExistsBijection
<1>10. Cardinality(0 .. (left - 1)) = left
  BY FS_Interval
<1>11. early = {i \in D : Cardinality(Before[i]) < left}
  OBVIOUS
<1> HIDE DEF early
<1> QED
  BY <1>9, <1>10, <1>11

\* Lines and rates have numbers.
Numbered(D) == D \subseteq Nat

\* part is less than a unit from n / whole.
Within(whole, n, part) ==
  n - whole < whole * part /\ whole * part < n + whole

\* Shares add up to what is shared, each is less than a unit from its exact share, and
\* none is above its weight if the whole is not above all the weights.
LEMMA AllocateIsFair ==
  ASSUME NEW D, IsFiniteSet(D), Numbered(D), NEW weights \in [D -> Nat],
         NEW amount \in Nat, SumFunction(weights) > 0
  PROVE  LET parts == Allocate(amount, weights) IN
         /\ parts \in [D -> Nat]
         /\ SumFunction(parts) = amount
         /\ amount <= SumFunction(weights) => \A i \in D : parts[i] <= weights[i]
         /\ \A i \in D : Within(SumFunction(weights), amount * weights[i], parts[i])
<1> DEFINE Sum(f) == SumFunctionOnSet(f, D)
<1>1. PICK whole \in Nat \ {0} : whole = Sum(weights)
  <2>1. Sum(weights) \in Nat
    BY SumIsNat
  <2> QED
    BY <2>1 DEF SumFunction
<1>2. PICK share : share = [i \in D |-> (amount * weights[i]) \div whole]
  OBVIOUS
<1>3. PICK rest : rest = [i \in D |-> (amount * weights[i]) % whole]
  OBVIOUS
<1>4. \A i \in D : /\ share[i] \in Nat /\ rest[i] \in Nat /\ rest[i] < whole
                   /\ amount * weights[i] = whole * share[i] + rest[i]
  BY <1>2, <1>3, Division, Products
<1>5. PICK n \in Nat : n = Cardinality(D)
  BY FS_CardinalityType
<1>6. Sum(share) \in Nat /\ Sum(rest) \in Nat /\ Sum(weights) \in Nat
  BY <1>4, SumIsNat
<1>7. amount * whole = whole * Sum(share) + Sum(rest)
  <2> DEFINE all == [i \in D |-> amount * weights[i]]
             shares == [i \in D |-> whole * share[i]]
  <2>1. \A i \in D : all[i] \in Int /\ shares[i] \in Int /\ rest[i] \in Int
                     /\ weights[i] \in Int /\ share[i] \in Int
    BY <1>4, Products
  <2>2. \A i \in D : all[i] = shares[i] + rest[i]
    BY <1>4
  <2>3. \A i \in D : all[i] = amount * weights[i] /\ shares[i] = whole * share[i]
    OBVIOUS
  <2> HIDE DEF all, shares
  <2>4. Sum(all) = Sum(shares) + Sum(rest)
    <3>1. \A i \in D : shares[i] \in Int /\ rest[i] \in Int /\ all[i] = shares[i] + rest[i]
      BY <2>1, <2>2
    <3> QED
      BY <3>1, SumOfSums
  <2>5. Sum(all) = amount * Sum(weights)
    <3>1. \A i \in D : weights[i] \in Int /\ all[i] = amount * weights[i]
      BY <2>1, <2>3
    <3>2. amount \in Int
      OBVIOUS
    <3> QED
      BY <3>1, <3>2, SumScales
  <2>6. Sum(shares) = whole * Sum(share)
    <3>1. \A i \in D : share[i] \in Int /\ shares[i] = whole * share[i]
      BY <2>1, <2>3
    <3>2. whole \in Int
      OBVIOUS
    <3> QED
      BY <3>1, <3>2, SumScales
  <2> HIDE DEF Sum
  <2> QED
    BY <1>1, <2>4, <2>5, <2>6
<1>8. PICK left \in Int : left = amount - Sum(share)
  BY <1>6
<1>9. whole * left = Sum(rest)
  <2>1. \A a, b, c \in Int : a * (b - c) = b * a - a * c
    OBVIOUS
  <2> HIDE DEF Sum
  <2> QED
    BY <1>6, <1>7, <1>8, <2>1
<1> DEFINE Some == {i \in D : rest[i] > 0}
<1>10. IsFiniteSet(Some) /\ Cardinality(Some) \in Nat /\ Some \subseteq D
  BY FS_Subset, FS_CardinalityType
<1>11. Sum(rest) <= whole * Cardinality(Some)
  <2>1. Sum(rest) = SumFunctionOnSet(rest, Some)
    <3>1. \A i \in Some : rest[i] \in Int
      BY <1>4
    <3>2. \A i \in D \ Some : rest[i] = 0
      BY <1>4
    <3> HIDE DEF Some
    <3> QED
      BY <1>10, <3>1, <3>2, SumOverPart
  <2> DEFINE one == [i \in Some |-> 1]
             wholes == [i \in Some |-> whole]
  <2>2. \A i \in Some : one[i] \in Int /\ wholes[i] \in Int /\ one[i] = 1
                        /\ wholes[i] = whole * one[i]
    OBVIOUS
  <2>3. \A i \in Some : rest[i] \in Int /\ wholes[i] \in Int /\ rest[i] <= wholes[i]
    BY <1>4
  <2> HIDE DEF one, wholes, Some
  <2>4. SumFunctionOnSet(rest, Some) <= SumFunctionOnSet(wholes, Some)
    BY <1>10, <2>3, SumIsMonotonic
  <2>5. SumFunctionOnSet(wholes, Some) = whole * SumFunctionOnSet(one, Some)
    <3>1. \A i \in Some : one[i] \in Int /\ wholes[i] = whole * one[i]
      BY <2>2
    <3>2. whole \in Int
      OBVIOUS
    <3> QED
      BY <1>10, <3>1, <3>2, SumScales
  <2>6. SumFunctionOnSet(one, Some) = Cardinality(Some)
    BY <1>10, <2>2, SumOfOnes
  <2> QED
    BY <2>1, <2>4, <2>5, <2>6
<1>12. left \in Nat /\ left <= Cardinality(Some) /\ left <= n
  <2>1. left >= 0
    <3>1. \A a \in Nat \ {0}, b \in Int : a * b >= 0 => b >= 0
      OBVIOUS
    <3> QED
      BY <1>6, <1>9, <3>1
  <2>2. whole * left + 0 <= whole * Cardinality(Some)
    BY <1>9, <1>11, <1>6
  <2>3. left <= Cardinality(Some)
    BY <1>10, <2>1, <2>2, QuotientIsBounded
  <2>4. Cardinality(Some) <= n
    BY <1>5, <1>10, FS_Subset
  <2> QED
    BY <1>10, <2>1, <2>3, <2>4
<1> DEFINE Before == [i \in D |-> {j \in D : rest[j] > rest[i] \/ (rest[j] = rest[i] /\ j < i)}]
           early == {i \in D : Cardinality(Before[i]) < left}
           extra == [i \in D |-> IF Cardinality(Before[i]) < left THEN 1 ELSE 0]
           parts == [i \in D |-> share[i] + extra[i]]
<1>13. Allocate(amount, weights) = parts
  <2>1. /\ DOMAIN weights = D /\ DOMAIN share = D
        /\ SumFunction(weights) = whole /\ SumFunction(share) = Sum(share)
    BY <1>1, <1>2 DEF SumFunction
  <2> QED
    BY <1>2, <1>3, <1>8, <2>1 DEF Allocate
<1>14. IsFiniteSet(early) /\ Cardinality(early) = left
  <2>1. \A i \in D : Before[i] \subseteq D \ {i}
    BY <1>4 DEF Numbered
  <2>2. \A i, j \in D : i # j => i \in Before[j] \/ j \in Before[i]
    BY <1>4 DEF Numbered
  <2>3. \A i, j \in D : i \in Before[j] => Before[i] \subseteq Before[j]
    <3> TAKE i, j \in D
    <3> HAVE i \in Before[j]
    <3>1. rest[i] > rest[j] \/ (rest[i] = rest[j] /\ i < j)
      OBVIOUS
    <3>2. ASSUME NEW k \in Before[i] PROVE k \in Before[j]
      <4>1. k \in D /\ (rest[k] > rest[i] \/ (rest[k] = rest[i] /\ k < i))
        BY <3>2
      <4>2. /\ i \in Nat /\ j \in Nat /\ k \in Nat
            /\ rest[i] \in Nat /\ rest[j] \in Nat /\ rest[k] \in Nat
        BY <1>4, <4>1 DEF Numbered
      <4>3. rest[k] > rest[j] \/ (rest[k] = rest[j] /\ k < j)
        BY <3>1, <4>1, <4>2
      <4> QED
        BY <4>1, <4>3
    <3> QED
      BY <3>2
  <2>4. left <= Cardinality(D) /\ left \in Nat
    BY <1>5, <1>12
  <2> HIDE DEF Before
  <2> QED
    BY <2>1, <2>2, <2>3, <2>4, EarlyOnes
<1>15. Sum(extra) = left
  <2>1. \A i \in early : extra[i] = 1 /\ extra[i] \in Int
    OBVIOUS
  <2>2. \A i \in D \ early : extra[i] = 0
    OBVIOUS
  <2>3. early \subseteq D
    OBVIOUS
  <2> HIDE DEF early, extra
  <2>4. Sum(extra) = SumFunctionOnSet(extra, early)
    BY <2>1, <2>2, <2>3, SumOverPart
  <2>5. SumFunctionOnSet(extra, early) = Cardinality(early)
    BY <1>14, <2>1, SumOfOnes
  <2> QED
    BY <1>14, <2>4, <2>5
<1>16. \A i \in D : /\ extra[i] \in {0, 1} /\ parts[i] = share[i] + extra[i]
                    /\ parts[i] \in Nat
  BY <1>4
<1>17. SumFunction(parts) = amount
  <2>1. \A i \in D : share[i] \in Int /\ extra[i] \in Int /\ parts[i] = share[i] + extra[i]
    BY <1>4, <1>16
  <2>2. DOMAIN parts = D
    OBVIOUS
  <2> HIDE DEF parts, extra
  <2>3. Sum(parts) = Sum(share) + Sum(extra)
    BY <2>1, SumOfSums
  <2> QED
    BY <1>6, <1>8, <1>15, <2>2, <2>3 DEF SumFunction
<1>18. ASSUME NEW i \in D, rest[i] = 0 PROVE extra[i] = 0
  <2>1. Some \subseteq Before[i]
    BY <1>4, <1>18
  <2>2. IsFiniteSet(Before[i]) /\ Cardinality(Before[i]) \in Nat
    BY FS_Subset, FS_CardinalityType
  <2>3. Cardinality(Some) <= Cardinality(Before[i])
    BY <2>1, <2>2, FS_Subset
  <2>4. ~(Cardinality(Before[i]) < left)
    BY <1>10, <1>12, <2>2, <2>3
  <2> QED
    BY <2>4
<1>19. ASSUME amount <= SumFunction(weights), NEW i \in D PROVE parts[i] <= weights[i]
  <2>1. amount * weights[i] <= whole * weights[i]
    BY <1>1, <1>19, Products DEF SumFunction
  <2>2. share[i] <= weights[i] /\ (rest[i] > 0 => share[i] < weights[i])
    BY <1>4, <2>1, QuotientIsBounded
  <2>3. CASE rest[i] > 0
    BY <1>4, <1>16, <2>2, <2>3
  <2>4. CASE rest[i] = 0
    BY <1>4, <1>16, <1>18, <2>2, <2>4
  <2> QED
    BY <1>4, <2>3, <2>4
<1>20. ASSUME NEW i \in D PROVE Within(whole, amount * weights[i], parts[i])
  <2>1. PICK s \in Nat, r \in Nat, e \in {0, 1} :
          /\ s = share[i] /\ r = rest[i] /\ e = extra[i]
          /\ r < whole
          /\ amount * weights[i] = whole * s + r
          /\ parts[i] = s + e
          /\ r = 0 => e = 0
    BY <1>4, <1>16, <1>18
  <2>2. PICK v \in Nat : v = whole * s
    BY Products
  <2>3. whole * parts[i] = IF e = 0 THEN v ELSE v + whole
    BY <2>1, <2>2
  <2>4. amount * weights[i] = v + r
    BY <2>1, <2>2
  <2> QED
    BY <2>1, <2>3, <2>4 DEF Within
<1>21. parts \in [D -> Nat]
  BY <1>16
<1> HIDE DEF parts
<1> QED
  BY <1>1, <1>13, <1>17, <1>19, <1>20, <1>21 DEF SumFunction

\* What prices use of it: the shares add up, and stay within their weights.
LEMMA AllocateAddsUp ==
  ASSUME NEW D, IsFiniteSet(D), Numbered(D), NEW weights \in [D -> Nat],
         NEW amount \in Nat, SumFunction(weights) > 0
  PROVE  LET parts == Allocate(amount, weights) IN
         /\ parts \in [D -> Nat]
         /\ SumFunction(parts) = amount
         /\ amount <= SumFunction(weights) => \A i \in D : parts[i] <= weights[i]
BY AllocateIsFair

\* Largest remainders are fair: whatever the weights, the parts of an amount that is split
\* over lines or tax rates add up to it, and each is its exact share rounded up or down.
THEOREM SharesAreFair ==
  ASSUME NEW D, IsFiniteSet(D), Numbered(D), NEW weights \in [D -> Nat],
         NEW amount \in Nat, SumFunction(weights) > 0
  PROVE  LET whole == SumFunction(weights)
             parts == Allocate(amount, weights) IN
         /\ SumFunction(parts) = amount
         /\ \A i \in D : Within(whole, amount * weights[i], parts[i])
BY AllocateIsFair

-----------------------------------------------------------------------------
(* Taxes and discounts.                                                    *)

\* Nothing at all adds up to nothing.
LEMMA SumOfZeros ==
  ASSUME NEW S, IsFiniteSet(S)
  PROVE  SumFunction([x \in S |-> 0]) = 0
<1> DEFINE f == [x \in S |-> 0]
<1>1. DOMAIN f = S /\ \A x \in S : f[x] = 0
  OBVIOUS
<1> HIDE DEF f
<1>2. SumFunctionOnSet(f, S) = SumFunctionOnSet(f, {})
  BY <1>1, SumOverPart
<1>3. SumFunctionOnSet(f, {}) = 0
  BY SumOfNone
<1> QED
  BY <1>1, <1>2, <1>3 DEF SumFunction, f

\* Rates are numbered, and there are finitely many.
LEMMA RatesAreNumbered ==
  ASSUME NEW rates \in Seq(Nat)
  PROVE  /\ IsFiniteSet(DOMAIN rates) /\ Numbered(DOMAIN rates)
         /\ rates \in [DOMAIN rates -> Nat]
<1>1. PICK n \in Nat : DOMAIN rates = 1 .. n
  <2>1. Len(rates) \in Nat /\ DOMAIN rates = 1 .. Len(rates)
    OBVIOUS
  <2> QED
    BY <2>1
<1>2. IsFiniteSet(1 .. n)
  BY FS_Interval
<1> QED
  BY <1>1, <1>2 DEF Numbered

\* Taxes are not negative, and an amount holds no more tax than it is.
LEMMA TaxIsBounded ==
  ASSUME NEW base \in Nat, NEW rates \in Seq(Nat), NEW inclusive \in BOOLEAN
  PROVE  LET taxes == TaxFor(base, rates, inclusive) IN
         /\ taxes \in [DOMAIN rates -> Nat]
         /\ SumFunction(taxes) \in Nat
         /\ inclusive => SumFunction(taxes) <= base
<1> DEFINE D == DOMAIN rates
           taxes == TaxFor(base, rates, inclusive)
           none == [r \in D |-> 0]
<1>1. IsFiniteSet(D) /\ Numbered(D) /\ rates \in [D -> Nat]
  BY RatesAreNumbered
<1>2. PICK all \in Nat : all = SumFunction(rates)
  <2> HIDE DEF D
  <2>1. SumFunctionOnSet(rates, D) \in Nat
    BY <1>1, SumIsNat
  <2> QED
    BY <2>1 DEF SumFunction, D
<1>3. none \in [D -> Nat] /\ SumFunction(none) = 0
  BY <1>1, SumOfZeros
<1>4. PICK amount \in Nat :
        /\ amount = DivideRounded(base * all, 1000000 + all, "half-even")
        /\ amount <= base
  <2>1. base * all \in Nat /\ 1000000 + all \in Nat \ {0}
    BY Products
  <2>2. base * all <= (1000000 + all) * base
    <3>1. base * all <= base * (1000000 + all)
      BY Products
    <3>2. base * (1000000 + all) = (1000000 + all) * base
      OBVIOUS
    <3> QED
      BY <3>1, <3>2
  <2> QED
    BY <2>1, <2>2, RoundedIsBounded
<1>5. \/ taxes = none
      \/ /\ ~inclusive
         /\ taxes = [r \in D |-> DivideRounded(base * rates[r], 1000000, "half-even")]
      \/ all > 0 /\ taxes = Allocate(amount, rates)
  BY <1>2, <1>4 DEF TaxFor
<1>6. CASE taxes = none
  BY <1>3, <1>6
<1>7. CASE /\ ~inclusive
           /\ taxes = [r \in D |-> DivideRounded(base * rates[r], 1000000, "half-even")]
  <2>1. \A r \in D : DivideRounded(base * rates[r], 1000000, "half-even") \in Nat
    <3> TAKE r \in D
    <3>1. base * rates[r] \in Nat /\ 1000000 \in Nat \ {0}
      BY <1>1, Products
    <3> QED
      BY <3>1, RoundedIsBounded
  <2>2. taxes \in [D -> Nat]
    BY <1>7, <2>1
  <2>3. SumFunction(taxes) \in Nat
    <3> HIDE DEF taxes, D
    <3>1. SumFunctionOnSet(taxes, D) \in Nat
      BY <1>1, <2>2, SumIsNat
    <3> QED
      BY <2>2, <3>1 DEF SumFunction
  <2> QED
    BY <1>7, <2>2, <2>3
<1>8. CASE all > 0 /\ taxes = Allocate(amount, rates)
  <2> HIDE DEF D
  <2>1. /\ Allocate(amount, rates) \in [D -> Nat]
        /\ SumFunction(Allocate(amount, rates)) = amount
    BY <1>1, <1>2, <1>8, AllocateAddsUp
  <2> HIDE DEF taxes
  <2>2. taxes \in [D -> Nat] /\ SumFunction(taxes) = amount
    BY <1>8, <2>1
  <2> QED
    BY <1>4, <2>2 DEF taxes, D
<1> QED
  BY <1>5, <1>6, <1>7, <1>8

\* The terms of a discount.
Terms == [bps : 0 .. Whole, off : Nat, least : Nat, usable : BOOLEAN]

\* A discount takes no more off than there is.
LEMMA DiscountIsBounded ==
  ASSUME NEW d \in Terms, NEW subtotal \in Nat
  PROVE  DiscountAmount(d, subtotal) \in Nat /\ DiscountAmount(d, subtotal) <= subtotal
<1>1. subtotal * d.bps \in Nat /\ Whole \in Nat \ {0} /\ d.off \in Nat /\ d.bps \in Nat
  <2>1. d.off \in Nat /\ d.bps \in Nat
    BY DEF Terms
  <2>2. Whole \in Nat \ {0}
    BY DEF Whole
  <2> QED
    BY <2>1, <2>2, Products
<1>2. DivideRounded(subtotal * d.bps, Whole, "half-up") \in Nat
  BY <1>1, RoundedIsBounded
<1> QED
  BY <1>1, <1>2 DEF DiscountAmount

\* The discounts of the lines add up to the whole one, and each leaves its line an amount.
LEMMA LineDiscountsAddUp ==
  ASSUME NEW D, IsFiniteSet(D), Numbered(D), NEW subtotals \in [D -> Nat],
         NEW discount \in Nat, discount <= SumFunction(subtotals)
  PROVE  LET off == LineDiscounts(discount, subtotals) IN
         /\ off \in [D -> Nat] /\ SumFunction(off) = discount
         /\ \A i \in D : off[i] <= subtotals[i]
<1> DEFINE off == LineDiscounts(discount, subtotals)
<1>1. SumFunction(subtotals) \in Nat
  <2>1. SumFunctionOnSet(subtotals, D) \in Nat
    BY SumIsNat
  <2> QED
    BY <2>1 DEF SumFunction
<1>2. CASE discount > 0
  <2>1. /\ Allocate(discount, subtotals) \in [D -> Nat]
        /\ SumFunction(Allocate(discount, subtotals)) = discount
        /\ \A i \in D : Allocate(discount, subtotals)[i] <= subtotals[i]
    BY <1>1, <1>2, AllocateAddsUp
  <2>2. off = Allocate(discount, subtotals)
    BY <1>2 DEF LineDiscounts
  <2> QED
    BY <2>1, <2>2
<1>3. CASE discount = 0
  <2>1. off = [i \in D |-> 0]
    BY <1>3 DEF LineDiscounts
  <2>2. SumFunction(off) = 0
    BY <2>1, SumOfZeros
  <2> QED
    BY <1>3, <2>1, <2>2
<1> QED
  BY <1>2, <1>3

-----------------------------------------------------------------------------
(* A quote, by its parts.                                                  *)

Line == [unit : Nat, quantity : Nat \ {0},
         taxable : BOOLEAN, ships : BOOLEAN, available : BOOLEAN]

\* A line costs its subtotal without its discount, and its taxes where they come on top.
IsPrice(q, line, discount, rates, inclusive) ==
  /\ q.subtotal = line.unit * line.quantity /\ q.subtotal \in Nat
  /\ q.discount = discount
  /\ q.taxes \in [DOMAIN rates -> Nat]
  /\ q.tax = SumFunction(q.taxes) /\ q.tax \in Nat
  /\ q.total = q.subtotal - discount + (IF inclusive THEN 0 ELSE q.tax)
  /\ q.total \in Nat
  /\ inclusive => q.tax <= q.total

LEMMA LineIsPriced ==
  ASSUME NEW line \in Line, NEW discount \in Nat, discount <= line.unit * line.quantity,
         NEW rates \in Seq(Nat), NEW inclusive \in BOOLEAN
  PROVE  IsPrice(QuoteLine(line, discount, rates, inclusive), line, discount, rates, inclusive)
<1>1. PICK subtotal \in Nat : subtotal = line.unit * line.quantity
  <2>1. line.unit \in Nat /\ line.quantity \in Nat
    BY DEF Line
  <2> QED
    BY <2>1, Products
<1>2. PICK base \in Nat : base = subtotal - discount
  BY <1>1
<1>3. PICK taxes \in [DOMAIN rates -> Nat] :
        /\ taxes = IF line.taxable THEN TaxFor(base, rates, inclusive)
                   ELSE [r \in DOMAIN rates |-> 0]
        /\ SumFunction(taxes) \in Nat
        /\ inclusive => SumFunction(taxes) <= base
  <2>1. /\ TaxFor(base, rates, inclusive) \in [DOMAIN rates -> Nat]
        /\ SumFunction(TaxFor(base, rates, inclusive)) \in Nat
        /\ inclusive => SumFunction(TaxFor(base, rates, inclusive)) <= base
    BY TaxIsBounded
  <2>2. SumFunction([r \in DOMAIN rates |-> 0]) = 0
    BY RatesAreNumbered, SumOfZeros
  <2>3. [r \in DOMAIN rates |-> 0] \in [DOMAIN rates -> Nat]
    OBVIOUS
  <2>4. CASE line.taxable
    BY <2>1, <2>4
  <2>5. CASE ~line.taxable
    BY <2>2, <2>3, <2>5
  <2> QED
    BY <2>4, <2>5
<1>4. QuoteLine(line, discount, rates, inclusive)
        = [subtotal |-> subtotal, discount |-> discount, taxes |-> taxes,
           tax |-> SumFunction(taxes),
           total |-> base + (IF inclusive THEN 0 ELSE SumFunction(taxes))]
  BY <1>1, <1>2, <1>3 DEF QuoteLine
<1> QED
  BY <1>1, <1>2, <1>3, <1>4 DEF IsPrice

KeptLines(b) == {i \in DOMAIN b.lines : b.lines[i].available}
Priced(b) == [i \in KeptLines(b) |-> b.lines[i]]
Subtotals(b) == [i \in KeptLines(b) |-> Priced(b)[i].unit * Priced(b)[i].quantity]
Discount(b) == DiscountAmount(b.discount, SumFunction(Subtotals(b)))
Off(b) == LineDiscounts(Discount(b), Subtotals(b))
Merchandise(b) == SumFunction(Subtotals(b)) - Discount(b)
Rates(b) == IF b.address THEN b.rates ELSE <<>>
Lines(b) == [i \in KeptLines(b) |-> QuoteLine(Priced(b)[i], Off(b)[i], Rates(b), b.inclusive)]
MustShip(b) == \E i \in KeptLines(b) : Priced(b)[i].ships
Shipped(b) ==
  /\ /\ MustShip(b) /\ b.address /\ b.rate.covers
     /\ b.rate.least <= Merchandise(b) /\ Merchandise(b) <= b.rate.most
  /\ b.chosen
Shipping(b) == IF Shipped(b) THEN b.rate.amount ELSE 0
ShippingTaxes(b) ==
  IF Shipped(b) /\ b.shippingTaxed THEN TaxFor(Shipping(b), Rates(b), b.inclusive)
  ELSE [r \in DOMAIN Rates(b) |-> 0]
TaxTotal(b) ==
  SumFunction([i \in KeptLines(b) |-> Lines(b)[i].tax]) + SumFunction(ShippingTaxes(b))
Total(b) == Merchandise(b) + Shipping(b) + (IF b.inclusive THEN 0 ELSE TaxTotal(b))

\* A quote is made of those parts.
LEMMA QuoteOfABasket ==
  ASSUME NEW b
  PROVE  PriceCheckout(b) =
    [lines |-> Lines(b), subtotal |-> SumFunction(Subtotals(b)), discount |-> Discount(b),
     shipping |-> Shipping(b), shippingTax |-> SumFunction(ShippingTaxes(b)),
     taxTotal |-> TaxTotal(b),
     taxes |-> [r \in DOMAIN Rates(b) |->
                  SumFunction([i \in KeptLines(b) |-> Lines(b)[i].taxes[r]]) + ShippingTaxes(b)[r]],
     total |-> Total(b),
     problem |-> \/ b.lines = <<>> \/ KeptLines(b) # DOMAIN b.lines \/ ~b.email \/ ~b.address
                 \/ MustShip(b) /\ ~Shipped(b)
                 \/ DiscountProblem(b.discount, SumFunction(Subtotals(b)))
                 \/ b.lines # <<>> /\ Total(b) <= 0]
BY DEF PriceCheckout, Lines, Subtotals, Discount, Shipping, ShippingTaxes, TaxTotal, Rates,
       KeptLines, Priced, Off, Merchandise, MustShip, Shipped, Total

\* What a basket holds, line by line.
LEMMA BasketIsTyped ==
  ASSUME NEW b \in Basket
  PROVE  /\ IsFiniteSet(KeptLines(b)) /\ Numbered(KeptLines(b))
         /\ \A i \in KeptLines(b) : Priced(b)[i] \in Line
         /\ Subtotals(b) \in [KeptLines(b) -> Nat]
         /\ \A i \in KeptLines(b) : Subtotals(b)[i] = Priced(b)[i].unit * Priced(b)[i].quantity
         /\ b.discount \in Terms
         /\ Rates(b) \in Seq(Nat) /\ b.inclusive \in BOOLEAN /\ b.rate.amount \in Nat
<1>1. /\ b.lines \in Seq(Line) /\ b.rates \in Seq(Nat)
      /\ b.discount \in Terms
      /\ b.inclusive \in BOOLEAN
      /\ b.rate \in [amount : Nat, covers : BOOLEAN, least : Nat, most : Nat]
  <2>1. b.lines \in Seq(Line) /\ b.rates \in Seq(Nat)
    BY DEF Basket, Line
  <2>2. b.discount \in Terms
    BY DEF Basket, Terms
  <2>3. b.inclusive \in BOOLEAN /\ b.rate \in [amount : Nat, covers : BOOLEAN, least : Nat, most : Nat]
    BY DEF Basket
  <2> QED
    BY <2>1, <2>2, <2>3
<1>2. PICK n \in Nat : DOMAIN b.lines = 1 .. n /\ \A i \in 1 .. n : b.lines[i] \in Line
  <2>1. /\ Len(b.lines) \in Nat /\ DOMAIN b.lines = 1 .. Len(b.lines)
        /\ \A i \in 1 .. Len(b.lines) : b.lines[i] \in Line
    BY <1>1
  <2> QED
    BY <2>1
<1>3. IsFiniteSet(KeptLines(b)) /\ Numbered(KeptLines(b))
  <2>1. IsFiniteSet(1 .. n) /\ KeptLines(b) \subseteq 1 .. n
    BY <1>2, FS_Interval DEF KeptLines
  <2> QED
    BY <2>1, FS_Subset DEF Numbered
<1>4. \A i \in KeptLines(b) : Priced(b)[i] \in Line
  BY <1>2 DEF Priced, KeptLines
<1>5. \A i \in KeptLines(b) : Priced(b)[i].unit * Priced(b)[i].quantity \in Nat
  <2> TAKE i \in KeptLines(b)
  <2>1. Priced(b)[i].unit \in Nat /\ Priced(b)[i].quantity \in Nat
    BY <1>4 DEF Line
  <2> QED
    BY <2>1, Products
<1>6. /\ Subtotals(b) \in [KeptLines(b) -> Nat]
      /\ \A i \in KeptLines(b) : Subtotals(b)[i] = Priced(b)[i].unit * Priced(b)[i].quantity
  BY <1>5 DEF Subtotals
<1>7. Rates(b) \in Seq(Nat)
  BY <1>1 DEF Rates
<1>8. b.rate.amount \in Nat
  BY <1>1
<1>9. /\ b.discount \in Terms
      /\ b.inclusive \in BOOLEAN
  BY <1>1
<1> QED
  BY <1>3, <1>4, <1>6, <1>7, <1>8, <1>9

\* The amounts of a whole basket.
LEMMA BasketIsPriced ==
  ASSUME NEW b \in Basket
  PROVE  /\ SumFunction(Subtotals(b)) \in Nat
         /\ Discount(b) \in Nat /\ Discount(b) <= SumFunction(Subtotals(b))
         /\ Off(b) \in [KeptLines(b) -> Nat] /\ SumFunction(Off(b)) = Discount(b)
         /\ \A i \in KeptLines(b) : Off(b)[i] <= Subtotals(b)[i]
         /\ Merchandise(b) \in Nat /\ Shipping(b) \in Nat
         /\ ShippingTaxes(b) \in [DOMAIN Rates(b) -> Nat]
         /\ SumFunction(ShippingTaxes(b)) \in Nat
<1> DEFINE D == KeptLines(b)
<1>1. /\ IsFiniteSet(D) /\ Numbered(D) /\ Subtotals(b) \in [D -> Nat]
      /\ b.discount \in Terms /\ Rates(b) \in Seq(Nat) /\ b.inclusive \in BOOLEAN
      /\ b.rate.amount \in Nat
  BY BasketIsTyped
<1> HIDE DEF D
<1>2. SumFunction(Subtotals(b)) \in Nat
  <2>1. SumFunctionOnSet(Subtotals(b), D) \in Nat
    BY <1>1, SumIsNat
  <2> QED
    BY <1>1, <2>1 DEF SumFunction
<1>3. Discount(b) \in Nat /\ Discount(b) <= SumFunction(Subtotals(b))
  BY <1>1, <1>2, DiscountIsBounded DEF Discount
<1>4. /\ Off(b) \in [D -> Nat] /\ SumFunction(Off(b)) = Discount(b)
      /\ \A i \in D : Off(b)[i] <= Subtotals(b)[i]
  BY <1>1, <1>3, LineDiscountsAddUp DEF Off
<1>5. Merchandise(b) \in Nat /\ Shipping(b) \in Nat
  BY <1>1, <1>2, <1>3 DEF Merchandise, Shipping
<1>6. /\ ShippingTaxes(b) \in [DOMAIN Rates(b) -> Nat]
      /\ SumFunction(ShippingTaxes(b)) \in Nat
  <2>1. CASE Shipped(b) /\ b.shippingTaxed
    <3>1. ShippingTaxes(b) = TaxFor(Shipping(b), Rates(b), b.inclusive)
      BY <2>1 DEF ShippingTaxes
    <3> QED
      BY <1>1, <1>5, <3>1, TaxIsBounded
  <2>2. CASE ~(Shipped(b) /\ b.shippingTaxed)
    <3>1. ShippingTaxes(b) = [r \in DOMAIN Rates(b) |-> 0]
      BY <2>2 DEF ShippingTaxes
    <3>2. SumFunction([r \in DOMAIN Rates(b) |-> 0]) = 0
      BY <1>1, RatesAreNumbered, SumOfZeros
    <3> QED
      BY <3>1, <3>2
  <2> QED
    BY <2>1, <2>2
<1> QED
  BY <1>2, <1>3, <1>4, <1>5, <1>6 DEF D

\* The amounts of each line of a quote.
LEMMA LinesArePriced ==
  ASSUME NEW b \in Basket, NEW i \in KeptLines(b)
  PROVE  LET line == Lines(b)[i] IN
         /\ line.subtotal = Subtotals(b)[i] /\ line.subtotal \in Nat
         /\ line.discount = Off(b)[i] /\ line.discount \in Nat
         /\ line.discount <= line.subtotal
         /\ line.taxes \in [DOMAIN Rates(b) -> Nat]
         /\ line.tax = SumFunction(line.taxes) /\ line.tax \in Nat
         /\ line.total = line.subtotal - line.discount + (IF b.inclusive THEN 0 ELSE line.tax)
         /\ line.total \in Nat
         /\ b.inclusive => line.tax <= line.total
<1> DEFINE line == Lines(b)[i]
<1>1. line = QuoteLine(Priced(b)[i], Off(b)[i], Rates(b), b.inclusive)
  BY DEF Lines
<1>2. /\ Priced(b)[i] \in Line /\ Rates(b) \in Seq(Nat) /\ b.inclusive \in BOOLEAN
      /\ Subtotals(b)[i] = Priced(b)[i].unit * Priced(b)[i].quantity
  BY BasketIsTyped
<1>3. Off(b)[i] \in Nat /\ Off(b)[i] <= Subtotals(b)[i]
  BY BasketIsPriced
<1>4. PICK p \in Line, off \in Nat, rates \in Seq(Nat), inclusive \in BOOLEAN :
        /\ p = Priced(b)[i] /\ off = Off(b)[i] /\ rates = Rates(b) /\ inclusive = b.inclusive
        /\ off <= p.unit * p.quantity
  BY <1>2, <1>3
<1>5. IsPrice(QuoteLine(p, off, rates, inclusive), p, off, rates, inclusive)
  BY <1>4, LineIsPriced
<1>6. line = QuoteLine(p, off, rates, inclusive)
  BY <1>1, <1>4
<1> HIDE DEF line
<1>7. /\ line.subtotal = p.unit * p.quantity /\ line.subtotal \in Nat
      /\ line.discount = off
      /\ line.taxes \in [DOMAIN rates -> Nat]
      /\ line.tax = SumFunction(line.taxes) /\ line.tax \in Nat
      /\ line.total = line.subtotal - off + (IF inclusive THEN 0 ELSE line.tax)
      /\ line.total \in Nat
      /\ inclusive => line.tax <= line.total
  BY <1>5, <1>6 DEF IsPrice
<1>8. line.subtotal = Subtotals(b)[i] /\ line.discount <= line.subtotal
  BY <1>2, <1>4, <1>7
<1> QED
  BY <1>4, <1>7, <1>8 DEF line

\* What each rate took, of the lines and of the shipping.
TaxesByRate(b) ==
  [r \in DOMAIN Rates(b) |->
     SumFunction([i \in KeptLines(b) |-> Lines(b)[i].taxes[r]]) + ShippingTaxes(b)[r]]

\* The lines of a quote hold its discount, its merchandise and their taxes.
LEMMA LinesAddUp ==
  ASSUME NEW b \in Basket, NEW tax, NEW total, NEW discount,
         tax = [i \in KeptLines(b) |-> Lines(b)[i].tax],
         total = [i \in KeptLines(b) |-> Lines(b)[i].total],
         discount = [i \in KeptLines(b) |-> Lines(b)[i].discount]
  PROVE  /\ SumFunction(discount) = Discount(b)
         /\ SumFunction(tax) \in Nat
         /\ SumFunction(total)
              = Merchandise(b) + (IF b.inclusive THEN 0 ELSE SumFunction(tax))
<1>1. PICK D : D = KeptLines(b) /\ IsFiniteSet(D) /\ Subtotals(b) \in [D -> Nat]
  BY BasketIsTyped
<1> DEFINE Sum(f) == SumFunctionOnSet(f, D)
<1>2. PICK sub, off : /\ sub = Subtotals(b) /\ off = Off(b)
                      /\ sub \in [D -> Nat] /\ off \in [D -> Nat]
                      /\ Sum(sub) = SumFunction(Subtotals(b)) /\ Sum(off) = Discount(b)
  <2>1. Off(b) \in [D -> Nat] /\ SumFunction(Off(b)) = Discount(b)
    BY <1>1, BasketIsPriced
  <2> QED
    BY <1>1, <2>1 DEF SumFunction
<1>3. Merchandise(b) = Sum(sub) - Sum(off)
  BY <1>2 DEF Merchandise
<1>4. /\ DOMAIN tax = D /\ DOMAIN total = D /\ DOMAIN discount = D
      /\ \A i \in D : /\ discount[i] = off[i] /\ tax[i] \in Nat /\ total[i] \in Nat
                      /\ total[i] = sub[i] - off[i] + (IF b.inclusive THEN 0 ELSE tax[i])
  <2> SUFFICES ASSUME NEW i \in D
               PROVE  /\ discount[i] = off[i] /\ tax[i] \in Nat /\ total[i] \in Nat
                      /\ total[i] = sub[i] - off[i] + (IF b.inclusive THEN 0 ELSE tax[i])
    BY <1>1
  <2>1. i \in KeptLines(b)
    BY <1>1
  <2>2. PICK line : /\ line = Lines(b)[i]
                    /\ line.subtotal = sub[i] /\ line.discount = off[i]
                    /\ line.tax \in Nat /\ line.total \in Nat
                    /\ line.total = line.subtotal - line.discount
                                      + (IF b.inclusive THEN 0 ELSE line.tax)
    BY <1>2, <2>1, LinesArePriced
  <2>3. tax[i] = line.tax /\ total[i] = line.total /\ discount[i] = line.discount
    BY <2>1, <2>2
  <2> QED
    BY <2>2, <2>3
<1>5. Sum(tax) \in Nat /\ Sum(sub) \in Nat /\ Sum(off) \in Nat /\ Sum(total) \in Nat
  <2>1. \A f : (\A i \in D : f[i] \in Nat) => Sum(f) \in Nat
    BY <1>1, SumIsNat
  <2> QED
    BY <1>2, <1>4, <2>1
<1>6. SumFunction(discount) = Discount(b)
  <2>1. \A i \in D : discount[i] = off[i]
    BY <1>4
  <2>2. Sum(discount) = Sum(off)
    BY <1>1, <2>1, SumOfSame
  <2> QED
    BY <1>2, <1>4, <2>2 DEF SumFunction
<1>7. Sum(total) = Merchandise(b) + (IF b.inclusive THEN 0 ELSE Sum(tax))
  <2> DEFINE net == [i \in D |-> sub[i] - off[i]]
  <2>1. /\ \A i \in D : net[i] \in Int /\ off[i] \in Int /\ sub[i] = net[i] + off[i]
        /\ \A i \in D : net[i] \in Int /\ total[i] = net[i] + (IF b.inclusive THEN 0 ELSE tax[i])
    BY <1>2, <1>4
  <2> HIDE DEF net
  <2>2. Sum(sub) = Sum(net) + Sum(off)
    BY <1>1, <2>1, SumOfSums
  <2>3. Sum(net) \in Int
    BY <1>1, <2>1, SumIsInt
  <2>4. Sum(net) = Merchandise(b)
    <3> HIDE DEF Sum
    <3> QED
      BY <1>3, <1>5, <2>2, <2>3
  <2>5. CASE b.inclusive
    <3>1. \A i \in D : total[i] = net[i]
      BY <1>4, <2>1, <2>5
    <3>2. Sum(total) = Sum(net)
      BY <1>1, <3>1, SumOfSame
    <3> HIDE DEF Sum
    <3> QED
      BY <1>5, <2>4, <2>5, <3>2
  <2>6. CASE ~b.inclusive
    <3>1. \A i \in D : net[i] \in Int /\ tax[i] \in Int /\ total[i] = net[i] + tax[i]
      BY <1>4, <2>1, <2>6
    <3>2. Sum(total) = Sum(net) + Sum(tax)
      BY <1>1, <3>1, SumOfSums
    <3> QED
      BY <2>4, <2>6, <3>2
  <2> QED
    BY <2>5, <2>6
<1> QED
  BY <1>4, <1>5, <1>6, <1>7 DEF SumFunction

\* The taxes of a quote by rate, and by line, are the same amount.
LEMMA TaxesAddUp ==
  ASSUME NEW b \in Basket
  PROVE  /\ TaxesByRate(b) \in Seq(Nat)
         /\ TaxTotal(b) \in Nat
         /\ TaxTotal(b) = SumFunction(TaxesByRate(b))
<1>1. PICK D : D = KeptLines(b) /\ IsFiniteSet(D)
  BY BasketIsTyped
<1>2. PICK R : R = DOMAIN Rates(b) /\ IsFiniteSet(R)
  BY BasketIsTyped, RatesAreNumbered
<1>3. PICK taxes : taxes = [i \in D |-> Lines(b)[i].taxes]
  OBVIOUS
<1>4. \A i \in D : \A r \in R : taxes[i][r] \in Nat
  <2>1. \A i \in D : Lines(b)[i].taxes \in [R -> Nat]
    BY <1>1, <1>2, LinesArePriced
  <2> QED
    BY <1>3, <2>1
<1>5. PICK tax : tax = [i \in D |-> Lines(b)[i].tax]
  OBVIOUS
<1>6. \A i \in D : tax[i] = SumFunctionOnSet(taxes[i], R)
  <2> SUFFICES ASSUME NEW i \in D
               PROVE  Lines(b)[i].tax = SumFunctionOnSet(taxes[i], R)
    BY <1>5
  <2>1. PICK line : /\ line = Lines(b)[i] /\ line.taxes \in [R -> Nat]
                    /\ line.tax = SumFunction(line.taxes)
    BY <1>1, <1>2, LinesArePriced
  <2>2. taxes[i] = line.taxes /\ DOMAIN taxes[i] = R
    BY <1>3, <2>1
  <2> QED
    BY <2>1, <2>2 DEF SumFunction
<1>7. PICK ship : ship = ShippingTaxes(b) /\ ship \in [R -> Nat]
  BY <1>2, BasketIsPriced
<1>8. PICK byRate : byRate = [r \in R |-> SumFunctionOnSet([i \in D |-> taxes[i][r]], D)]
  OBVIOUS
<1>9. \A r \in R : byRate[r] \in Nat
  <2> SUFFICES ASSUME NEW r \in R
               PROVE  SumFunctionOnSet([i \in D |-> taxes[i][r]], D) \in Nat
    BY <1>8
  <2> DEFINE column == [i \in D |-> taxes[i][r]]
  <2>1. \A i \in D : column[i] \in Nat
    BY <1>4
  <2> HIDE DEF column
  <2>2. SumFunctionOnSet(column, D) \in Nat
    BY <1>1, <2>1, SumIsNat
  <2> QED
    BY <2>2 DEF column
<1>10. /\ DOMAIN TaxesByRate(b) = R
      /\ \A r \in R : /\ TaxesByRate(b)[r] = byRate[r] + ship[r]
                      /\ TaxesByRate(b)[r] \in Nat
  <2>1. DOMAIN TaxesByRate(b) = R
    BY <1>2 DEF TaxesByRate
  <2>2. ASSUME NEW r \in R
        PROVE  TaxesByRate(b)[r] = byRate[r] + ship[r]
    <3> DEFINE column == [i \in D |-> taxes[i][r]]
    <3>1. [i \in KeptLines(b) |-> Lines(b)[i].taxes[r]] = column
      BY <1>1, <1>3
    <3>2. SumFunction(column) = SumFunctionOnSet(column, D)
      BY DEF SumFunction
    <3>3. byRate[r] = SumFunctionOnSet(column, D)
      BY <1>8
    <3> HIDE DEF column
    <3>4. TaxesByRate(b)[r] = SumFunction(column) + ShippingTaxes(b)[r]
      BY <1>2, <3>1 DEF TaxesByRate
    <3> QED
      BY <1>7, <3>2, <3>3, <3>4
  <2>3. \A r \in R : byRate[r] + ship[r] \in Nat
    BY <1>7, <1>9
  <2> QED
    BY <2>1, <2>2, <2>3
<1>11. SumFunctionOnSet(byRate, R) = SumFunctionOnSet(tax, D)
  <2>1. \A i \in D : \A r \in R : taxes[i][r] \in Int
    BY <1>4
  <2>2. SumFunctionOnSet([r \in R |-> SumFunctionOnSet([i \in D |-> taxes[i][r]], D)], R)
          = SumFunctionOnSet([i \in D |-> SumFunctionOnSet(taxes[i], R)], D)
    BY <1>1, <1>2, <2>1, SumByColumns
  <2>3. [i \in D |-> SumFunctionOnSet(taxes[i], R)] = tax
    BY <1>5, <1>6
  <2> QED
    BY <1>8, <2>2, <2>3
<1>12. SumFunctionOnSet(TaxesByRate(b), R)
        = SumFunctionOnSet(byRate, R) + SumFunctionOnSet(ship, R)
  <2>1. \A r \in R : /\ byRate[r] \in Int /\ ship[r] \in Int
                     /\ TaxesByRate(b)[r] = byRate[r] + ship[r]
    BY <1>7, <1>9, <1>10
  <2> QED
    BY <1>2, <2>1, SumOfSums
<1>13. TaxTotal(b) = SumFunctionOnSet(tax, D) + SumFunctionOnSet(ship, R)
  BY <1>1, <1>5, <1>7 DEF TaxTotal, SumFunction
<1>14. SumFunctionOnSet(byRate, R) \in Nat /\ SumFunctionOnSet(ship, R) \in Nat
  <2>1. \A r \in R : byRate[r] \in Nat /\ ship[r] \in Nat
    BY <1>7, <1>9
  <2> QED
    BY <1>2, <2>1, SumIsNat
<1>15. TaxesByRate(b) \in Seq(Nat)
  <2>1. PICK n \in Nat : R = 1 .. n
    <3>1. Rates(b) \in Seq(Nat)
      BY BasketIsTyped
    <3>2. Len(Rates(b)) \in Nat /\ DOMAIN Rates(b) = 1 .. Len(Rates(b))
      BY <3>1
    <3> QED
      BY <1>2, <3>2
  <2>2. PICK t : t = TaxesByRate(b)
    OBVIOUS
  <2>3. t = [r \in 1 .. n |-> t[r]] /\ \A r \in 1 .. n : t[r] \in Nat
    <3>1. t = [r \in DOMAIN t |-> t[r]]
      BY <2>2 DEF TaxesByRate
    <3> QED
      BY <1>10, <2>1, <2>2, <3>1
  <2> QED
    BY <2>2, <2>3
<1> QED
  BY <1>10, <1>11, <1>12, <1>13, <1>14, <1>15 DEF SumFunction

-----------------------------------------------------------------------------
(* What a checkout is charged.                                             *)

QuoteInv == basket \in Baskets /\ (quote # NoQuote => quote = PriceCheckout(basket))

\* Whatever has been quoted is the price of the basket.
THEOREM PricingInvariance == PricingSpec => []QuoteInv
<1>1. PricingInit => QuoteInv
  BY DEF PricingInit, QuoteInv
<1>2. QuoteInv /\ [PricingNext]_pricingVars => QuoteInv'
  BY DEF QuoteInv, PricingNext, pricingVars
<1> QED
  BY <1>1, <1>2, PTL DEF PricingSpec

\* The amounts of a quote are amounts.
LEMMA QuoteIsTyped ==
  ASSUME NEW b \in Basket
  PROVE  LET q == PriceCheckout(b) IN
         /\ {q.subtotal, q.discount, q.shipping, q.shippingTax,
             q.taxTotal, q.total} \subseteq Nat
         /\ q.taxes \in Seq(Nat)
         /\ q.problem \in BOOLEAN
<1> DEFINE q == PriceCheckout(b)
<1>1. /\ SumFunction(Subtotals(b)) \in Nat /\ Discount(b) \in Nat /\ Shipping(b) \in Nat
      /\ Merchandise(b) \in Nat /\ SumFunction(ShippingTaxes(b)) \in Nat
  BY BasketIsPriced
<1>2. TaxTotal(b) \in Nat /\ TaxesByRate(b) \in Seq(Nat)
  BY TaxesAddUp
<1>3. Total(b) \in Nat
  <2>1. b.inclusive \in BOOLEAN
    BY BasketIsTyped
  <2> QED
    BY <1>1, <1>2, <2>1 DEF Total
<1>4. /\ q.subtotal = SumFunction(Subtotals(b)) /\ q.discount = Discount(b)
      /\ q.shipping = Shipping(b) /\ q.shippingTax = SumFunction(ShippingTaxes(b))
      /\ q.taxTotal = TaxTotal(b) /\ q.taxes = TaxesByRate(b) /\ q.total = Total(b)
      /\ q.problem \in BOOLEAN
  BY QuoteOfABasket DEF TaxesByRate
<1> HIDE DEF q
<1> QED
  BY <1>1, <1>2, <1>3, <1>4 DEF q

\* Every amount of a quote is a whole number of minor units, none of them negative, for
\* any baskets.
THEOREM PricingTypeCorrectness ==
  PricingSpec => []PricingTypeOK
<1>1. QuoteInv => PricingTypeOK
  <2> SUFFICES ASSUME QuoteInv PROVE PricingTypeOK
    OBVIOUS
  <2>1. basket \in Baskets /\ basket \in Basket
    BY BasketsAssumption DEF QuoteInv
  <2>2. CASE quote = NoQuote
    BY <2>1, <2>2 DEF PricingTypeOK
  <2>3. CASE quote # NoQuote
    <3>1. quote = PriceCheckout(basket)
      BY <2>3 DEF QuoteInv
    <3> QED
      BY <2>1, <3>1, QuoteIsTyped DEF PricingTypeOK
  <2> QED
    BY <2>2, <2>3
<1> QED
  BY <1>1, PricingInvariance, PTL

\* The amounts of a quote, against its lines.
LEMMA QuoteOfItsLines ==
  ASSUME NEW b \in Basket, NEW q, q = PriceCheckout(b)
  PROVE  LET total == [i \in DOMAIN q.lines |-> q.lines[i].total]
             discount == [i \in DOMAIN q.lines |-> q.lines[i].discount] IN
         /\ q.total = SumFunction(total) + q.shipping
                        + (IF b.inclusive THEN 0 ELSE q.shippingTax)
         /\ q.discount = SumFunction(discount)
         /\ q.taxTotal = SumFunction(q.taxes)
         /\ \A i \in DOMAIN q.lines :
              /\ 0 <= q.lines[i].discount /\ q.lines[i].discount <= q.lines[i].subtotal
              /\ b.inclusive => q.lines[i].tax <= q.lines[i].total
         /\ ~q.problem => q.total > 0
<1> DEFINE total == [i \in DOMAIN q.lines |-> q.lines[i].total]
           discount == [i \in DOMAIN q.lines |-> q.lines[i].discount]
           tax == [i \in DOMAIN q.lines |-> q.lines[i].tax]
<1>1. /\ q.lines = Lines(b) /\ q.discount = Discount(b) /\ q.shipping = Shipping(b)
      /\ q.shippingTax = SumFunction(ShippingTaxes(b)) /\ q.taxTotal = TaxTotal(b)
      /\ q.taxes = TaxesByRate(b) /\ q.total = Total(b)
      /\ q.problem <=> \/ b.lines = <<>> \/ KeptLines(b) # DOMAIN b.lines \/ ~b.email \/ ~b.address
                       \/ MustShip(b) /\ ~Shipped(b)
                       \/ DiscountProblem(b.discount, SumFunction(Subtotals(b)))
                       \/ b.lines # <<>> /\ Total(b) <= 0
  BY QuoteOfABasket DEF TaxesByRate
<1>2. DOMAIN q.lines = KeptLines(b)
  BY <1>1 DEF Lines
<1>3. /\ SumFunction(discount) = Discount(b)
      /\ SumFunction(tax) \in Nat
      /\ SumFunction(total) = Merchandise(b) + (IF b.inclusive THEN 0 ELSE SumFunction(tax))
  <2>1. /\ total = [i \in KeptLines(b) |-> Lines(b)[i].total]
        /\ discount = [i \in KeptLines(b) |-> Lines(b)[i].discount]
        /\ tax = [i \in KeptLines(b) |-> Lines(b)[i].tax]
    BY <1>1, <1>2
  <2> HIDE DEF total, discount, tax
  <2> QED
    BY <2>1, LinesAddUp
<1>4. q.total = SumFunction(total) + q.shipping + (IF b.inclusive THEN 0 ELSE q.shippingTax)
  <2>1. TaxTotal(b) = SumFunction(tax) + SumFunction(ShippingTaxes(b))
    <3>1. tax = [i \in KeptLines(b) |-> Lines(b)[i].tax]
      BY <1>1, <1>2
    <3> QED
      BY <3>1 DEF TaxTotal
  <2>2. /\ Merchandise(b) \in Nat /\ Shipping(b) \in Nat
        /\ SumFunction(ShippingTaxes(b)) \in Nat
    BY BasketIsPriced
  <2> HIDE DEF total, tax
  <2>3. CASE b.inclusive
    <3>1. Total(b) = Merchandise(b) + Shipping(b) /\ SumFunction(total) = Merchandise(b)
      BY <1>3, <2>2, <2>3 DEF Total
    <3> QED
      BY <1>1, <2>2, <2>3, <3>1
  <2>4. CASE ~b.inclusive
    <3>1. Total(b) = Merchandise(b) + Shipping(b) + TaxTotal(b)
      BY <2>4 DEF Total
    <3>2. SumFunction(total) = Merchandise(b) + SumFunction(tax)
      BY <1>3, <2>4
    <3> QED
      BY <1>1, <1>3, <2>1, <2>2, <2>4, <3>1, <3>2
  <2> QED
    BY <2>3, <2>4
<1>5. q.discount = SumFunction(discount) /\ q.taxTotal = SumFunction(q.taxes)
  BY <1>1, <1>3, TaxesAddUp
<1>6. ASSUME NEW i \in DOMAIN q.lines
      PROVE  /\ 0 <= q.lines[i].discount /\ q.lines[i].discount <= q.lines[i].subtotal
             /\ b.inclusive => q.lines[i].tax <= q.lines[i].total
  <2>1. PICK line : /\ line = Lines(b)[i]
                    /\ line.discount \in Nat /\ line.discount <= line.subtotal
                    /\ b.inclusive => line.tax <= line.total
    BY <1>2, LinesArePriced
  <2> QED
    BY <1>1, <2>1
<1>7. ~q.problem => q.total > 0
  <2>1. Total(b) \in Nat
    BY <1>1, QuoteIsTyped
  <2> QED
    BY <1>1, <2>1
<1> HIDE DEF total, discount
<1> QED
  BY <1>4, <1>5, <1>6, <1>7 DEF total, discount

\* What a shopper is charged is what the lines and the shipping say, for any number of
\* lines, rates and prices.
THEOREM QuotesAddUp ==
  PricingSpec => []QuoteAddsUp
<1>1. QuoteInv => QuoteAddsUp
  <2> SUFFICES ASSUME QuoteInv, quote # NoQuote PROVE QuoteAddsUp
    BY DEF QuoteAddsUp
  <2>1. basket \in Basket /\ quote = PriceCheckout(basket)
    BY BasketsAssumption DEF QuoteInv
  <2>2. LET total == [i \in DOMAIN quote.lines |-> quote.lines[i].total]
            discount == [i \in DOMAIN quote.lines |-> quote.lines[i].discount] IN
        /\ quote.total = SumFunction(total) + quote.shipping
                           + (IF basket.inclusive THEN 0 ELSE quote.shippingTax)
        /\ quote.discount = SumFunction(discount)
        /\ quote.taxTotal = SumFunction(quote.taxes)
        /\ \A i \in DOMAIN quote.lines :
             /\ 0 <= quote.lines[i].discount
             /\ quote.lines[i].discount <= quote.lines[i].subtotal
             /\ basket.inclusive => quote.lines[i].tax <= quote.lines[i].total
        /\ ~quote.problem => quote.total > 0
    BY <2>1, QuoteOfItsLines
  <2> QED
    BY <2>2 DEF QuoteAddsUp
<1> QED
  BY <1>1, PricingInvariance, PTL

-----------------------------------------------------------------------------
(* Who holds which rows.                                                   *)

\* A row has one holder.
Exclusive == \A t, u \in Transaction : t # u => holds[t] \cap holds[u] = {}

\* Who holds a row that is not committed inserted it, having found it missing.
NewRowsWereMissed == \A t \in Transaction : holds[t] \ levels \subseteq missed[t]

\* A transaction runs one statement at a time; only a change made by hand inserts again
\* after it has locked, and only in the order of the levels.
OneStatement ==
  \A t \in Transaction :
    /\ kind[t] \in {"idle", "ended"} =>
         locking[t] = {} /\ inserting[t] = {} /\ holds[t] = {} /\ missed[t] = {}
    /\ kind[t] = "settle" => inserting[t] = {}
    /\ kind[t] = "restock" /\ inserting[t] # {} => locking[t] = {} /\ holds[t] \subseteq missed[t]
    /\ kind[t] = "reserve" /\ inserting[t] # {} => locking[t] = {}
    /\ kind[t] = "reserve" => \A v, w \in inserting[t] : v = w
    /\ kind[t] = "adjust" =>
         /\ \A h \in holds[t], v \in inserting[t] : h <= v
         /\ \A v \in locking[t], w \in inserting[t] : v <= w

\* Only a reservation takes items somewhere.
Reserving == \A t \in Transaction : supplying[t] # {} => kind[t] = "reserve"

\* What is held comes before what is still to be locked.
LocksInOrder ==
  \A t \in Transaction :
    missed[t] = {} \/ kind[t] = "adjust" => \A h \in holds[t], v \in locking[t] : h <= v

\* What is still to be locked exists, and so do the levels a return no longer has to insert.
LocksWhatExists ==
  \A t \in Transaction :
    /\ locking[t] \subseteq levels \cup missed[t]
    /\ kind[t] = "restock" => moved[t] \subseteq inserting[t] \cup levels \cup missed[t]

SInv ==
  /\ StockTypeOK /\ Exclusive
  /\ NewRowsWereMissed /\ LocksWhatExists
  /\ OneStatement /\ Reserving /\ LocksInOrder

-----------------------------------------------------------------------------
(* Levels and their order *)

\* An item at a location is a level.
LEMMA LevelOfIsALevel ==
  ASSUME NEW i \in Item, NEW l \in Location
  PROVE  LevelOf(i, l) \in Level
<1>1. i \in Nat /\ i + 1 <= Items /\ l \in Nat /\ l <= Locations - 1
  BY StockAssumption DEF Item, Location
<1>2. i * Locations \in Nat /\ Items * Locations \in Int
  BY <1>1, StockAssumption
<1>3. (i + 1) * Locations <= Items * Locations
  BY <1>1, StockAssumption
<1>4. (i + 1) * Locations = i * Locations + Locations
  BY <1>1, StockAssumption
<1>. QED
  BY <1>1, <1>2, <1>3, <1>4, StockAssumption DEF LevelOf, Level

\* Levels are ordered by their numbers.
LEMMA LevelsAreNumbers == Level \subseteq Nat
BY StockAssumption DEF Level

\* A set of numbers that is not empty has a first.
LEMMA FirstOfNumbers ==
  ASSUME NEW S \in SUBSET Nat, S # {}
  PROVE  First(S) \in S /\ \A u \in S : First(S) <= u
<1> DEFINE Less == OpToRel(<, Nat)
<1>1. IsWellFoundedOn(Less, Nat)
  BY NatLessThanWellFounded
<1>2. \A x, y \in Nat : x < y => <<x, y>> \in Less
  BY DEF OpToRel
<1> HIDE DEF Less
<1>3. PICK x \in S : \A y \in S : ~(<<y, x>> \in Less)
  BY <1>1, WFMin
<1>4. \A u \in S : u \in Nat /\ x \in Nat /\ ~(u < x)
  BY <1>2, <1>3
<1>5. \A u \in S : x <= u
  BY <1>4
<1>. QED
  BY <1>3, <1>5 DEF First

\* A set of levels that is not empty has a last.
LEMMA LastOfLevels ==
  ASSUME NEW V \in SUBSET Level, V # {}
  PROVE  \E v \in V : \A u \in V : u <= v
<1> DEFINE n == Items * Locations
           T == {n - v : v \in V}
<1>1. n \in Int /\ V \subseteq 0 .. (n - 1)
  BY StockAssumption DEF Level
<1> HIDE DEF n
<1>6. \A v \in V : v \in Int /\ n - v \in Nat
  BY <1>1
<1>2. T \in SUBSET Nat /\ T # {}
  BY <1>6
<1>3. First(T) \in T /\ \A u \in T : First(T) <= u
  BY <1>2, FirstOfNumbers
<1>4. PICK v \in V : First(T) = n - v
  BY <1>3
<1>5. \A u \in V : n - v <= n - u
  BY <1>3, <1>4
<1>7. \A u \in V : u <= v
  BY <1>1, <1>5, <1>6
<1>. QED
  BY <1>7

\* The first of a transaction's levels is one of them.
LEMMA FirstOfLevels ==
  ASSUME NEW V \in SUBSET Level, V # {}
  PROVE  First(V) \in V /\ \A u \in V : First(V) <= u
BY LevelsAreNumbers, FirstOfNumbers

\* Nobody waits in a circle who holds nothing beyond what it waits for.
LEMMA NoCircle ==
  ASSUME Exclusive, NEW T \in SUBSET Transaction, T # {},
         NEW W \in [T -> Level],
         \A t \in T : \E u \in T \ {t} : W[t] \in holds[u],
         \A t \in T : \A h \in holds[t] : h <= W[t]
  PROVE  FALSE
<1> DEFINE V == {W[t] : t \in T}
<1>7. V \in SUBSET Level /\ V # {} /\ \A t \in T : W[t] \in V
  OBVIOUS
<1>2. \A v \in V : \E t \in T : W[t] = v
  OBVIOUS
<1> HIDE DEF V
<1>1. PICK v \in V : \A u \in V : u <= v
  BY <1>7, LastOfLevels
<1>3. PICK u \in T : v \in holds[u]
  BY <1>2
<1>4. v \in Nat /\ W[u] \in Nat /\ v <= W[u] /\ W[u] <= v
  BY <1>1, <1>3, <1>7, LevelsAreNumbers
<1>5. W[u] = v
  BY <1>4
<1>6. PICK x \in T \ {u} : v \in holds[x]
  BY <1>3, <1>5
<1>. QED
  BY <1>3, <1>6 DEF Exclusive

-----------------------------------------------------------------------------
(* The inductive invariant *)

\* Nobody holds or waits for anything at first.
LEMMA LockInitEstablishes == StockInit => SInv
<1>. SUFFICES ASSUME StockInit PROVE SInv
  OBVIOUS
<1>1. StockTypeOK
  BY DEF StockInit, StockTypeOK
<1>2. Exclusive /\ NewRowsWereMissed /\ LocksWhatExists /\ OneStatement
      /\ Reserving /\ LocksInOrder
  BY DEF StockInit, Exclusive, NewRowsWereMissed, LocksWhatExists, OneStatement, Reserving,
         LocksInOrder
<1>. QED
  BY <1>1, <1>2 DEF SInv

\* A transaction that is idle becomes a k: it will lock the rows V or make the rows U, of
\* which M are moved, and supplies the items I.
Begins(t, k, V, U, M, I) ==
  /\ kind[t] = "idle"
  /\ kind' = [kind EXCEPT ![t] = k]
  /\ locking' = [locking EXCEPT ![t] = V]
  /\ inserting' = [inserting EXCEPT ![t] = U]
  /\ moved' = [moved EXCEPT ![t] = M]
  /\ supplying' = [supplying EXCEPT ![t] = I]
  /\ UNCHANGED <<levels, holds, missed>>
  /\ V \in SUBSET levels /\ U \in SUBSET Level /\ M \in SUBSET Level /\ I \in SUBSET Item
  /\ V = {} \/ U = {}
  /\ k \in {"reserve", "settle"} => U = {}
  /\ k = "restock" => M \subseteq U
  /\ k # "reserve" => I = {}

\* A transaction that begins has locked nothing, so that only its own statements change.
LEMMA BeginKeeps ==
  ASSUME SInv, NEW t \in Transaction, NEW k \in {"reserve", "settle", "restock", "adjust"},
         NEW V, NEW U, NEW M, NEW I, Begins(t, k, V, U, M, I)
  PROVE  SInv'
<1>0. /\ locking' = [locking EXCEPT ![t] = V] /\ inserting' = [inserting EXCEPT ![t] = U]
      /\ moved' = [moved EXCEPT ![t] = M] /\ supplying' = [supplying EXCEPT ![t] = I]
      /\ kind[t] = "idle" /\ kind' = [kind EXCEPT ![t] = k]
      /\ UNCHANGED <<levels, holds, missed>>
      /\ V \in SUBSET levels /\ U \in SUBSET Level /\ M \in SUBSET Level /\ I \in SUBSET Item
      /\ (k \in {"reserve", "settle"} => U = {}) /\ (k = "restock" => M \subseteq U)
  BY DEF Begins
<1>c. (V = {} \/ U = {}) /\ (k # "reserve" => I = {})
  BY DEF Begins
<1>1. StockTypeOK'
  BY <1>0 DEF SInv, StockTypeOK
<1>2. holds[t] = {} /\ missed[t] = {}
  BY <1>0 DEF SInv, OneStatement
<1>3. \A u \in Transaction \ {t} :
        /\ kind'[u] = kind[u] /\ locking'[u] = locking[u]
        /\ inserting'[u] = inserting[u] /\ moved'[u] = moved[u]
        /\ supplying'[u] = supplying[u]
  BY <1>0 DEF SInv, StockTypeOK
<1>4. kind'[t] = k /\ locking'[t] = V /\ inserting'[t] = U /\ moved'[t] = M /\ supplying'[t] = I
  BY <1>0 DEF SInv, StockTypeOK
<1>5. Exclusive' /\ NewRowsWereMissed'
  BY <1>0 DEF SInv, Exclusive, NewRowsWereMissed
<1>8. LocksWhatExists'
  BY <1>0, <1>3, <1>4 DEF SInv, LocksWhatExists
<1>9. Reserving'
  BY <1>0, <1>c, <1>3, <1>4 DEF SInv, Reserving
<1>6. OneStatement'
  BY <1>0, <1>c, <1>2, <1>3, <1>4 DEF SInv, OneStatement
<1>7. LocksInOrder'
  BY <1>0, <1>c, <1>2, <1>3, <1>4 DEF SInv, LocksInOrder
<1>. QED
  BY <1>1, <1>5, <1>6, <1>7, <1>8, <1>9 DEF SInv

LEMMA ReserveKeeps ==
  ASSUME SInv, NEW t \in Transaction, NEW I \in SUBSET Item, Reserve(t, I)
  PROVE  SInv'
<1> DEFINE V == {v \in levels : ItemOf(v) \in I}
<1>1. V \in SUBSET levels
  OBVIOUS
<1>2. inserting' = [inserting EXCEPT ![t] = {}]
  BY DEF Reserve, SInv, StockTypeOK, OneStatement
<1>3. locking' = [locking EXCEPT ![t] = V]
  BY DEF Reserve
<1>4. supplying' = [supplying EXCEPT ![t] = I] /\ moved' = [moved EXCEPT ![t] = moved[t]]
      /\ moved[t] \in SUBSET Level
  BY DEF Reserve, SInv, StockTypeOK
<1>5. /\ kind[t] = "idle" /\ kind' = [kind EXCEPT ![t] = "reserve"]
      /\ UNCHANGED <<levels, holds, missed>>
  BY DEF Reserve
<1> HIDE DEF V
<1>6. Begins(t, "reserve", V, {}, moved[t], I)
  BY <1>1, <1>2, <1>3, <1>4, <1>5 DEF Begins
<1>. QED
  BY <1>6, BeginKeeps

LEMMA SettleKeeps ==
  ASSUME SInv, NEW t \in Transaction, NEW V \in SUBSET levels, SettleReservations(t, V)
  PROVE  SInv'
<1>2. inserting' = [inserting EXCEPT ![t] = {}]
  BY DEF SettleReservations, SInv, StockTypeOK, OneStatement
<1>3. supplying' = [supplying EXCEPT ![t] = {}] /\ moved' = [moved EXCEPT ![t] = moved[t]]
      /\ moved[t] \in SUBSET Level
  BY DEF SettleReservations, SInv, StockTypeOK, Reserving
<1>4. Begins(t, "settle", V, {}, moved[t], {})
  BY <1>2, <1>3 DEF Begins, SettleReservations
<1>. QED
  BY <1>4, BeginKeeps

LEMMA RestockKeeps ==
  ASSUME SInv, NEW t \in Transaction, NEW V \in SUBSET Level, Restock(t, V)
  PROVE  SInv'
<1>1. locking' = [locking EXCEPT ![t] = {}]
  BY DEF Restock, SInv, StockTypeOK, OneStatement
<1>2. supplying' = [supplying EXCEPT ![t] = {}]
  BY DEF Restock, SInv, StockTypeOK, Reserving
<1>3. Begins(t, "restock", {}, V, V, {})
  BY <1>1, <1>2 DEF Begins, Restock
<1>. QED
  BY <1>3, BeginKeeps

LEMMA AdjustKeeps ==
  ASSUME SInv, NEW t \in Transaction, NEW i \in Item, NEW L \in SUBSET Location,
         Adjust(t, i, L)
  PROVE  SInv'
<1> DEFINE V == {LevelOf(i, l) : l \in L}
<1>1. V \in SUBSET Level
  BY LevelOfIsALevel
<1>2. locking' = [locking EXCEPT ![t] = {}]
  BY DEF Adjust, SInv, StockTypeOK, OneStatement
<1>3. inserting' = [inserting EXCEPT ![t] = V]
  BY DEF Adjust
<1>4. supplying' = [supplying EXCEPT ![t] = {}] /\ moved' = [moved EXCEPT ![t] = moved[t]]
      /\ moved[t] \in SUBSET Level
  BY DEF Adjust, SInv, StockTypeOK, Reserving
<1>5. /\ kind[t] = "idle" /\ kind' = [kind EXCEPT ![t] = "adjust"]
      /\ UNCHANGED <<levels, holds, missed>>
  BY DEF Adjust
<1> HIDE DEF V
<1>6. Begins(t, "adjust", {}, V, moved[t], {})
  BY <1>1, <1>2, <1>3, <1>4, <1>5 DEF Begins
<1>. QED
  BY <1>6, BeginKeeps

LEMMA LockKeeps ==
  ASSUME SInv, NEW t \in Transaction, Lock(t)
  PROVE  SInv'
<1> DEFINE v == First(locking[t])
<1>1. locking[t] \in SUBSET Level /\ locking[t] # {}
  BY DEF Lock, SInv, StockTypeOK
<1>2. PICK w : w = First(locking[t])
  OBVIOUS
<1>3. w \in locking[t] /\ w \in Level /\ \A u \in locking[t] : w <= u
  BY <1>1, <1>2, FirstOfLevels
<1>4. /\ \A u \in Transaction \ {t} : w \notin holds[u]
      /\ locking' = [locking EXCEPT ![t] = @ \ {w}]
      /\ holds' = [holds EXCEPT ![t] = @ \cup {w}]
      /\ UNCHANGED <<levels, kind, inserting, supplying, moved, missed>>
  BY <1>2 DEF Lock
<1>5. StockTypeOK'
  BY <1>3, <1>4 DEF SInv, StockTypeOK
<1>6. \A u \in Transaction \ {t} : locking'[u] = locking[u] /\ holds'[u] = holds[u]
  BY <1>4 DEF SInv, StockTypeOK
<1>7. locking'[t] = locking[t] \ {w} /\ holds'[t] = holds[t] \cup {w}
  BY <1>4 DEF SInv, StockTypeOK
<1>8. Exclusive'
  BY <1>4, <1>6, <1>7 DEF SInv, Exclusive
<1>9. NewRowsWereMissed'
  BY <1>3, <1>4, <1>6, <1>7 DEF SInv, NewRowsWereMissed, LocksWhatExists
<1>10. LocksWhatExists'
  BY <1>4, <1>6, <1>7 DEF SInv, LocksWhatExists
<1>11. \A h \in holds[t], x \in locking[t] : missed[t] = {} \/ kind[t] = "adjust" => h <= x
  BY DEF SInv, LocksInOrder
<1>12. LocksInOrder'
  BY <1>3, <1>4, <1>6, <1>7, <1>11 DEF SInv, LocksInOrder
<1>13. OneStatement'
  BY <1>3, <1>4, <1>6, <1>7 DEF SInv, OneStatement
<1>. QED
  BY <1>4, <1>5, <1>8, <1>9, <1>10, <1>12, <1>13 DEF SInv, Reserving

LEMMA InsertKeeps ==
  ASSUME SInv, NEW t \in Transaction, Insert(t)
  PROVE  SInv'
<1>1. inserting[t] \in SUBSET Level /\ inserting[t] # {}
  BY DEF Insert, SInv, StockTypeOK
<1>2. PICK w : w = First(inserting[t])
  OBVIOUS
<1>3. w \in inserting[t] /\ w \in Level /\ \A u \in inserting[t] : w <= u
  BY <1>1, <1>2, FirstOfLevels
<1>4. PICK V : V = LockedAfter(t, w)
  OBVIOUS
<1>5. V \in SUBSET Level /\ (V = {w} \/ kind[t] = "restock")
  BY <1>3, <1>4 DEF LockedAfter, SInv, StockTypeOK
<1>6. /\ locking[t] = {}
      /\ \A u \in Transaction \ {t} : w \notin holds[u] \ levels
      /\ inserting' = [inserting EXCEPT ![t] = @ \ {w}]
      /\ locking' = [locking EXCEPT ![t] = V]
      /\ holds' = [holds EXCEPT ![t] = IF w \in levels THEN @ ELSE @ \cup {w}]
      /\ missed' = [missed EXCEPT ![t] =
                      IF w \in levels /\ kind[t] # "reserve" THEN @ ELSE @ \cup {w}]
      /\ UNCHANGED <<levels, kind, supplying, moved>>
  BY <1>2, <1>4 DEF Insert
<1>7. StockTypeOK'
  BY <1>3, <1>5, <1>6 DEF SInv, StockTypeOK
<1>8. \A u \in Transaction \ {t} :
        /\ inserting'[u] = inserting[u] /\ locking'[u] = locking[u]
        /\ holds'[u] = holds[u] /\ missed'[u] = missed[u]
  BY <1>6 DEF SInv, StockTypeOK
<1>9. /\ inserting'[t] = inserting[t] \ {w} /\ locking'[t] = V
      /\ holds'[t] = IF w \in levels THEN holds[t] ELSE holds[t] \cup {w}
      /\ missed'[t] = IF w \in levels /\ kind[t] # "reserve" THEN missed[t]
                     ELSE missed[t] \cup {w}
  BY <1>6 DEF SInv, StockTypeOK
<1>10. Exclusive'
  BY <1>6, <1>8, <1>9 DEF SInv, Exclusive
<1>11. NewRowsWereMissed'
  BY <1>6, <1>8, <1>9 DEF SInv, NewRowsWereMissed
<1>12. LocksWhatExists'
  <2>1. V \subseteq levels \cup missed'[t]
    BY <1>4, <1>9 DEF LockedAfter, SInv, LocksWhatExists
  <2>. QED
    BY <2>1, <1>6, <1>8, <1>9 DEF SInv, LocksWhatExists
<1>13. kind[t] \notin {"idle", "ended", "settle"}
  BY <1>1 DEF SInv, OneStatement
<1>14. kind[t] = "restock" => holds[t] \subseteq missed[t] /\ (inserting[t] # {w} => V = {})
  BY <1>1, <1>4 DEF LockedAfter, SInv, OneStatement
<1>15. kind[t] = "reserve" => V = {w}
  BY <1>5
<1>16. kind[t] = "reserve" => inserting'[t] = {}
  BY <1>3, <1>9 DEF SInv, OneStatement
<1>17. kind[t] = "adjust" =>
         (\A h \in holds[t], v \in inserting[t] : h <= v) /\ V = {w}
  BY <1>5 DEF SInv, OneStatement
<1>18. OneStatement'
  <2>1. kind[t] = "adjust" =>
          /\ \A h \in holds'[t], v \in inserting'[t] : h <= v
          /\ \A v \in locking'[t], x \in inserting'[t] : v <= x
    BY <1>3, <1>9, <1>17
  <2>2. kind[t] = "restock" /\ inserting'[t] # {} =>
          locking'[t] = {} /\ holds'[t] \subseteq missed'[t]
    BY <1>3, <1>9, <1>14
  <2>. QED
    BY <2>1, <2>2, <1>6, <1>8, <1>13, <1>16 DEF SInv, OneStatement
<1>19. LocksInOrder'
  <2>1. kind[t] = "adjust" => \A h \in holds'[t], v \in locking'[t] : h <= v
    BY <1>3, <1>9, <1>17, LevelsAreNumbers
  <2>2. kind[t] = "restock" /\ missed'[t] = {} => holds'[t] = {}
    BY <1>9, <1>14
  <2>3. kind[t] = "reserve" => missed'[t] # {}
    BY <1>9
  <2>4. missed'[t] = {} \/ kind[t] = "adjust" => \A h \in holds'[t], v \in locking'[t] : h <= v
    BY <2>1, <2>2, <2>3, <1>13 DEF SInv, StockTypeOK
  <2>. QED
    BY <2>4, <1>6, <1>8 DEF SInv, LocksInOrder
<1>. QED
  BY <1>6, <1>7, <1>10, <1>11, <1>12, <1>18, <1>19 DEF SInv, Reserving

LEMMA SupplyKeeps ==
  ASSUME SInv, NEW t \in Transaction, Supply(t)
  PROVE  SInv'
<1>1. PICK i : i = First(supplying[t])
  OBVIOUS
<1>2. i \in Item
  <2>1. supplying[t] \in SUBSET Nat /\ supplying[t] \subseteq Item /\ supplying[t] # {}
    BY StockAssumption DEF Supply, SInv, StockTypeOK, Item
  <2>. QED
    BY <2>1, <1>1, FirstOfNumbers
<1>3. Online # {} => LevelOf(i, First(Online)) \in Level
  <2>1. Online \in SUBSET Nat /\ Online \subseteq Location
    BY StockAssumption DEF Location
  <2>. QED
    BY <1>2, <2>1, FirstOfNumbers, LevelOfIsALevel
<1>4. PICK V \in SUBSET Level :
        /\ inserting' = [inserting EXCEPT ![t] = V]
        /\ \A v, w \in V : v = w
  <2> DEFINE candidates == {v \in holds[t] : ItemOf(v) = i /\ LocationOf(v) \in Online}
             U == IF candidates # {} \/ Online = {} THEN {} ELSE {LevelOf(i, First(Online))}
  <2>1. inserting' = [inserting EXCEPT ![t] = U]
    BY <1>1 DEF Supply
  <2>2. U \in SUBSET Level /\ \A v, w \in U : v = w
    BY <1>3
  <2> HIDE DEF U
  <2>. QED
    BY <2>1, <2>2
<1>5. kind[t] = "reserve" /\ locking[t] = {} /\ inserting[t] = {}
  BY DEF Supply, SInv, Reserving
<1>6. supplying' \in [Transaction -> SUBSET Item]
  BY DEF Supply, SInv, StockTypeOK
<1>7. UNCHANGED <<levels, kind, locking, moved, holds, missed>>
  BY DEF Supply
<1>8. StockTypeOK'
  BY <1>4, <1>6, <1>7 DEF SInv, StockTypeOK
<1>9. /\ inserting'[t] = V
      /\ \A u \in Transaction \ {t} : inserting'[u] = inserting[u]
  BY <1>4 DEF SInv, StockTypeOK
<1>10. OneStatement'
  BY <1>4, <1>5, <1>7, <1>9 DEF SInv, OneStatement
<1>11. Reserving'
  BY <1>7 DEF Supply, SInv, StockTypeOK, Reserving
<1>12. LocksWhatExists'
  BY <1>5, <1>7, <1>9 DEF SInv, LocksWhatExists
<1>. QED
  BY <1>7, <1>8, <1>10, <1>11, <1>12 DEF SInv, Exclusive, NewRowsWereMissed, LocksInOrder

\* Whatever a transaction leaves behind, no row it held disappears from what others see.
LEMMA LockLeaveKeeps ==
  ASSUME SInv, NEW t \in Transaction, NEW rows \in SUBSET Level, levels \subseteq rows,
         Leave(t, rows)
  PROVE  SInv'
<1>1. StockTypeOK'
  BY DEF Leave, SInv, StockTypeOK
<1>2. /\ kind'[t] = "ended" /\ locking'[t] = {} /\ inserting'[t] = {}
      /\ supplying'[t] = {} /\ moved'[t] = {} /\ holds'[t] = {} /\ missed'[t] = {}
  BY DEF Leave, SInv, StockTypeOK
<1>3. \A u \in Transaction \ {t} :
        /\ kind'[u] = kind[u] /\ locking'[u] = locking[u] /\ inserting'[u] = inserting[u]
        /\ supplying'[u] = supplying[u] /\ moved'[u] = moved[u]
        /\ holds'[u] = holds[u] /\ missed'[u] = missed[u]
  BY DEF Leave, SInv, StockTypeOK
<1>4. levels \subseteq levels'
  BY DEF Leave
<1>5. Exclusive'
  BY <1>2, <1>3 DEF SInv, Exclusive
<1>6. NewRowsWereMissed' /\ LocksWhatExists'
  BY <1>2, <1>3, <1>4 DEF SInv, NewRowsWereMissed, LocksWhatExists
<1>7. OneStatement'
  BY <1>2, <1>3 DEF SInv, OneStatement
<1>8. LocksInOrder'
  BY <1>2, <1>3 DEF SInv, LocksInOrder
<1>9. Reserving'
  BY <1>2, <1>3 DEF SInv, Reserving
<1>. QED
  BY <1>1, <1>5, <1>6, <1>7, <1>8, <1>9 DEF SInv

\* No step of a transaction breaks it.
LEMMA LockStepKeeps == SInv /\ [StockNext]_stockVars => SInv'
<1>. SUFFICES ASSUME SInv, [StockNext]_stockVars PROVE SInv'
  OBVIOUS
<1>1. CASE UNCHANGED stockVars
  BY <1>1 DEF stockVars, SInv, StockTypeOK, Exclusive, NewRowsWereMissed, LocksWhatExists,
              OneStatement, Reserving, LocksInOrder
<1>2. CASE StockNext
  <2>. PICK t \in Transaction :
         \/ \E I \in SUBSET Item \ {{}} : Reserve(t, I)
         \/ \E V \in SUBSET levels \ {{}} : SettleReservations(t, V)
         \/ \E V \in SUBSET Level \ {{}} : Restock(t, V)
         \/ \E i \in Item, l, m \in Location : Adjust(t, i, {l, m})
         \/ Lock(t) \/ Insert(t) \/ Supply(t)
         \/ Commit(t) \/ Refuse(t) \/ Victim(t)
    BY <1>2 DEF StockNext
  <2>1. CASE \E I \in SUBSET Item \ {{}} : Reserve(t, I)
    BY <2>1, ReserveKeeps
  <2>2. CASE \E V \in SUBSET levels \ {{}} : SettleReservations(t, V)
    BY <2>2, SettleKeeps
  <2>3. CASE \E V \in SUBSET Level \ {{}} : Restock(t, V)
    BY <2>3, RestockKeeps
  <2>4. CASE \E i \in Item, l, m \in Location : Adjust(t, i, {l, m})
    <3>. PICK i \in Item, l \in Location, m \in Location : Adjust(t, i, {l, m})
      BY <2>4
    <3>1. {l, m} \in SUBSET Location
      OBVIOUS
    <3>. QED
      BY <3>1, AdjustKeeps
  <2>5. CASE Lock(t)
    BY <2>5, LockKeeps
  <2>6. CASE Insert(t)
    BY <2>6, InsertKeeps
  <2>7. CASE Supply(t)
    BY <2>7, SupplyKeeps
  <2>8. CASE Commit(t)
    <3>1. levels \cup holds[t] \in SUBSET Level
      BY DEF SInv, StockTypeOK
    <3>. QED
      BY <2>8, <3>1, LockLeaveKeeps DEF Commit
  <2>9. CASE Refuse(t) \/ Victim(t)
    <3>1. levels \in SUBSET Level
      BY DEF SInv, StockTypeOK
    <3>. QED
      BY <2>9, <3>1, LockLeaveKeeps DEF Refuse, Victim
  <2>. QED
    BY <2>1, <2>2, <2>3, <2>4, <2>5, <2>6, <2>7, <2>8, <2>9
<1>. QED
  BY <1>1, <1>2

\* The inductive invariant: locks are taken in the order of the levels by whoever found
\* every level, and a row has one holder (stock.ts:108-124, inventory.ts:72-104).
THEOREM LockInvariance == StockSpec => []SInv
BY LockInitEstablishes, LockStepKeeps, PTL DEF StockSpec

\* Every variable keeps its type: rows are of levels that exist in the catalogue.
THEOREM LockTypeCorrectness == StockSpec => []StockTypeOK
<1>1. SInv => StockTypeOK
  BY DEF SInv
<1>. QED
  BY <1>1, LockInvariance, PTL

-----------------------------------------------------------------------------
(* Deadlocks *)

\* Whoever waits in a circle cannot all have found every level, nor all be by hand.
LEMMA CirclesNeedAMissingLevel == SInv => DeadlocksNeedAMissingLevel
<1>. SUFFICES ASSUME SInv, NEW T \in SUBSET Transaction, Deadlocked(T)
              PROVE  /\ \E t \in T : missed[t] # {}
                     /\ \E t \in T : kind[t] # "adjust"
  BY DEF DeadlocksNeedAMissingLevel
<1>0. T # {} /\ \A t \in T : \E u \in T \ {t} : WaitsFor(t, u)
  BY DEF Deadlocked
<1> DEFINE W == [t \in T |-> First(IF locking[t] # {} THEN locking[t] ELSE inserting[t])]
<1>1. W \in [T -> Level] /\ \A t \in T : W[t] \in locking[t] \cup inserting[t]
  <2>1. \A t \in T : \/ locking[t] # {} /\ locking[t] \in SUBSET Level
                     \/ locking[t] = {} /\ inserting[t] # {} /\ inserting[t] \in SUBSET Level
    BY <1>0 DEF WaitsFor, SInv, StockTypeOK
  <2>. QED
    BY <2>1, FirstOfLevels
<1>2. \A t \in T : locking[t] # {} => W[t] \in locking[t]
  <2>1. \A t \in T : locking[t] \in SUBSET Level
    BY DEF SInv, StockTypeOK
  <2>. QED
    BY <2>1, FirstOfLevels
<1>3. \A t \in T : \E u \in T \ {t} : W[t] \in holds[u]
  BY <1>0 DEF WaitsFor
<1> HIDE DEF W
<1>4. \E t \in T : missed[t] # {}
  <2>. SUFFICES ASSUME \A t \in T : missed[t] = {} PROVE FALSE
    OBVIOUS
  <2>1. \A t \in T : locking[t] # {}
    BY <1>0 DEF WaitsFor, SInv, NewRowsWereMissed
  <2>2. \A t \in T : \A h \in holds[t] : h <= W[t]
    BY <2>1, <1>2 DEF SInv, LocksInOrder
  <2>. QED
    BY <1>0, <1>1, <1>3, <2>2, NoCircle DEF SInv
<1>5. \E t \in T : kind[t] # "adjust"
  <2>. SUFFICES ASSUME \A t \in T : kind[t] = "adjust" PROVE FALSE
    OBVIOUS
  <2>1. \A t \in T : \A h \in holds[t] : h <= W[t]
    BY <1>1 DEF SInv, OneStatement, LocksInOrder
  <2>. QED
    BY <1>0, <1>1, <1>3, <2>1, NoCircle DEF SInv
<1>. QED
  BY <1>4, <1>5

\* However many transactions move stock, those that wait for each other include one that
\* found a level missing and one that is no change made by hand (stock.ts:14,
\* inventory.ts:74).
THEOREM DeadlocksAreRare == StockSpec => []DeadlocksNeedAMissingLevel
BY LockInvariance, CirclesNeedAMissingLevel, PTL

=============================================================================
