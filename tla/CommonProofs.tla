---------------------------- MODULE CommonProofs ----------------------------
(***************************************************************************)
(* What the proofs about several components need: remainders, for the      *)
(* counters that wrap (the numbers of a cover stream, the scheduler's      *)
(* cursor), and lists that repeat nobody (the overlay's connections and    *)
(* the pools a pick draws from).                                           *)
(***************************************************************************)
EXTENDS Integers, SequencesExt, SequenceTheorems, FiniteSetTheorems, TLAPS

-----------------------------------------------------------------------------
(* Remainders.                                                             *)

LEMMA ModBounds ==
    ASSUME NEW x \in Int, NEW m \in Nat \ {0}
    PROVE  (x % m) \in 0..(m - 1) /\ (x \div m) \in Int /\ x = m * (x \div m) + (x % m)
OBVIOUS

LEMMA NoMultipleBelow ==
    ASSUME NEW q \in Int, NEW m \in Nat \ {0}, m * q < m, -m < m * q
    PROVE  q = 0
OBVIOUS

LEMMA Distributes ==
    ASSUME NEW a \in Int, NEW b \in Int, NEW m \in Nat \ {0}
    PROVE  m * (a - b) = m * a - m * b /\ m * a \in Int
OBVIOUS

LEMMA ModUnique ==
    ASSUME NEW x \in Int, NEW m \in Nat \ {0}, NEW q \in Int, NEW r \in Int,
           0 <= r, r < m, x = m * q + r
    PROVE  x % m = r
<1>0. (x % m) \in 0..(m - 1) /\ (x \div m) \in Int /\ x = m * (x \div m) + (x % m)
  BY ModBounds
<1> DEFINE k == x \div m
           s == x % m
<1>1. k \in Int /\ s \in Int /\ 0 <= s /\ s < m /\ x = m * k + s
  BY <1>0
<1> HIDE DEF k, s
<1>2. m * (k - q) = m * k - m * q /\ m * k \in Int /\ m * q \in Int
  BY <1>1, Distributes
<1>3. m * (k - q) = r - s
  BY <1>1, <1>2
<1>4. k - q = 0
  BY <1>1, <1>3, NoMultipleBelow
<1>5. m * (k - q) = 0
  BY <1>4
<1> QED
  BY <1>1, <1>3, <1>5 DEF s

\* A counter that wraps at every step is the one that wraps once.
LEMMA ModAdd ==
    ASSUME NEW x \in Int, NEW n \in Int, NEW m \in Nat \ {0}
    PROVE  ((x % m) + n) % m = (x + n) % m
<1> DEFINE k == x \div m
           y == x % m
           l == (x + n) \div m
           z == (x + n) % m
<1>1. k \in Int /\ y \in Int /\ x = m * k + y
  BY ModBounds
<1>2. x + n \in Int
  OBVIOUS
<1>3. l \in Int /\ z \in Int /\ 0 <= z /\ z < m /\ x + n = m * l + z
  BY <1>2, ModBounds
<1> HIDE DEF k, y, l, z
<1>4. m * (l - k) = m * l - m * k /\ m * l \in Int /\ m * k \in Int
  BY <1>1, <1>3, Distributes
<1>5. y + n = m * (l - k) + z /\ y + n \in Int /\ l - k \in Int
  BY <1>1, <1>3, <1>4
<1>6. (y + n) % m = z
  BY <1>3, <1>5, ModUnique
<1> QED
  BY <1>6 DEF y, z

\* The difference of two numbers on a link, wrap-around included (RtpSequencer's
\* observer: seq.wrapping_sub(prev)).
LEMMA ModSub ==
    ASSUME NEW x \in Int, NEW y \in Int, NEW m \in Nat \ {0}, 0 <= x - y, x - y < m
    PROVE  ((x % m) - (y % m)) % m = x - y
<1> DEFINE k == x \div m
           a == x % m
           l == y \div m
           b == y % m
<1>1. k \in Int /\ a \in Int /\ x = m * k + a
  BY ModBounds
<1>2. l \in Int /\ b \in Int /\ y = m * l + b
  BY ModBounds
<1> HIDE DEF k, a, l, b
<1>3. m * (l - k) = m * l - m * k /\ m * l \in Int /\ m * k \in Int
  BY <1>1, <1>2, Distributes
<1>4. a - b = m * (l - k) + (x - y) /\ a - b \in Int
  BY <1>1, <1>2, <1>3
<1>5. l - k \in Int /\ x - y \in Int
  BY <1>1, <1>2
<1>6. (a - b) % m = x - y
  BY <1>4, <1>5, ModUnique
<1> QED
  BY <1>6 DEF a, b

\* A position in a list that needs no reduction.
LEMMA ModSmall ==
    ASSUME NEW m \in Nat \ {0}, NEW x \in 0..(m - 1)
    PROVE  x % m = x
<1>1. x = m * 0 + x
  OBVIOUS
<1> QED
  BY <1>1, ModUnique

\* The next position: one further, or back at the start.
LEMMA ModNext ==
    ASSUME NEW m \in Nat \ {0}, NEW x \in Int
    PROVE  (x + 1) % m = IF x % m = m - 1 THEN 0 ELSE (x % m) + 1
<1> DEFINE r == x % m
<1>0. r \in 0..(m - 1)
  BY ModBounds
<1>1. r \in 0..(m - 1) /\ (r + 1) % m = (x + 1) % m
  <2>1. 1 \in Int
    OBVIOUS
  <2> QED
    BY <1>0, <2>1, ModAdd
<1> HIDE DEF r
<1>2. CASE r = m - 1
  <2>1. m = m * 1 + 0
    OBVIOUS
  <2>2. (r + 1) % m = 0
    BY <1>2, <2>1, ModUnique
  <2> QED
    BY <1>1, <1>2, <2>2 DEF r
<1>3. CASE r # m - 1
  <2>1. r + 1 \in 0..(m - 1)
    BY <1>1, <1>3
  <2>2. (r + 1) % m = r + 1
    BY <2>1, ModSmall
  <2> QED
    BY <1>1, <1>3, <2>2 DEF r
<1> QED
  BY <1>2, <1>3

-----------------------------------------------------------------------------
(* Lists that repeat nobody.                                               *)

\* A list and the set of its members.
LEMMA ListMembers ==
    ASSUME NEW S, NEW s \in Seq(S)
    PROVE  /\ DOMAIN s = 1..Len(s) /\ Len(s) \in Nat
           /\ ToSet(s) \subseteq S
           /\ \A i \in 1..Len(s) : s[i] \in ToSet(s)
           /\ \A x \in ToSet(s) : \E i \in 1..Len(s) : s[i] = x
           /\ ToSet(s) = {} <=> s = << >>
           /\ s \in [1..Len(s) -> ToSet(s)]
           /\ s \in Seq(ToSet(s))
<1>1. DOMAIN s = 1..Len(s) /\ Len(s) \in Nat
  OBVIOUS
<1>2. /\ ToSet(s) \subseteq S
      /\ \A i \in 1..Len(s) : s[i] \in ToSet(s)
      /\ \A x \in ToSet(s) : \E i \in 1..Len(s) : s[i] = x
  BY <1>1 DEF ToSet
<1>3. ToSet(s) = {} <=> s = << >>
  BY <1>1, <1>2
<1>4. s \in [1..Len(s) -> ToSet(s)]
  BY <1>1, <1>2
<1>5. s \in Seq(ToSet(s))
  BY <1>1, <1>4
<1> QED
  BY <1>1, <1>2, <1>3, <1>4, <1>5

\* It has as many members as it is long.
LEMMA DistinctLength ==
    ASSUME NEW S, NEW s \in Seq(S), IsInjective(s)
    PROVE  IsFiniteSet(ToSet(s)) /\ Cardinality(ToSet(s)) = Len(s)
<1>1. /\ DOMAIN s = 1..Len(s) /\ Len(s) \in Nat
      /\ s \in [1..Len(s) -> ToSet(s)]
      /\ \A x \in ToSet(s) : \E i \in 1..Len(s) : s[i] = x
  BY ListMembers
<1>2. s \in Bijection(1..Len(s), ToSet(s))
  BY <1>1 DEF Bijection, Injection, Surjection, IsInjective
<1>3. ExistsBijection(1..Len(s), ToSet(s))
  BY <1>2 DEF ExistsBijection
<1> QED
  BY <1>1, <1>3, FS_NatBijection, FS_CountingElements

\* The orders of a finite set.
LEMMA OrdersOf ==
    ASSUME NEW S, IsFiniteSet(S), NEW s \in SetToSeqs(S)
    PROVE  s \in Seq(S) /\ IsInjective(s) /\ ToSet(s) = S
<1> DEFINE n == Cardinality(S)
<1>1. /\ n \in Nat
      /\ s \in [1..n -> S]
      /\ \A i, j \in 1..n : i # j => s[i] # s[j]
  BY FS_CardinalityType DEF SetToSeqs
<1>2. s \in Seq(S) /\ IsInjective(s) /\ DOMAIN s = 1..n
  BY <1>1 DEF IsInjective
<1>3. s \in Injection(1..n, S)
  BY <1>1, <1>2 DEF Injection
<1>4. IsFiniteSet(1..n) /\ Cardinality(1..n) = n
  BY <1>1, FS_Interval
<1>5. s \in Surjection(1..n, S)
  BY <1>3, <1>4, FS_Injection
<1>6. ToSet(s) = S
  BY <1>1, <1>2, <1>5 DEF Surjection, ToSet
<1> QED
  BY <1>2, <1>6

\* One member taken out of the list.
LEMMA OneRemoved ==
    ASSUME NEW S, NEW s \in Seq(S), NEW i \in 1..Len(s)
    PROVE  /\ RemoveAt(s, i) \in Seq(S) /\ Len(RemoveAt(s, i)) = Len(s) - 1
           /\ \A k \in 1..Len(s) - 1 :
                RemoveAt(s, i)[k] = IF k < i THEN s[k] ELSE s[k + 1]
<1> DEFINE n == Len(s)
           before == SubSeq(s, 1, i - 1)
           after == SubSeq(s, i + 1, n)
<1>1. n \in Nat /\ i \in 1..n
  OBVIOUS
<1>2. /\ before \in Seq(S) /\ Len(before) = i - 1
      /\ \A k \in 1..i - 1 : before[k] = s[k]
  BY <1>1
<1>3. /\ after \in Seq(S) /\ Len(after) = n - i
      /\ \A k \in 1..n - i : after[k] = s[i + k]
  BY <1>1
<1>4. RemoveAt(s, i) = before \o after
  BY DEF RemoveAt
<1> DEFINE both == before \o after
<1> HIDE DEF n, before, after, both
<1>5. /\ both \in Seq(S) /\ Len(both) = n - 1
      /\ \A k \in 1..n - 1 :
           both[k] = IF k < i THEN before[k] ELSE after[k - (i - 1)]
  <2>1. /\ both \in Seq(S) /\ Len(both) = Len(before) + Len(after)
        /\ \A k \in 1..Len(before) + Len(after) :
             both[k] = IF k <= Len(before) THEN before[k] ELSE after[k - Len(before)]
    BY <1>2, <1>3, ConcatProperties DEF both
  <2>2. Len(before) + Len(after) = n - 1 /\ Len(before) = i - 1
    BY <1>1, <1>2, <1>3
  <2>3. \A k \in 1..n - 1 : k <= i - 1 <=> k < i
    BY <1>1
  <2> QED
    BY <2>1, <2>2, <2>3
<1>6. \A k \in 1..n - 1 : k >= i => k - (i - 1) \in 1..n - i /\ i + (k - (i - 1)) = k + 1
  BY <1>1
<1>7. \A k \in 1..n - 1 : both[k] = IF k < i THEN s[k] ELSE s[k + 1]
  <2> SUFFICES ASSUME NEW k \in 1..n - 1
               PROVE  both[k] = IF k < i THEN s[k] ELSE s[k + 1]
    OBVIOUS
  <2>1. CASE k < i
    <3>1. k \in 1..i - 1
      BY <1>1, <2>1
    <3> QED
      BY <1>2, <1>5, <2>1, <3>1
  <2>2. CASE k >= i
    <3>1. after[k - (i - 1)] = s[i + (k - (i - 1))]
      BY <1>3, <1>6, <2>2
    <3>2. both[k] = after[k - (i - 1)] /\ ~(k < i)
      BY <1>1, <1>5, <2>2
    <3> QED
      BY <1>6, <2>2, <3>1, <3>2
  <2> QED
    BY <1>1, <2>1, <2>2
<1> QED
  BY <1>4, <1>5, <1>7 DEF n, both

LEMMA DistinctRemoved ==
    ASSUME NEW S, NEW s \in Seq(S), IsInjective(s), NEW i \in 1..Len(s)
    PROVE  /\ RemoveAt(s, i) \in Seq(S) /\ IsInjective(RemoveAt(s, i))
           /\ Len(RemoveAt(s, i)) = Len(s) - 1
           /\ ToSet(RemoveAt(s, i)) = ToSet(s) \ {s[i]}
<1> DEFINE r == RemoveAt(s, i)
           n == Len(s)
<1>1. /\ r \in Seq(S) /\ Len(r) = n - 1 /\ n \in Nat /\ i \in 1..n
      /\ \A k \in 1..n - 1 : r[k] = IF k < i THEN s[k] ELSE s[k + 1]
  BY OneRemoved
<1>2. \A a, b \in 1..n : s[a] = s[b] => a = b
  BY DEF IsInjective
<1>3. DOMAIN r = 1..n - 1 /\ DOMAIN s = 1..n
  BY <1>1
<1> HIDE DEF r, n
<1>4. IsInjective(r)
  <2> SUFFICES ASSUME NEW a \in 1..n - 1, NEW b \in 1..n - 1, r[a] = r[b]
               PROVE  a = b
    BY <1>3 DEF IsInjective
  <2> DEFINE x == IF a < i THEN a ELSE a + 1
             y == IF b < i THEN b ELSE b + 1
  <2>1. r[a] = s[x] /\ r[b] = s[y] /\ x \in 1..n /\ y \in 1..n
    BY <1>1
  <2>2. x = y
    BY <1>2, <2>1
  <2> QED
    BY <1>1, <2>2
<1>5. ToSet(r) \subseteq ToSet(s) \ {s[i]}
  <2> SUFFICES ASSUME NEW a \in 1..n - 1
               PROVE  r[a] \in ToSet(s) /\ r[a] # s[i]
    BY <1>3 DEF ToSet
  <2> DEFINE x == IF a < i THEN a ELSE a + 1
  <2>1. r[a] = s[x] /\ x \in 1..n /\ x # i
    BY <1>1
  <2> QED
    BY <1>1, <1>2, <1>3, <2>1 DEF ToSet
<1>6. ToSet(s) \ {s[i]} \subseteq ToSet(r)
  <2> SUFFICES ASSUME NEW a \in 1..n, a # i
               PROVE  s[a] \in ToSet(r)
    BY <1>3 DEF ToSet
  <2> DEFINE x == IF a < i THEN a ELSE a - 1
  <2>1. x \in 1..n - 1 /\ r[x] = s[a]
    BY <1>1
  <2> QED
    BY <1>3, <2>1 DEF ToSet
<1> QED
  BY <1>1, <1>4, <1>5, <1>6 DEF r, n
=============================================================================
