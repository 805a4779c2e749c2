------------------------- MODULE PeerSelectionProofs -------------------------
(***************************************************************************)
(* Both peer selections, for any finite set of peers, any order of the     *)
(* peer list, any number of slots and any modulus of the cursor that no    *)
(* list exceeds.                                                           *)
(***************************************************************************)
EXTENDS PeerSelection, CommonProofs, FunctionTheorems

-----------------------------------------------------------------------------
(* The pools.                                                              *)

\* Counting the positions up to each one enumerates them.
LEMMA Enumeration ==
    ASSUME NEW I \in SUBSET Nat, IsFiniteSet(I)
    PROVE  LET c == Cardinality(I)
           IN  /\ c \in Nat
               /\ \A n \in 1..c : Nth(I, n) \in I
               /\ \A m, n \in 1..c : Nth(I, m) = Nth(I, n) => m = n
               /\ \A i \in I : \E n \in 1..c : Nth(I, n) = i
<1> DEFINE c == Cardinality(I)
           UpTo(i) == {j \in I : j <= i}
           rank == [i \in I |-> Cardinality(UpTo(i))]
           nth == [n \in 1..c |-> Nth(I, n)]
<1>1. c \in Nat /\ IsFiniteSet(1..c) /\ Cardinality(1..c) = c
  BY FS_CardinalityType, FS_Interval
<1>2. \A i \in I : /\ IsFiniteSet(UpTo(i)) /\ rank[i] \in 1..c
                    /\ rank[i] = Cardinality(UpTo(i))
  <2> TAKE i \in I
  <2>1. UpTo(i) \in SUBSET I /\ i \in UpTo(i)
    OBVIOUS
  <2>2. /\ IsFiniteSet(UpTo(i)) /\ Cardinality(UpTo(i)) <= c
        /\ Cardinality(UpTo(i)) \in Nat /\ Cardinality(UpTo(i)) # 0
    BY <2>1, FS_Subset, FS_CardinalityType, FS_EmptySet
  <2> QED
    BY <1>1, <2>2
<1>3. ASSUME NEW i \in I, NEW k \in I, i < k
      PROVE  rank[i] # rank[k]
  <2>0. i \in Nat /\ k \in Nat /\ \A j \in I : j \in Nat
    OBVIOUS
  <2>1. UpTo(i) \in SUBSET UpTo(k)
    <3>1. \A j \in I : j <= i => j <= k
      BY <1>3, <2>0
    <3> QED
      BY <3>1
  <2>2. k \in UpTo(k) /\ k \notin UpTo(i)
    BY <1>3, <2>0
  <2>3. Cardinality(UpTo(i)) # Cardinality(UpTo(k))
    BY <1>2, <2>1, <2>2, FS_Subset
  <2> QED
    BY <1>2, <2>3
<1>4. rank \in Injection(I, 1..c)
  <2>1. rank \in [I -> 1..c]
    BY <1>2
  <2>2. \A i, k \in I : rank[i] = rank[k] => i = k
    BY <1>3
  <2> QED
    BY <2>1, <2>2, Fun_IsInj
<1>5. \A n \in 1..c : \E i \in I : rank[i] = n
  <2>1. rank \in Surjection(I, 1..c)
    BY <1>1, <1>4, FS_Injection
  <2> QED
    BY <2>1 DEF Surjection
<1>6. \A n \in 1..c : Nth(I, n) \in I /\ Cardinality(UpTo(Nth(I, n))) = n
  BY <1>2, <1>5 DEF Nth
<1>7. \A m, n \in 1..c : Nth(I, m) = Nth(I, n) => m = n
  BY <1>6
<1>8. nth \in Injection(1..c, I)
  <2>1. nth \in [1..c -> I]
    BY <1>6
  <2>2. \A m, n \in 1..c : nth[m] = nth[n] => m = n
    BY <1>7
  <2> QED
    BY <2>1, <2>2, Fun_IsInj
<1>9. \A i \in I : \E n \in 1..c : Nth(I, n) = i
  <2>1. nth \in Surjection(1..c, I)
    BY <1>1, <1>8, FS_Injection
  <2> QED
    BY <2>1 DEF Surjection
<1> QED
  BY <1>1, <1>6, <1>7, <1>9

\* A pool has the members of the list it is meant to have, each once.
LEMMA PoolOf ==
    ASSUME NEW ps \in Seq(Peers), IsInjective(ps), NEW S
    PROVE  /\ Pool(ps, S) \in Seq(Peers) /\ IsInjective(Pool(ps, S))
           /\ ToSet(Pool(ps, S)) = ToSet(ps) \cap S
<1> DEFINE I == {i \in 1..Len(ps) : ps[i] \in S}
           c == Cardinality(I)
           q == Pool(ps, S)
<1>1. IsFiniteSet(I) /\ I \in SUBSET Nat /\ Len(ps) \in Nat
  BY FS_Interval, FS_Subset
<1>2. /\ c \in Nat
      /\ \A n \in 1..c : Nth(I, n) \in I
      /\ \A m, n \in 1..c : Nth(I, m) = Nth(I, n) => m = n
      /\ \A i \in I : \E n \in 1..c : Nth(I, n) = i
  BY <1>1, Enumeration
<1>3. q = [n \in 1..c |-> ps[Nth(I, n)]]
  BY DEF Pool
<1>4. \A i \in I : i \in 1..Len(ps) /\ ps[i] \in S /\ ps[i] \in Peers
  OBVIOUS
<1>5. /\ \A i \in 1..Len(ps) : ps[i] \in S => i \in I
      /\ DOMAIN ps = 1..Len(ps)
      /\ \A i, j \in 1..Len(ps) : ps[i] = ps[j] => i = j
  BY DEF IsInjective
<1> HIDE DEF I, c, q
<1>6. q \in [1..c -> Peers] /\ DOMAIN q = 1..c
  BY <1>2, <1>3, <1>4
<1>7. q \in Seq(Peers)
  BY <1>2, <1>6
<1>8. IsInjective(q)
  <2> SUFFICES ASSUME NEW m \in 1..c, NEW n \in 1..c, q[m] = q[n]
               PROVE  m = n
    BY <1>6 DEF IsInjective
  <2>1. ps[Nth(I, m)] = ps[Nth(I, n)]
    BY <1>3
  <2>2. Nth(I, m) = Nth(I, n)
    BY <1>2, <1>4, <1>5, <2>1
  <2> QED
    BY <1>2, <2>2
<1>9. ToSet(q) = ToSet(ps) \cap S
  <2>1. \A n \in 1..c : q[n] \in ToSet(ps) \cap S
    BY <1>2, <1>3, <1>4, <1>5 DEF ToSet
  <2>2. \A x \in ToSet(ps) \cap S : \E n \in 1..c : q[n] = x
    <3> SUFFICES ASSUME NEW i \in 1..Len(ps), ps[i] \in S
                 PROVE  \E n \in 1..c : q[n] = ps[i]
      BY <1>5 DEF ToSet
    <3>1. PICK n \in 1..c : Nth(I, n) = i
      BY <1>2, <1>5
    <3> QED
      BY <1>3, <3>1
  <2> QED
    BY <1>6, <2>1, <2>2 DEF ToSet
<1> QED
  BY <1>7, <1>8, <1>9 DEF q

-----------------------------------------------------------------------------
(* Types.                                                                  *)

ListsOK ==
    /\ scope \in {"Global", "PerConnection"} /\ picking \in BOOLEAN
    /\ picking => scope = "Global"
    /\ cursor \in Words /\ slots \in 0..MaxSlots
    /\ peers \in Seq(Peers) /\ IsInjective(peers)
    /\ fresh \in Seq(Peers) /\ IsInjective(fresh)
    /\ used \in Seq(Peers) /\ IsInjective(used)
    /\ chosen \in Seq(Peers) /\ IsInjective(chosen)
    /\ wait \in [Peers -> 0..MaxWait]


\* While a call is under way its list is split into what it has chosen and the two
\* pools, and last_peers is still what the call before it returned; fresh peers
\* go first.
SplitInv ==
    /\ picking =>
         /\ ToSet(chosen) \cup ToSet(fresh) \cup ToSet(used) = ToSet(peers)
         /\ ToSet(chosen) \cap (ToSet(fresh) \cup ToSet(used)) = {}
         /\ Len(chosen) + Len(fresh) + Len(used) = Len(peers)
         /\ Len(chosen) <= Lesser(slots, Len(peers))
         /\ lastPeers = previous
         /\ ToSet(fresh) \cap previous = {} /\ ToSet(used) \subseteq previous
         /\ fresh = << >> \/ ToSet(chosen) \cap previous = {}
    /\ ~picking => lastPeers = ToSet(chosen)

\* The lists a call is given and the ones the overlay may show.
LEMMA OrdersOfPeers ==
    ASSUME NEW s \in Orders
    PROVE  s \in Seq(Peers) /\ IsInjective(s)
<1>1. PICK S \in SUBSET Peers : s \in SetToSeqs(S)
  BY DEF Orders, SetToAllKPermutations
<1>2. IsFiniteSet(S)
  BY PeersAssumption, FS_Subset
<1>3. s \in Seq(S) /\ IsInjective(s)
  BY <1>1, <1>2, OrdersOf
<1> QED
  BY <1>3

LEMMA NoneChosen ==
    /\ << >> \in Seq(Peers) /\ IsInjective(<< >>) /\ Len(<< >>) = 0
    /\ ToSet(<< >>) = {}
BY DEF IsInjective, ToSet

LEMMA CursorType ==
    ASSUME cursor \in Words
    PROVE  /\ cursor \in Nat /\ cursor < CursorModulus
           /\ Advanced(cursor) \in Words
           /\ Advanced(cursor) = IF cursor = CursorModulus - 1 THEN 0 ELSE cursor + 1
<1>1. cursor \in 0..(CursorModulus - 1) /\ CursorModulus \in Nat \ {0}
  BY CursorAssumption DEF Words
<1>2. cursor % CursorModulus = cursor
  BY <1>1, ModSmall
<1>3. (cursor + 1) % CursorModulus = IF cursor = CursorModulus - 1 THEN 0 ELSE cursor + 1
  <2>1. cursor \in Int
    BY <1>1
  <2> QED
    BY <1>1, <1>2, <2>1, ModNext
<1> QED
  BY <1>1, <1>3 DEF Advanced, Wrapped, Words

\* A pick's position is one of the pool.
LEMMA PositionInside ==
    ASSUME cursor \in Words, NEW offset \in Nat, NEW n \in Nat \ {0}
    PROVE  Position(cursor, offset, n) \in 0..(n - 1)
<1>1. cursor + offset \in Int
  BY CursorType
<1>2. Wrapped(cursor + offset) \in Int
  BY <1>1, CursorAssumption, ModBounds DEF Wrapped
<1> QED
  BY <1>2, ModBounds DEF Position

LEMMA ListsInit == Init => ListsOK
<1> SUFFICES ASSUME Init
             PROVE  ListsOK
  OBVIOUS
<1>1. peers \in Seq(Peers) /\ IsInjective(peers)
  BY OrdersOfPeers, NoneChosen DEF Init
<1>2. wait \in [Peers -> 0..MaxWait] /\ slots \in 0..MaxSlots
  BY BoundsAssumption DEF Init, NoWait
<1> QED
  BY <1>1, <1>2, NoneChosen DEF Init, ListsOK

\* A pick takes one peer out of its pool.
LEMMA PickMoves ==
    ASSUME ListsOK, SplitInv, PickOne
    PROVE  \E p \in Peers :
             /\ chosen' = Append(chosen, p)
             /\ \/ /\ p \in ToSet(fresh) /\ used' = used
                   /\ fresh' \in Seq(Peers) /\ IsInjective(fresh')
                   /\ Len(fresh') = Len(fresh) - 1
                   /\ ToSet(fresh') = ToSet(fresh) \ {p}
                \/ /\ fresh = << >> /\ p \in ToSet(used) /\ fresh' = fresh
                   /\ used' \in Seq(Peers) /\ IsInjective(used')
                   /\ Len(used') = Len(used) - 1
                   /\ ToSet(used') = ToSet(used) \ {p}
<1> DEFINE pool == IF FromUsed THEN used ELSE fresh
<1>1. PICK offset \in 0..Len(pool) - 1 :
        LET at == Position(cursor, offset, Len(pool)) + 1
        IN  /\ chosen' = Append(chosen, pool[at])
            /\ fresh' = IF FromUsed THEN fresh ELSE RemoveAt(fresh, at)
            /\ used' = IF FromUsed THEN RemoveAt(used, at) ELSE used
  BY DEF PickOne
<1> DEFINE at == Position(cursor, offset, Len(pool)) + 1
<1>2. pool \in Seq(Peers) /\ IsInjective(pool) /\ Len(pool) \in Nat
  BY DEF ListsOK
<1>3. Len(pool) \in Nat \ {0} /\ offset \in Nat
  BY <1>2
<1>4. at \in 1..Len(pool)
  <2>1. Position(cursor, offset, Len(pool)) \in 0..(Len(pool) - 1)
    BY <1>3, PositionInside DEF ListsOK
  <2> QED
    BY <1>3, <2>1
<1>5. /\ chosen' = Append(chosen, pool[at])
      /\ fresh' = IF FromUsed THEN fresh ELSE RemoveAt(fresh, at)
      /\ used' = IF FromUsed THEN RemoveAt(used, at) ELSE used
  BY <1>1
<1> HIDE DEF pool, at
<1>6. /\ RemoveAt(pool, at) \in Seq(Peers) /\ IsInjective(RemoveAt(pool, at))
      /\ Len(RemoveAt(pool, at)) = Len(pool) - 1
      /\ ToSet(RemoveAt(pool, at)) = ToSet(pool) \ {pool[at]}
  BY <1>2, <1>4, DistinctRemoved
<1>7. pool[at] \in ToSet(pool) /\ pool[at] \in Peers
  BY <1>2, <1>4, ListMembers
<1> QED
  BY <1>5, <1>6, <1>7 DEF pool, FromUsed

LEMMA ChosenGrows ==
    ASSUME NEW s \in Seq(Peers), IsInjective(s), NEW p \in Peers, p \notin ToSet(s)
    PROVE  /\ Append(s, p) \in Seq(Peers) /\ IsInjective(Append(s, p))
           /\ Len(Append(s, p)) = Len(s) + 1
           /\ ToSet(Append(s, p)) = ToSet(s) \cup {p}
<1> DEFINE n == Len(s)
           t == Append(s, p)
<1>1. /\ n \in Nat /\ t \in Seq(Peers) /\ Len(t) = n + 1 /\ t[n + 1] = p
      /\ \A i \in 1..n : t[i] = s[i]
      /\ DOMAIN t = 1..(n + 1) /\ DOMAIN s = 1..n
  OBVIOUS
<1> HIDE DEF n, t
<1>2. 1..(n + 1) = 1..n \cup {n + 1}
  BY <1>1
<1>3. \A i \in 1..n : s[i] # p
  BY <1>1 DEF ToSet
<1>4. IsInjective(t)
  <2> SUFFICES ASSUME NEW i \in 1..(n + 1), NEW j \in 1..(n + 1), t[i] = t[j]
               PROVE  i = j
    BY <1>1 DEF IsInjective
  <2> QED
    BY <1>1, <1>2, <1>3 DEF IsInjective
<1>5. ToSet(t) = ToSet(s) \cup {p}
  <2>1. \A i \in 1..(n + 1) : t[i] \in ToSet(s) \cup {p}
    BY <1>1, <1>2 DEF ToSet
  <2>2. \A i \in 1..n : s[i] \in ToSet(t)
    BY <1>1, <1>2 DEF ToSet
  <2>3. p \in ToSet(t)
    BY <1>1, <1>2 DEF ToSet
  <2> QED
    BY <1>1, <2>1, <2>2, <2>3 DEF ToSet
<1> QED
  BY <1>1, <1>4, <1>5 DEF n, t

-----------------------------------------------------------------------------
(* The steps of pick_targets.                                              *)

\* The list of a new call is split between the pools, and last_peers becomes the
\* previous selection.
LEMMA CallSplits ==
    ASSUME ListsOK, SplitInv, NEW ps \in Orders, NEW k \in 0..MaxSlots, Call(ps, k)
    PROVE  ListsOK' /\ SplitInv'
<1>1. ps \in Seq(Peers) /\ IsInjective(ps) /\ ToSet(ps) \subseteq Peers
  BY OrdersOfPeers, ListMembers
<1>2. /\ fresh' \in Seq(Peers) /\ IsInjective(fresh')
      /\ ToSet(fresh') = ToSet(ps) \cap (Peers \ lastPeers)
  BY <1>1, PoolOf DEF Call
<1>3. /\ used' \in Seq(Peers) /\ IsInjective(used')
      /\ ToSet(used') = ToSet(ps) \cap lastPeers
  BY <1>1, PoolOf DEF Call
<1>4. /\ picking' = TRUE /\ scope' = "Global" /\ peers' = ps /\ slots' = k
      /\ chosen' = << >> /\ previous' = lastPeers /\ lastPeers' = lastPeers
      /\ UNCHANGED <<cursor, wait>>
  BY DEF Call, SplitInv, turnVars, ListsOK
<1>5. ListsOK'
  BY <1>1, <1>2, <1>3, <1>4, NoneChosen DEF ListsOK
<1>6. Len(fresh') + Len(used') = Len(ps)
  <2>1. /\ IsFiniteSet(ToSet(ps)) /\ Cardinality(ToSet(ps)) = Len(ps)
        /\ Cardinality(ToSet(fresh')) = Len(fresh')
        /\ Cardinality(ToSet(used')) = Len(used')
    BY <1>1, <1>2, <1>3, DistinctLength
  <2>2. ToSet(fresh') = ToSet(ps) \ lastPeers
    BY <1>1, <1>2
  <2>3. Cardinality(ToSet(ps) \ lastPeers) =
          Cardinality(ToSet(ps)) - Cardinality(ToSet(ps) \cap lastPeers)
    BY <2>1, FS_Difference
  <2>4. Len(ps) \in Nat /\ Len(used') \in Nat /\ Len(fresh') \in Nat
    BY <1>1, <1>2, <1>3
  <2> QED
    BY <1>3, <2>1, <2>2, <2>3, <2>4
<1>7. Len(ps) \in Nat /\ Len(fresh') \in Nat /\ Len(used') \in Nat
  BY <1>1, <1>2, <1>3
<1>8. 0 <= Lesser(k, Len(ps))
  BY <1>7 DEF Lesser
<1>9. /\ ToSet(chosen') = {} /\ Len(chosen') = 0
      /\ ToSet(fresh') \cup ToSet(used') = ToSet(ps)
      /\ ToSet(fresh') \cap lastPeers = {} /\ ToSet(used') \subseteq lastPeers
  BY <1>1, <1>2, <1>3, <1>4, NoneChosen
<1> QED
  BY <1>4, <1>5, <1>6, <1>7, <1>8, <1>9 DEF SplitInv

LEMMA PickSplits ==
    ASSUME ListsOK, SplitInv, PickOne
    PROVE  ListsOK' /\ SplitInv'
<1>1. /\ picking /\ Len(chosen) < Lesser(slots, Len(peers))
      /\ cursor' = Advanced(cursor)
      /\ UNCHANGED <<scope, peers, picking, slots, lastPeers, previous, wait>>
  BY DEF PickOne, turnVars
<1>2. PICK p \in Peers :
        /\ chosen' = Append(chosen, p)
        /\ \/ /\ p \in ToSet(fresh) /\ used' = used
              /\ fresh' \in Seq(Peers) /\ IsInjective(fresh')
              /\ Len(fresh') = Len(fresh) - 1
              /\ ToSet(fresh') = ToSet(fresh) \ {p}
           \/ /\ fresh = << >> /\ p \in ToSet(used) /\ fresh' = fresh
              /\ used' \in Seq(Peers) /\ IsInjective(used')
              /\ Len(used') = Len(used) - 1
              /\ ToSet(used') = ToSet(used) \ {p}
  BY PickMoves
<1>3. p \notin ToSet(chosen)
  BY <1>1, <1>2 DEF SplitInv
<1>4. /\ chosen' \in Seq(Peers) /\ IsInjective(chosen')
      /\ Len(chosen') = Len(chosen) + 1 /\ ToSet(chosen') = ToSet(chosen) \cup {p}
  BY <1>2, <1>3, ChosenGrows DEF ListsOK
<1>5. ListsOK'
  <2>1. /\ fresh' \in Seq(Peers) /\ IsInjective(fresh')
        /\ used' \in Seq(Peers) /\ IsInjective(used')
    BY <1>2 DEF ListsOK
  <2>2. cursor' \in Words
    BY <1>1, CursorType DEF ListsOK
  <2> QED
    BY <1>1, <1>4, <2>1, <2>2 DEF ListsOK
<1>6. /\ Len(chosen) \in Nat /\ Len(fresh) \in Nat /\ Len(used) \in Nat
      /\ Len(peers) \in Nat /\ slots \in Nat
  BY DEF ListsOK
<1>7. /\ Len(chosen') + Len(fresh') + Len(used') = Len(peers)
      /\ Len(chosen') <= Lesser(slots, Len(peers))
  <2>1. Len(fresh') + Len(used') = Len(fresh) + Len(used) - 1
    BY <1>2, <1>6
  <2>2. Len(fresh') \in Nat /\ Len(used') \in Nat /\ Len(chosen') \in Nat
    BY <1>5 DEF ListsOK
  <2>3. Lesser(slots, Len(peers)) \in Nat
    BY <1>6 DEF Lesser
  <2>4. Len(chosen) + Len(fresh) + Len(used) = Len(peers)
    BY <1>1 DEF SplitInv
  <2> QED
    BY <1>1, <1>4, <1>6, <2>1, <2>2, <2>3, <2>4
<1>8. CASE fresh # << >>
  <2>1. /\ p \in ToSet(fresh) /\ used' = used /\ ToSet(fresh') = ToSet(fresh) \ {p}
    BY <1>2, <1>8
  <2> QED
    BY <1>1, <1>3, <1>4, <1>5, <1>7, <1>8, <2>1 DEF SplitInv
<1>9. CASE fresh = << >>
  <2>1. /\ p \in ToSet(used) /\ fresh' = fresh /\ ToSet(used') = ToSet(used) \ {p}
    BY <1>2, <1>9, NoneChosen
  <2> QED
    BY <1>1, <1>3, <1>4, <1>5, <1>7, <1>9, <2>1 DEF SplitInv
<1> QED
  BY <1>8, <1>9

LEMMA ListsStep == ListsOK /\ SplitInv /\ [Next]_vars => ListsOK' /\ SplitInv'
<1> SUFFICES ASSUME ListsOK, SplitInv, [Next]_vars
             PROVE  ListsOK' /\ SplitInv'
  OBVIOUS
<1>1. ASSUME NEW ps \in Orders, NEW k \in 0..MaxSlots, Call(ps, k)
      PROVE  ListsOK' /\ SplitInv'
  BY <1>1, CallSplits
<1>2. CASE PickOne
  BY <1>2, PickSplits
<1>3. CASE Return
  BY <1>3 DEF Return, Returning, ListsOK, SplitInv, turnVars
<1>4. CASE scope = "PerConnection" /\ UNCHANGED <<scope, globalVars>> /\ ListsOK'
  BY <1>4 DEF ListsOK, SplitInv, globalVars
<1>5. ASSUME NEW p \in Peers, Connect(p)
      PROVE  ListsOK' /\ SplitInv'
  <2>1. connected \cup {p} \in SUBSET Peers
    BY ListMembers DEF ListsOK, connected
  <2>2. peers' \in Orders
    BY <1>5, <2>1 DEF Connect, Orders, SetToAllKPermutations
  <2>3. wait' \in [Peers -> 0..MaxWait]
    BY <1>5, BoundsAssumption DEF Connect, NoWait
  <2> QED
    BY <1>4, <1>5, <2>2, <2>3, OrdersOfPeers DEF Connect, ListsOK, globalVars
<1>6. ASSUME NEW p \in Peers, Disconnect(p)
      PROVE  ListsOK' /\ SplitInv'
  <2>1. PICK i \in 1..Len(peers) : peers' = RemoveAt(peers, i)
    BY <1>6 DEF Disconnect
  <2>2. peers' \in Seq(Peers) /\ IsInjective(peers')
    BY <2>1, DistinctRemoved DEF ListsOK
  <2>3. wait' \in [Peers -> 0..MaxWait]
    BY <1>6, BoundsAssumption DEF Disconnect, NoWait
  <2> QED
    BY <1>4, <1>6, <2>2, <2>3 DEF Disconnect, ListsOK, globalVars
<1>7. CASE Tick
  <2>1. wait' \in [Peers -> 0..MaxWait]
    BY <1>7, BoundsAssumption DEF Tick, ListsOK
  <2>2. cursor' \in Words
    BY <1>7, CursorType DEF Tick, ListsOK
  <2> QED
    BY <1>4, <1>7, <2>1, <2>2 DEF Tick, ListsOK, globalVars
<1>8. CASE UNCHANGED vars
  BY <1>8 DEF ListsOK, SplitInv, vars, globalVars, turnVars
<1> QED
  BY <1>1, <1>2, <1>3, <1>5, <1>6, <1>7, <1>8 DEF Next

LEMMA ListsAlways == Spec => [](ListsOK /\ SplitInv)
<1>1. Init => SplitInv
  BY NoneChosen DEF Init, SplitInv
<1> QED
  BY <1>1, ListsInit, ListsStep, PTL DEF Spec

\* Every pick finds a peer in the pool it turns to.
THEOREM PicksDefined == Spec => []PickDefined
<1>1. ListsOK /\ SplitInv => PickDefined
  <2> SUFFICES ASSUME ListsOK, SplitInv, picking, Len(chosen) < Lesser(slots, Len(peers))
               PROVE  LET pool == IF FromUsed THEN used ELSE fresh
                      IN  /\ pool # << >>
                          /\ ToSet(chosen) \cup ToSet(fresh) \cup ToSet(used) = ToSet(peers)
                          /\ \A offset \in 0..Len(pool) - 1 :
                               Position(cursor, offset, Len(pool)) < Len(pool)
    BY DEF PickDefined
  <2> DEFINE pool == IF FromUsed THEN used ELSE fresh
  <2>1. /\ Len(chosen) \in Nat /\ Len(fresh) \in Nat /\ Len(used) \in Nat
        /\ Len(peers) \in Nat /\ slots \in Nat
    BY DEF ListsOK
  <2>2. Len(chosen) < Len(peers)
    BY <2>1 DEF Lesser
  <2>3. Len(fresh) # 0 \/ Len(used) # 0
    BY <2>1, <2>2 DEF SplitInv
  <2>4. pool # << >> /\ Len(pool) \in Nat \ {0}
    BY <2>1, <2>3 DEF FromUsed, ListsOK
  <2>5. \A offset \in 0..Len(pool) - 1 :
          Position(cursor, offset, Len(pool)) \in 0..(Len(pool) - 1)
    <3>1. \A offset \in 0..Len(pool) - 1 : offset \in Nat
      BY <2>4
    <3>2. cursor \in Words
      BY DEF ListsOK
    <3> QED
      BY <2>4, <3>1, <3>2, PositionInside
  <2>6. \A offset \in 0..Len(pool) - 1 : Position(cursor, offset, Len(pool)) < Len(pool)
    BY <2>4, <2>5
  <2> QED
    BY <2>4, <2>6 DEF SplitInv
<1> QED
  BY <1>1, ListsAlways, PTL

-----------------------------------------------------------------------------
(* What a finished selection is.                                           *)

\* When the slots are filled, the chosen peers prefer the fresh ones.
LEMMA ReturnPicks ==
    ASSUME ListsOK, SplitInv, Return
    PROVE  /\ ToSet(chosen) \in Picks(ToSet(peers), slots, previous)
           /\ IsInjective(chosen)
           /\ \/ ToSet(chosen) \cap previous = {}
              \/ ToSet(peers) \ previous \subseteq ToSet(chosen)
<1>1. picking /\ Len(chosen) >= Lesser(slots, Len(peers))
  BY DEF Return, Returning
<1>2. /\ Cardinality(ToSet(chosen)) = Len(chosen)
      /\ Cardinality(ToSet(peers)) = Len(peers)
  BY DistinctLength DEF ListsOK
<1>3. /\ Len(chosen) \in Nat /\ Len(peers) \in Nat /\ slots \in Nat
      /\ Lesser(slots, Len(peers)) \in Nat
  BY DEF ListsOK, Lesser
<1>4. Len(chosen) = Lesser(slots, Len(peers))
  BY <1>1, <1>3 DEF SplitInv
<1>5. ToSet(chosen) \subseteq ToSet(peers)
  BY <1>1 DEF SplitInv
<1>6. \/ ToSet(chosen) \cap previous = {}
      \/ ToSet(peers) \ previous \subseteq ToSet(chosen)
  BY <1>1, NoneChosen DEF SplitInv
<1> QED
  BY <1>2, <1>4, <1>5, <1>6 DEF Picks, ListsOK

\* pick_targets returns what GlobalScope's dispatch takes it to return.
THEOREM PicksReturned == Spec => ReturnsAPick
<1>1. ListsOK /\ SplitInv =>
        [Return => /\ ToSet(chosen) \in Picks(ToSet(peers), slots, previous)
                   /\ IsInjective(chosen)]_vars
  BY ReturnPicks
<1> QED
  BY <1>1, ListsAlways, PTL DEF ReturnsAPick, Spec

\* A finished selection repeats nobody of the previous one, or it has all of the
\* others.
SpreadInv ==
    scope = "Global" /\ ~picking =>
        \/ ToSet(chosen) \cap previous = {}
        \/ ToSet(peers) \ previous \subseteq ToSet(chosen)

LEMMA SpreadStep == ListsOK /\ SplitInv /\ SpreadInv /\ [Next]_vars => SpreadInv'
<1> SUFFICES ASSUME ListsOK, SplitInv, SpreadInv, [Next]_vars
             PROVE  SpreadInv'
  OBVIOUS
<1>1. CASE Return
  BY <1>1, ReturnPicks DEF Return, Returning, SpreadInv
<1>2. CASE picking'
  BY <1>2 DEF SpreadInv
<1>3. CASE scope' = "PerConnection"
  BY <1>3 DEF SpreadInv
<1>4. CASE UNCHANGED vars
  BY <1>4 DEF SpreadInv, vars, globalVars
<1>5. CASE PickOne \/ \E ps \in Orders, k \in 0..MaxSlots : Call(ps, k)
  BY <1>2, <1>5 DEF PickOne, Call
<1>6. CASE Tick \/ \E p \in Peers : Connect(p) \/ Disconnect(p)
  BY <1>3, <1>6 DEF Tick, Connect, Disconnect
<1> QED
  BY <1>1, <1>4, <1>5, <1>6 DEF Next

\* Two selections in a row reach as many peers as they have picks, or all of them.
THEOREM SelectionsSpread == Spec => []TwoTicksSpread
<1>1. Init => SpreadInv
  BY NoneChosen DEF Init, SpreadInv
<1>2. ListsOK /\ SpreadInv => TwoTicksSpread
  <2> SUFFICES ASSUME ListsOK, SpreadInv, scope = "Global", ~picking
               PROVE  LET ps == ToSet(peers)
                      IN  Cardinality((previous \cap ps) \cup ToSet(chosen)) >=
                            Lesser(Cardinality(ps),
                                   Cardinality(previous \cap ps) + Len(chosen))
    BY DEF TwoTicksSpread
  <2> DEFINE ps == ToSet(peers)
             again == previous \cap ps
             got == ToSet(chosen)
  <2>1. /\ IsFiniteSet(ps) /\ IsFiniteSet(got) /\ Cardinality(got) = Len(chosen)
        /\ IsFiniteSet(again)
    BY DistinctLength, FS_Intersection DEF ListsOK
  <2> HIDE DEF ps, got, again
  <2>2. /\ IsFiniteSet(again \cup got)
        /\ Cardinality(again \cup got) =
             Cardinality(again) + Cardinality(got) - Cardinality(again \cap got)
        /\ Cardinality(again) \in Nat /\ Cardinality(got) \in Nat
        /\ Cardinality(ps) \in Nat /\ Cardinality(again \cup got) \in Nat
    BY <2>1, FS_Union, FS_CardinalityType
  <2>3. CASE got \cap previous = {}
    <3>1. again \cap got = {}
      BY <2>3 DEF again
    <3>2. Cardinality(again \cup got) = Cardinality(again) + Len(chosen)
      <4>1. Cardinality(again \cap got) = 0
        BY <3>1, FS_EmptySet
      <4> QED
        BY <2>1, <2>2, <4>1
    <3> QED
      BY <2>1, <2>2, <3>2 DEF Lesser, ps, got, again
  <2>4. CASE ps \ previous \subseteq got
    <3>1. ps \in SUBSET (again \cup got)
      BY <2>4 DEF again
    <3>2. Cardinality(ps) <= Cardinality(again \cup got)
      BY <2>2, <3>1, FS_Subset
    <3> QED
      BY <2>1, <2>2, <3>2 DEF Lesser, ps, got, again
  <2> QED
    BY <2>3, <2>4 DEF SpreadInv, ps, got
<1> QED
  BY <1>1, <1>2, SpreadStep, ListsAlways, PTL DEF Spec

-----------------------------------------------------------------------------
(* Round robin.                                                            *)

\* How many ticks the cursor needs from c to the k-th of n peers (counted from 0) if
\* it does not wrap.
Until(c, k, n) == IF c % n <= k THEN k - (c % n) ELSE k - (c % n) + n

\* A peer that has waited w ticks waits no longer than what is left of the round;
\* or the cursor has wrapped and is in its first pass over the list, and the peer
\* has also waited through the round that the wrap cut off.
Patient(c, k, n, w) ==
    \/ w + Until(c, k, n) <= n - 1
    \/ c <= k /\ w + (k - c) <= n - 1 + (CursorModulus % n)

WaitInv ==
    scope = "PerConnection" /\ ~Randomize =>
        \A i \in 1..Len(peers) : Patient(cursor, i - 1, Len(peers), wait[peers[i]])

LEMMA UntilRange ==
    ASSUME NEW n \in Nat \ {0}, NEW c \in Nat, NEW k \in 0..(n - 1)
    PROVE  /\ c % n \in 0..(n - 1)
           /\ Until(c, k, n) \in 0..(n - 1) /\ Patient(c, k, n, 0)
<1>1. c % n \in 0..(n - 1)
  BY ModBounds
<1> DEFINE r == c % n
<1> HIDE DEF r
<1>2. (IF r <= k THEN k - r ELSE k - r + n) \in 0..(n - 1)
  BY <1>1 DEF r
<1> QED
  BY <1>1, <1>2 DEF Until, Patient, r

\* One tick: the peer whose turn it is starts again, the others wait one more.
LEMMA TurnPatient ==
    ASSUME CursorModulus \in Nat \ {0}, NEW n \in 1..CursorModulus, cursor \in Words,
           NEW k \in 0..(n - 1), NEW w \in Nat, NEW v \in Nat,
           Patient(cursor, k, n, w),
           IF cursor % n = k THEN v = 0 ELSE v <= w + 1
    PROVE  Patient(Advanced(cursor), k, n, v)
<1> DEFINE M == CursorModulus
           r == cursor % n
           s == (cursor + 1) % n
<1>1. /\ M \in Nat \ {0} /\ n \in Nat \ {0} /\ n <= M
      /\ cursor \in Nat /\ cursor < M
      /\ Advanced(cursor) = IF cursor = M - 1 THEN 0 ELSE cursor + 1
  BY CursorType
<1>2. /\ r \in 0..(n - 1)
      /\ s = IF r = n - 1 THEN 0 ELSE r + 1
  BY <1>1, ModBounds, ModNext
<1>3. /\ Until(cursor, k, n) = IF r <= k THEN k - r ELSE k - r + n
      /\ Until(cursor + 1, k, n) = IF s <= k THEN k - s ELSE k - s + n
  BY DEF Until
<1>4. cursor <= k => r = cursor
  BY <1>1, ModSmall
<1>5. cursor = M - 1 => M % n = s
  BY <1>1
<1>6. M % n \in Nat
  BY <1>1, ModBounds
<1>7. IF r = k THEN v = 0 ELSE v <= w + 1
  OBVIOUS
<1>8. \/ w + Until(cursor, k, n) <= n - 1
      \/ cursor <= k /\ w + (k - cursor) <= n - 1 + (M % n)
  BY DEF Patient
<1> DEFINE m == M % n
<1> HIDE DEF r, s, m
<1>9. CASE cursor # M - 1
  <2>1. CASE w + Until(cursor, k, n) <= n - 1
    <3>1. v + Until(cursor + 1, k, n) <= n - 1
      BY <1>1, <1>2, <1>3, <1>7, <2>1
    <3> QED
      BY <1>1, <1>9, <3>1 DEF Patient
  <2>2. CASE cursor <= k /\ w + (k - cursor) <= n - 1 + m
    <3>1. CASE cursor = k
      <4>1. v = 0
        BY <1>4, <1>7, <3>1
      <4> QED
        BY <1>1, <1>9, <4>1, UntilRange
    <3>2. CASE cursor # k
      <4>1. cursor + 1 <= k /\ v + (k - (cursor + 1)) <= n - 1 + m
        BY <1>1, <1>4, <1>6, <1>7, <2>2, <3>2 DEF m
      <4> QED
        BY <1>1, <1>9, <4>1 DEF Patient, m
    <3> QED
      BY <3>1, <3>2
  <2> QED
    BY <1>8, <2>1, <2>2 DEF m
<1>10. CASE cursor = M - 1
  <2>1. CASE r = k
    <3>1. v = 0 /\ Advanced(cursor) = 0
      BY <1>1, <1>7, <1>10, <2>1
    <3> QED
      BY <1>1, <3>1, UntilRange
  <2>2. CASE r # k
    <3>1. w + Until(cursor, k, n) <= n - 1
      BY <1>1, <1>4, <1>8, <1>10, <2>2
    <3>2. v + k <= n - 1 + s
      BY <1>1, <1>2, <1>3, <1>7, <2>2, <3>1
    <3>3. Advanced(cursor) = 0 /\ 0 <= k /\ v + (k - 0) <= n - 1 + (M % n)
      BY <1>1, <1>5, <1>10, <3>2
    <3> QED
      BY <3>3 DEF Patient
  <2> QED
    BY <2>1, <2>2
<1> QED
  BY <1>9, <1>10

\* A list fits the cursor.
LEMMA ListFits ==
    ASSUME ListsOK
    PROVE  Len(peers) \in Nat /\ Len(peers) <= CursorModulus
<1>1. ToSet(peers) \in SUBSET Peers
  BY ListMembers DEF ListsOK
<1>2. Cardinality(ToSet(peers)) = Len(peers) /\ Len(peers) \in Nat
  BY DistinctLength DEF ListsOK
<1>3. Cardinality(ToSet(peers)) <= Cardinality(Peers) /\ Cardinality(Peers) \in Nat
  BY <1>1, PeersAssumption, FS_Subset, FS_CardinalityType
<1> QED
  BY <1>2, <1>3, PeersAssumption, CursorAssumption

\* A wait that starts anew is within the bound wherever the cursor is.
LEMMA FreshWait ==
    ASSUME ListsOK, wait = NoWait
    PROVE  WaitInv
<1> SUFFICES ASSUME NEW i \in 1..Len(peers)
             PROVE  Patient(cursor, i - 1, Len(peers), wait[peers[i]])
  BY DEF WaitInv
<1>1. /\ Len(peers) \in Nat \ {0} /\ i - 1 \in 0..(Len(peers) - 1)
      /\ peers[i] \in Peers /\ cursor \in Nat
  BY CursorType DEF ListsOK
<1>2. wait[peers[i]] = 0
  BY <1>1 DEF NoWait
<1> QED
  BY <1>1, <1>2, UntilRange

LEMMA WaitTick ==
    ASSUME ListsOK, WaitInv, Tick
    PROVE  WaitInv'
<1> SUFFICES ASSUME ~Randomize, NEW i \in 1..Len(peers)
             PROVE  Patient(cursor', i - 1, Len(peers), wait'[peers[i]])
  BY DEF WaitInv, Tick
<1> DEFINE n == Len(peers)
           p == peers[i]
<1>1. /\ n \in 1..CursorModulus /\ n \in Nat \ {0}
      /\ i - 1 \in 0..(n - 1) /\ p \in Peers
      /\ cursor \in Words /\ cursor \in Nat /\ cursor < CursorModulus
      /\ CursorModulus \in Nat \ {0}
  BY ListFits, CursorType, CursorAssumption DEF ListsOK
<1>2. Position(cursor, 0, n) = cursor % n
  <2>1. cursor + 0 = cursor /\ cursor % CursorModulus = cursor
    BY <1>1, ModSmall
  <2> QED
    BY <2>1 DEF Position, Wrapped
<1>3. served' = {peers[(cursor % n) + 1]}
  BY <1>2 DEF Tick, Offsets, Turn
<1> DEFINE r == cursor % n
<1>4. r \in 0..(n - 1)
  BY <1>1, UntilRange
<1>5. p \in served' <=> cursor % n = i - 1
  <2> HIDE DEF r
  <2>1. r + 1 \in 1..n /\ DOMAIN peers = 1..n
    BY <1>1, <1>4 DEF ListsOK
  <2>2. peers[r + 1] = peers[i] <=> r + 1 = i
    BY <2>1 DEF ListsOK, IsInjective
  <2>3. r + 1 = i <=> r = i - 1
    BY <1>1, <1>4
  <2> QED
    BY <1>3, <2>2, <2>3 DEF r
<1>6. p \in connected
  BY <1>1, ListMembers DEF ListsOK, connected
<1>7. wait[p] \in Nat /\ wait'[p] \in Nat
  BY <1>1, BoundsAssumption DEF ListsOK, Tick
<1>8. IF cursor % n = i - 1 THEN wait'[p] = 0 ELSE wait'[p] <= wait[p] + 1
  BY <1>1, <1>5, <1>6, <1>7 DEF Tick
<1>9. Patient(cursor, i - 1, n, wait[p])
  BY DEF WaitInv, Tick
<1>10. Patient(Advanced(cursor), i - 1, n, wait'[p])
  BY <1>1, <1>7, <1>8, <1>9, TurnPatient
<1> QED
  BY <1>10 DEF Tick

LEMMA WaitStep == ListsOK /\ SplitInv /\ WaitInv /\ [Next]_vars => WaitInv'
<1> SUFFICES ASSUME ListsOK, SplitInv, WaitInv, [Next]_vars
             PROVE  WaitInv'
  OBVIOUS
<1>1. ListsOK'
  BY ListsStep
<1>2. CASE wait' = NoWait
  <2>1. (ListsOK /\ wait = NoWait => WaitInv)'
    BY FreshWait, PTL
  <2> QED
    BY <1>1, <1>2, <2>1 DEF NoWait
<1>3. CASE Tick
  BY <1>3, WaitTick
<1>4. CASE UNCHANGED <<scope, peers, cursor, wait>> \/ scope' = "Global"
  BY <1>4 DEF WaitInv
<1>5. CASE PickOne \/ Return \/ UNCHANGED vars
  BY <1>4, <1>5 DEF PickOne, Return, Returning, vars, turnVars, ListsOK
<1>6. CASE \E ps \in Orders, k \in 0..MaxSlots : Call(ps, k)
  BY <1>4, <1>6 DEF Call
<1>7. CASE \E p \in Peers : Connect(p) \/ Disconnect(p)
  BY <1>2, <1>7 DEF Connect, Disconnect
<1> QED
  BY <1>3, <1>5, <1>6, <1>7 DEF Next

\* While the connections do not change, nobody waits longer than a round and the
\* length of the one that the cursor's wrap cuts off.
THEOREM WaitsBounded == Spec => []WaitBound
<1>1. Init => WaitInv
  BY ListsInit, FreshWait DEF Init
<1>2. ListsOK /\ WaitInv => WaitBound
  <2> SUFFICES ASSUME ListsOK, WaitInv, scope = "PerConnection", ~Randomize,
                      NEW p \in connected
               PROVE  wait[p] <= Len(peers) - 1 + (CursorModulus % Len(peers))
    BY DEF WaitBound
  <2> DEFINE n == Len(peers)
  <2>1. PICK i \in 1..n : peers[i] = p
    BY ListMembers DEF ListsOK, connected
  <2>2. /\ n \in Nat \ {0} /\ i - 1 \in 0..(n - 1) /\ p \in Peers
        /\ wait[p] \in Nat /\ cursor \in Nat
    BY <2>1, BoundsAssumption, CursorType DEF ListsOK
  <2>3. CursorModulus % n \in Nat
    BY <2>2, CursorAssumption, ModBounds
  <2>4. Until(cursor, i - 1, n) \in 0..(n - 1)
    BY <2>2, UntilRange
  <2>5. Patient(cursor, i - 1, n, wait[p])
    BY <2>1 DEF WaitInv
  <2> HIDE DEF n
  <2>6. wait[p] <= n - 1 + (CursorModulus % n)
    BY <2>2, <2>3, <2>4, <2>5 DEF Patient
  <2> QED
    BY <2>6 DEF n
<1> QED
  BY <1>1, <1>2, WaitStep, ListsAlways, PTL DEF Spec
=============================================================================
