----------------------------- MODULE LaneProofs -----------------------------
(***************************************************************************)
(* What the lane operators do to a lane, whatever its frames are: the      *)
(* facts that the proofs about both scopes rest on.                        *)
(***************************************************************************)
EXTENDS Lanes, Integers, TLAPS

Ascending(lane)  == \A i, j \in 1..Len(lane) : i < j => lane[i].id < lane[j].id
Descending(lane) == \A i, j \in 1..Len(lane) : i < j => lane[j].id < lane[i].id

\* The shape of a result `new`: how long it is and where its elements come from.
IsPopped(new, lane) ==
    /\ Len(lane) \in Nat /\ Len(new) \in Nat /\ Len(new) = Len(lane) - 1
    /\ \A i \in 1..Len(new) : i + 1 \in 1..Len(lane) /\ new[i] = lane[i + 1]

IsPushedBack(new, lane, f, gone) ==
    /\ Len(lane) \in Nat /\ Len(new) \in Nat
    /\ gone \in {0, 1} /\ Len(new) = Len(lane) + 1 - gone
    /\ \A i \in 1..Len(new) - 1 : i + gone \in 1..Len(lane) /\ new[i] = lane[i + gone]
    /\ new[Len(new)] = f /\ Len(new) >= 1
    /\ Len(new) <= HighCap /\ (gone = 1 => Len(new) = HighCap)

IsPushedFront(new, lane, f) ==
    /\ Len(lane) \in Nat /\ Len(new) \in Nat
    /\ Len(new) = Len(lane) + 1 \/ (Len(new) = Len(lane) /\ Len(new) = LowCap)
    /\ Len(new) \in 1..LowCap
    /\ new[1] = f
    /\ \A i \in 2..Len(new) : i - 1 \in 1..Len(lane) /\ new[i] = lane[i - 1]

\* How many frames an evicting push gives up.
Gone(lane) == IF HighFull(lane) THEN 1 ELSE 0

-----------------------------------------------------------------------------
(* Shapes.                                                                 *)

LEMMA PopShape ==
    ASSUME NEW S, NEW lane \in Seq(S), lane # << >>
    PROVE  /\ Pop(lane) \in Seq(S) /\ IsPopped(Pop(lane), lane)
           /\ Head(lane) = lane[1] /\ 1 \in 1..Len(lane)
           /\ Head(lane) \in S
BY DEF Pop, IsPopped

LEMMA PushHighShape ==
    ASSUME NEW S, NEW lane \in Seq(S), NEW f \in S, ~HighFull(lane), Len(lane) <= HighCap
    PROVE  /\ PushHigh(lane, f) \in Seq(S)
           /\ IsPushedBack(PushHigh(lane, f), lane, f, 0)
BY CapsAssumption DEF PushHigh, HighFull, IsPushedBack

\* A full lane loses its front frame; the others move one place forward.
LEMMA PushHighEvictingShape ==
    ASSUME NEW S, NEW lane \in Seq(S), NEW f \in S, Len(lane) <= HighCap
    PROVE  /\ PushHighEvicting(lane, f) \in Seq(S)
           /\ IsPushedBack(PushHighEvicting(lane, f), lane, f, Gone(lane))
<1>1. CASE HighFull(lane)
  <2> DEFINE kept == SubSeq(lane, 2, Len(lane))
  <2>1. Len(lane) = HighCap /\ HighCap \in Nat \ {0} /\ Gone(lane) = 1
    BY <1>1, CapsAssumption DEF HighFull, Gone
  <2>2. PushHighEvicting(lane, f) = Append(kept, f)
    BY <1>1, <2>1 DEF PushHighEvicting
  <2>3. /\ kept \in Seq(S) /\ Len(kept) = Len(lane) - 1
        /\ \A i \in 1..Len(kept) : i + 1 \in 1..Len(lane) /\ kept[i] = lane[i + 1]
    BY <2>1
  <2> HIDE DEF kept
  <2>4. /\ Append(kept, f) \in Seq(S) /\ Len(Append(kept, f)) = Len(kept) + 1
        /\ \A i \in 1..Len(kept) : Append(kept, f)[i] = kept[i]
        /\ Append(kept, f)[Len(kept) + 1] = f
    BY <2>3
  <2> QED
    BY <2>1, <2>2, <2>3, <2>4 DEF IsPushedBack
<1>2. CASE ~HighFull(lane)
  <2>1. PushHighEvicting(lane, f) = PushHigh(lane, f) /\ Gone(lane) = 0
    BY <1>2 DEF PushHighEvicting, PushHigh, Gone
  <2> QED
    BY <1>2, <2>1, PushHighShape
<1> QED
  BY <1>1, <1>2

\* The new frame comes to the front, the others move one place back, and the lane
\* stays within its capacity.
LEMMA PushLowShape ==
    ASSUME NEW S, NEW lane \in Seq(S), NEW f \in S, Len(lane) <= LowCap
    PROVE  /\ PushLow(lane, f) \in Seq(S)
           /\ IsPushedFront(PushLow(lane, f), lane, f)
<1> DEFINE kept == IF Len(lane) >= LowCap THEN SubSeq(lane, 1, LowCap - 1) ELSE lane
<1>1. /\ kept \in Seq(S)
      /\ Len(kept) <= LowCap - 1
      /\ \/ Len(kept) = Len(lane)
         \/ Len(kept) = Len(lane) - 1 /\ Len(lane) = LowCap
      /\ \A i \in 1..Len(kept) : i \in 1..Len(lane) /\ kept[i] = lane[i]
  <2>1. CASE Len(lane) >= LowCap
    <3>1. /\ Len(lane) = LowCap /\ LowCap - 1 \in 0..Len(lane)
          /\ kept = SubSeq(lane, 1, LowCap - 1)
      BY <2>1, CapsAssumption
    <3>2. /\ kept \in Seq(S)
          /\ Len(kept) = LowCap - 1
          /\ \A i \in 1..LowCap - 1 : kept[i] = lane[i]
      BY <3>1, CapsAssumption
    <3> QED
      BY <3>1, <3>2
  <2>2. CASE ~(Len(lane) >= LowCap)
    BY <2>2, CapsAssumption
  <2> QED
    BY <2>1, <2>2
<1>2. PushLow(lane, f) = <<f>> \o kept
  BY DEF PushLow
<1>3. /\ <<f>> \in Seq(S) /\ Len(<<f>>) = 1 /\ <<f>>[1] = f
  OBVIOUS
<1> HIDE DEF kept
<1>4. /\ <<f>> \o kept \in Seq(S)
      /\ Len(<<f>> \o kept) = Len(kept) + 1
      /\ (<<f>> \o kept)[1] = f
      /\ \A i \in 2..Len(kept) + 1 : (<<f>> \o kept)[i] = kept[i - 1]
  BY <1>1, <1>3
<1>5. ASSUME NEW i \in 2..Len(kept) + 1
      PROVE  i - 1 \in 1..Len(lane) /\ (<<f>> \o kept)[i] = lane[i - 1]
  <2>1. Len(kept) \in Nat /\ i - 1 \in 1..Len(kept)
    BY <1>1
  <2> QED
    BY <1>1, <1>4, <2>1
<1>6. /\ Len(kept) + 1 <= LowCap /\ Len(kept) + 1 >= 1
      /\ \/ Len(kept) + 1 = Len(lane) + 1
         \/ Len(kept) + 1 = Len(lane) /\ Len(kept) + 1 = LowCap
  BY <1>1, CapsAssumption
<1> QED
  BY <1>2, <1>4, <1>5, <1>6, CapsAssumption DEF IsPushedFront

-----------------------------------------------------------------------------
(* Contents: which frames are in the result, and which are gone.           *)

LEMMA PopFrames ==
    ASSUME NEW S, NEW lane \in Seq(S), lane # << >>
    PROVE  FramesIn(lane) = {Head(lane)} \cup FramesIn(Pop(lane))
<1> DEFINE new == Pop(lane)
<1>1. IsPopped(new, lane) /\ Head(lane) = lane[1] /\ 1 \in 1..Len(lane)
  BY PopShape
<1> HIDE DEF new
<1>2. \A i \in 1..Len(lane) : i = 1 \/ (i - 1 \in 1..Len(new) /\ lane[i] = new[i - 1])
  BY <1>1 DEF IsPopped
<1>3. FramesIn(lane) = {lane[1]} \cup FramesIn(new)
  BY <1>1, <1>2 DEF FramesIn, IsPopped
<1> QED
  BY <1>1, <1>3 DEF new

LEMMA PushHighFrames ==
    ASSUME NEW S, NEW lane \in Seq(S), NEW f \in S, ~HighFull(lane), Len(lane) <= HighCap
    PROVE  FramesIn(PushHigh(lane, f)) = FramesIn(lane) \cup {f}
<1> DEFINE new == PushHigh(lane, f)
<1>1. IsPushedBack(new, lane, f, 0)
  BY PushHighShape
<1> HIDE DEF new
<1>2. 1..Len(new) = 1..Len(lane) \cup {Len(lane) + 1}
  BY <1>1 DEF IsPushedBack
<1>3. FramesIn(new) = FramesIn(lane) \cup {f}
  BY <1>1, <1>2 DEF FramesIn, IsPushedBack
<1> QED
  BY <1>3 DEF new

\* A full lane gives up its oldest frame, and is full again.
LEMMA PushHighEvictingFrames ==
    ASSUME NEW S, NEW lane \in Seq(S), NEW f \in S, Len(lane) <= HighCap,
           Ascending(lane), \A g \in FramesIn(lane) : g.id < f.id
    PROVE  /\ FramesIn(PushHighEvicting(lane, f)) \subseteq FramesIn(lane) \cup {f}
           /\ f \in FramesIn(PushHighEvicting(lane, f))
           /\ \A g \in FramesIn(lane) :
                \/ g \in FramesIn(PushHighEvicting(lane, f))
                \/ /\ Len(PushHighEvicting(lane, f)) = HighCap
                   /\ \A h \in FramesIn(PushHighEvicting(lane, f)) : g.id < h.id
<1> DEFINE new == PushHighEvicting(lane, f)
           gone == Gone(lane)
<1>1. IsPushedBack(new, lane, f, gone)
  BY PushHighEvictingShape
<1> HIDE DEF new, gone
<1>2. \A i \in 1..Len(new) : new[i] = f \/ (i + gone \in 1..Len(lane) /\ new[i] = lane[i + gone])
  BY <1>1 DEF IsPushedBack
<1>3. FramesIn(new) \subseteq FramesIn(lane) \cup {f} /\ f \in FramesIn(new)
  BY <1>1, <1>2 DEF FramesIn, IsPushedBack
<1>4. ASSUME NEW k \in 1..Len(lane)
      PROVE  \/ lane[k] \in FramesIn(new)
             \/ gone = 1 /\ \A h \in FramesIn(new) : lane[k].id < h.id
  <2>1. CASE k - gone \in 1..Len(new) - 1
    <3>1. Len(new) \in Nat /\ gone \in {0, 1}
      BY <1>1 DEF IsPushedBack
    <3>2. k - gone \in 1..Len(new) /\ (k - gone) + gone = k
      BY <2>1, <3>1
    <3>3. new[k - gone] = lane[(k - gone) + gone]
      BY <1>1, <2>1 DEF IsPushedBack
    <3> QED
      BY <3>2, <3>3 DEF FramesIn
  <2>2. CASE k - gone \notin 1..Len(new) - 1
    <3>1. gone = 1 /\ k = 1
      <4>1. /\ Len(new) \in Nat /\ Len(lane) \in Nat /\ gone \in {0, 1}
            /\ Len(new) = Len(lane) + 1 - gone
        BY <1>1 DEF IsPushedBack
      <4> QED
        BY <2>2, <4>1
    <3>2. ASSUME NEW i \in 1..Len(new)
          PROVE  lane[k].id < new[i].id
      <4>1. CASE new[i] = f
        BY <4>1 DEF FramesIn
      <4>2. CASE i + gone \in 1..Len(lane) /\ new[i] = lane[i + gone]
        <5>1. i \in Int /\ k < i + gone
          BY <1>1, <3>1 DEF IsPushedBack
        <5> QED
          BY <4>2, <5>1 DEF Ascending
      <4> QED
        BY <1>2, <4>1, <4>2
    <3> QED
      BY <3>1, <3>2 DEF FramesIn
  <2> QED
    BY <2>1, <2>2
<1>5. \A g \in FramesIn(lane) :
        g \in FramesIn(new) \/ (gone = 1 /\ \A h \in FramesIn(new) : g.id < h.id)
  BY <1>4 DEF FramesIn
<1> QED
  BY <1>1, <1>3, <1>5 DEF new, IsPushedBack

\* A full low lane gives up its oldest frame too, the one at the back.
LEMMA PushLowFrames ==
    ASSUME NEW S, NEW lane \in Seq(S), NEW f \in S, Len(lane) <= LowCap,
           Descending(lane), \A g \in FramesIn(lane) : g.id < f.id
    PROVE  /\ FramesIn(PushLow(lane, f)) \subseteq FramesIn(lane) \cup {f}
           /\ \A g \in FramesIn(lane) :
                \/ g \in FramesIn(PushLow(lane, f))
                \/ /\ Len(PushLow(lane, f)) = LowCap
                   /\ \A h \in FramesIn(PushLow(lane, f)) : g.id < h.id
<1> DEFINE new == PushLow(lane, f)
<1>1. IsPushedFront(new, lane, f)
  BY PushLowShape
<1> HIDE DEF new
<1>2. \A i \in 1..Len(new) : i = 1 \/ i \in 2..Len(new)
  BY <1>1 DEF IsPushedFront
<1>3. FramesIn(new) \subseteq FramesIn(lane) \cup {f}
  BY <1>1, <1>2 DEF FramesIn, IsPushedFront
<1>4. ASSUME NEW k \in 1..Len(lane)
      PROVE  \/ lane[k] \in FramesIn(new)
             \/ Len(new) = LowCap /\ \A h \in FramesIn(new) : lane[k].id < h.id
  <2>1. CASE k + 1 \in 2..Len(new)
    <3>1. new[k + 1] = lane[k] /\ k + 1 \in 1..Len(new)
      BY <1>1, <2>1 DEF IsPushedFront
    <3> QED
      BY <3>1 DEF FramesIn
  <2>2. CASE k + 1 \notin 2..Len(new)
    <3>1. k = Len(lane) /\ Len(new) = Len(lane) /\ Len(new) = LowCap
      BY <1>1, <2>2 DEF IsPushedFront
    <3>2. ASSUME NEW i \in 1..Len(new)
          PROVE  lane[k].id < new[i].id
      <4>1. CASE i = 1
        BY <1>1, <4>1 DEF FramesIn, IsPushedFront
      <4>2. CASE i \in 2..Len(new)
        <5>1. i - 1 \in 1..Len(lane) /\ new[i] = lane[i - 1] /\ i - 1 < k
          BY <1>1, <3>1, <4>2 DEF IsPushedFront
        <5> QED
          BY <5>1 DEF Descending
      <4> QED
        BY <1>2, <4>1, <4>2
    <3> QED
      BY <3>1, <3>2 DEF FramesIn
  <2> QED
    BY <2>1, <2>2
<1> QED
  BY <1>3, <1>4 DEF FramesIn, new

-----------------------------------------------------------------------------
(* Order: submission order survives every operation.                       *)

LEMMA PopOrder ==
    ASSUME NEW S, NEW lane \in Seq(S), lane # << >>
    PROVE  /\ Ascending(lane) =>
                Ascending(Pop(lane)) /\ \A g \in FramesIn(Pop(lane)) : Head(lane).id < g.id
           /\ Descending(lane) =>
                Descending(Pop(lane)) /\ \A g \in FramesIn(Pop(lane)) : g.id < Head(lane).id
<1> DEFINE new == Pop(lane)
<1>1. IsPopped(new, lane) /\ Head(lane) = lane[1] /\ 1 \in 1..Len(lane)
  BY PopShape
<1> HIDE DEF new
<1>2. \A i \in 1..Len(new) : /\ i + 1 \in 1..Len(lane) /\ new[i] = lane[i + 1]
                             /\ 1 < i + 1 /\ \A j \in 1..Len(new) : i < j => i + 1 < j + 1
  BY <1>1 DEF IsPopped
<1>3. Ascending(lane) => Ascending(new) /\ \A g \in FramesIn(new) : lane[1].id < g.id
  <2> SUFFICES ASSUME Ascending(lane)
               PROVE  Ascending(new) /\ \A g \in FramesIn(new) : lane[1].id < g.id
    OBVIOUS
  <2>1. Ascending(new)
    BY <1>2 DEF Ascending
  <2>2. \A i \in 1..Len(new) : lane[1].id < new[i].id
    BY <1>1, <1>2 DEF Ascending
  <2> QED
    BY <2>1, <2>2 DEF FramesIn
<1>4. Descending(lane) => Descending(new) /\ \A g \in FramesIn(new) : g.id < lane[1].id
  <2> SUFFICES ASSUME Descending(lane)
               PROVE  Descending(new) /\ \A g \in FramesIn(new) : g.id < lane[1].id
    OBVIOUS
  <2>1. Descending(new)
    BY <1>2 DEF Descending
  <2>2. \A i \in 1..Len(new) : new[i].id < lane[1].id
    BY <1>1, <1>2 DEF Descending
  <2> QED
    BY <2>1, <2>2 DEF FramesIn
<1> QED
  BY <1>1, <1>3, <1>4 DEF new

\* Pushing a newer frame at the back, whatever is evicted at the front.
LEMMA PushedBackOrder ==
    ASSUME NEW new, NEW lane, NEW f, NEW gone, IsPushedBack(new, lane, f, gone),
           Ascending(lane), \A g \in FramesIn(lane) : g.id < f.id
    PROVE  Ascending(new)
<1>1. ASSUME NEW i \in 1..Len(new), NEW j \in 1..Len(new), i < j
      PROVE  new[i].id < new[j].id
  <2>1. i + gone \in 1..Len(lane) /\ new[i] = lane[i + gone]
    BY <1>1 DEF IsPushedBack
  <2>2. CASE j = Len(new)
    BY <2>1, <2>2 DEF FramesIn, IsPushedBack
  <2>3. CASE j # Len(new)
    <3>1. Len(new) \in Nat /\ gone \in {0, 1}
      BY DEF IsPushedBack
    <3>2. j \in 1..Len(new) - 1 /\ i + gone < j + gone
      BY <1>1, <2>3, <3>1
    <3>3. j + gone \in 1..Len(lane) /\ new[j] = lane[j + gone]
      BY <3>2 DEF IsPushedBack
    <3> QED
      BY <2>1, <3>2, <3>3 DEF Ascending
  <2> QED
    BY <2>2, <2>3
<1> QED
  BY <1>1 DEF Ascending

LEMMA PushHighOrder ==
    ASSUME NEW S, NEW lane \in Seq(S), NEW f \in S, Len(lane) <= HighCap,
           Ascending(lane), \A g \in FramesIn(lane) : g.id < f.id
    PROVE  /\ ~HighFull(lane) => Ascending(PushHigh(lane, f))
           /\ Ascending(PushHighEvicting(lane, f))
<1>1. ~HighFull(lane) => IsPushedBack(PushHigh(lane, f), lane, f, 0)
  BY PushHighShape
<1>2. IsPushedBack(PushHighEvicting(lane, f), lane, f, Gone(lane))
  BY PushHighEvictingShape
<1> QED
  BY <1>1, <1>2, PushedBackOrder

LEMMA PushLowOrder ==
    ASSUME NEW S, NEW lane \in Seq(S), NEW f \in S, Len(lane) <= LowCap,
           Descending(lane), \A g \in FramesIn(lane) : g.id < f.id
    PROVE  Descending(PushLow(lane, f))
<1> DEFINE new == PushLow(lane, f)
<1>1. IsPushedFront(new, lane, f)
  BY PushLowShape
<1> HIDE DEF new
<1>2. ASSUME NEW i \in 1..Len(new), NEW j \in 1..Len(new), i < j
      PROVE  new[j].id < new[i].id
  <2>1. j - 1 \in 1..Len(lane) /\ new[j] = lane[j - 1]
    BY <1>1, <1>2 DEF IsPushedFront
  <2>2. CASE i = 1
    BY <1>1, <2>1, <2>2 DEF FramesIn, IsPushedFront
  <2>3. CASE i # 1
    <3>1. i - 1 \in 1..Len(lane) /\ new[i] = lane[i - 1] /\ i - 1 < j - 1
      BY <1>1, <1>2, <2>3 DEF IsPushedFront
    <3> QED
      BY <2>1, <3>1 DEF Descending
  <2> QED
    BY <2>2, <2>3
<1> QED
  BY <1>2 DEF Descending, new

-----------------------------------------------------------------------------
(* The two lanes together, with n frames accepted so far: within capacity, *)
(* in submission order, each holding frames of its own kind only.          *)

PairOrdered(h, l, n) ==
    /\ Len(h) <= HighCap /\ Len(l) <= LowCap
    /\ Ascending(h) /\ Descending(l)
    /\ \A f \in FramesIn(h) : f.lane = "high" /\ f.id \in 1..n
    /\ \A f \in FramesIn(l) : f.lane = "low" /\ f.id \in 1..n

LEMMA EmptyOrdered ==
    ASSUME NEW n
    PROVE  PairOrdered(<< >>, << >>, n)
BY CapsAssumption DEF PairOrdered, Ascending, Descending, FramesIn

\* A frame accepted elsewhere changes nothing here.
LEMMA PairElsewhere ==
    ASSUME NEW h, NEW l, NEW n \in Nat, PairOrdered(h, l, n)
    PROVE  PairOrdered(h, l, n + 1)
BY DEF PairOrdered

LEMMA PairPop ==
    ASSUME NEW S, NEW h \in Seq(S), NEW l \in Seq(S), NEW n, PairOrdered(h, l, n)
    PROVE  /\ h # << >> => PairOrdered(Pop(h), l, n)
           /\ l # << >> => PairOrdered(h, Pop(l), n)
<1>1. ASSUME h # << >>
      PROVE  PairOrdered(Pop(h), l, n)
  <2>1. FramesIn(Pop(h)) \subseteq FramesIn(h) /\ Ascending(Pop(h))
    BY <1>1, PopFrames, PopOrder DEF PairOrdered
  <2>2. IsPopped(Pop(h), h)
    BY <1>1, PopShape
  <2>3. Len(Pop(h)) <= HighCap
    BY <2>2, CapsAssumption DEF PairOrdered, IsPopped
  <2> QED
    BY <2>1, <2>3 DEF PairOrdered
<1>2. ASSUME l # << >>
      PROVE  PairOrdered(h, Pop(l), n)
  <2>1. FramesIn(Pop(l)) \subseteq FramesIn(l) /\ Descending(Pop(l))
    BY <1>2, PopFrames, PopOrder DEF PairOrdered
  <2>2. IsPopped(Pop(l), l)
    BY <1>2, PopShape
  <2>3. Len(Pop(l)) <= LowCap
    BY <2>2, CapsAssumption DEF PairOrdered, IsPopped
  <2> QED
    BY <2>1, <2>3 DEF PairOrdered
<1> QED
  BY <1>1, <1>2

LEMMA PairPushHigh ==
    ASSUME NEW S, NEW h \in Seq(S), NEW l, NEW n \in Nat, PairOrdered(h, l, n),
           NEW f \in S, f.lane = "high", f.id = n + 1
    PROVE  /\ ~HighFull(h) => PairOrdered(PushHigh(h, f), l, n + 1)
           /\ PairOrdered(PushHighEvicting(h, f), l, n + 1)
<1>1. Len(h) <= HighCap /\ Ascending(h) /\ \A g \in FramesIn(h) : g.id < f.id
  BY DEF PairOrdered
<1>2. ASSUME NEW new, NEW gone, IsPushedBack(new, h, f, gone), Ascending(new),
             FramesIn(new) \subseteq FramesIn(h) \cup {f}
      PROVE  PairOrdered(new, l, n + 1)
  <2>1. Len(new) <= HighCap
    BY <1>2 DEF IsPushedBack
  <2> QED
    BY <1>2, <2>1 DEF PairOrdered
<1>3. ASSUME ~HighFull(h)
      PROVE  PairOrdered(PushHigh(h, f), l, n + 1)
  <2>1. IsPushedBack(PushHigh(h, f), h, f, 0)
    BY <1>1, <1>3, PushHighShape
  <2>2. FramesIn(PushHigh(h, f)) \subseteq FramesIn(h) \cup {f}
    BY <1>1, <1>3, PushHighFrames
  <2>3. Ascending(PushHigh(h, f))
    BY <1>1, <2>1, PushedBackOrder
  <2> QED
    BY <1>2, <2>1, <2>2, <2>3
<1>4. PairOrdered(PushHighEvicting(h, f), l, n + 1)
  <2>1. IsPushedBack(PushHighEvicting(h, f), h, f, Gone(h))
    BY <1>1, PushHighEvictingShape
  <2>2. FramesIn(PushHighEvicting(h, f)) \subseteq FramesIn(h) \cup {f}
    BY <1>1, PushHighEvictingFrames
  <2>3. Ascending(PushHighEvicting(h, f))
    BY <1>1, <2>1, PushedBackOrder
  <2> QED
    BY <1>2, <2>1, <2>2, <2>3
<1> QED
  BY <1>3, <1>4

LEMMA PairPushLow ==
    ASSUME NEW S, NEW h, NEW l \in Seq(S), NEW n \in Nat, PairOrdered(h, l, n),
           NEW f \in S, f.lane = "low", f.id = n + 1
    PROVE  PairOrdered(h, PushLow(l, f), n + 1)
<1>1. Len(l) <= LowCap /\ Descending(l) /\ \A g \in FramesIn(l) : g.id < f.id
  BY DEF PairOrdered
<1>2. IsPushedFront(PushLow(l, f), l, f)
  BY <1>1, PushLowShape
<1>3. FramesIn(PushLow(l, f)) \subseteq FramesIn(l) \cup {f}
  BY <1>1, PushLowFrames
<1>4. Descending(PushLow(l, f))
  BY <1>1, PushLowOrder
<1>5. Len(PushLow(l, f)) <= LowCap
  BY <1>2, CapsAssumption DEF IsPushedFront
<1> QED
  BY <1>3, <1>4, <1>5 DEF PairOrdered
=============================================================================
