------------------------- MODULE GlobalScopeProofs -------------------------
(***************************************************************************)
(* Proofs about GlobalScope for every set of peers and tasks, every fanout *)
(* and capacity, timed or passthrough.                                     *)
(***************************************************************************)
EXTENDS GlobalScope, LaneProofs, FiniteSetTheorems, TLAPS

-----------------------------------------------------------------------------
(* Types.                                                                  *)

LEMMA NewFrameType ==
    ASSUME TypeOK, NEW lane \in {"high", "low"}, NEW target \in Targets
    PROVE  NewFrame(lane, target) \in Frame
BY DEF TypeOK, NewFrame, Frame

\* For the types alone the capacities do not matter.
LEMMA PushLowType ==
    ASSUME NEW lane \in Seq(Frame), NEW f \in Frame
    PROVE  PushLow(lane, f) \in Seq(Frame)
<1>1. CASE Len(lane) >= LowCap
  <2>1. LowCap - 1 \in 0..Len(lane)
    BY <1>1, CapsAssumption
  <2>2. SubSeq(lane, 1, LowCap - 1) \in Seq(Frame)
    BY <2>1
  <2> QED
    BY <1>1, <2>2 DEF PushLow
<1>2. CASE ~(Len(lane) >= LowCap)
  BY <1>2 DEF PushLow
<1> QED
  BY <1>1, <1>2

\* Whatever frame is dispatched, the peers to serve and the new last_peers are
\* addresses of the snapshot or were in last_peers before.
LEMMA DispatchType ==
    ASSUME TypeOK, NEW f \in Frame \cup {Cover}, Dispatch(f)
    PROVE  /\ pending' \in SUBSET peers /\ lastPeers' \in SUBSET Peers
           /\ frame' \in Frame \cup {Cover} /\ hit' = {} /\ pc' = "send"
<1>1. PICK chosen \in Picks(Pool(f), Slots(f), lastPeers) :
        /\ pending' = chosen \cup ({f.target} \cap peers)
        /\ lastPeers' = IF Pool(f) = {} THEN lastPeers ELSE chosen
        /\ frame' = f
        /\ hit' = {}
        /\ pc' = "send"
  BY DEF Dispatch
<1>2. chosen \subseteq peers
  BY <1>1 DEF Picks, Pool
<1> QED
  BY <1>1, <1>2 DEF TypeOK

\* Every reachable state is well typed: lanes, hands and histories hold frames
\* only, and the scheduler's bookkeeping addresses only.
THEOREM Typing == Spec => []TypeOK
<1>1. Init => TypeOK
  <2> SUFFICES ASSUME Init
               PROVE  TypeOK
    OBVIOUS
  <2>1. << >> \in Seq(Frame)
    OBVIOUS
  <2>2. delivered \in [Peers -> Seq(Frame)]
    BY <2>1 DEF Init
  <2> QED
    BY <2>1, <2>2, ModesAssumption DEF Init, TypeOK
<1>2. TypeOK /\ [Next]_vars => TypeOK'
  <2> SUFFICES ASSUME TypeOK, [Next]_vars
               PROVE  TypeOK'
    OBVIOUS
  <2>1. CASE Tick
    BY <2>1 DEF Tick, TypeOK, laneVars, wakeVars
  <2>2. CASE WakeUp
    BY <2>2 DEF WakeUp, TypeOK, laneVars
  <2>3. CASE TakeHigh
    <3>1. Head(high) \in Frame /\ high' \in Seq(Frame)
      BY <2>3 DEF TakeHigh, TypeOK, Pop
    <3> QED
      BY <2>3, <3>1, DispatchType DEF TakeHigh, TypeOK, wakeVars
  <2>4. CASE HighEmpty
    BY <2>4 DEF HighEmpty, TypeOK, laneVars, wakeVars, sendVars
  <2>5. CASE TakeLow
    <3>1. Head(low) \in Frame /\ low' \in Seq(Frame)
      BY <2>5 DEF TakeLow, TypeOK, Pop
    <3> QED
      BY <2>5, <3>1, DispatchType DEF TakeLow, TypeOK, wakeVars
  <2>6. CASE TakeCover
    BY <2>6, DispatchType DEF TakeCover, TypeOK, laneVars, wakeVars
  <2>7. CASE DrainDone
    BY <2>7 DEF DrainDone, TypeOK, laneVars, wakeVars, sendVars
  <2>8. ASSUME NEW p \in Peers, Send(p)
        PROVE  TypeOK'
    <3>1. delivered' \in [Peers -> Seq(Frame)]
      <4>1. CASE Content(p) = Cover
        BY <2>8, <4>1 DEF Send, Transmit, TypeOK
      <4>2. CASE Content(p) # Cover
        <5>1. frame \in Frame
          BY <4>2 DEF Content, TypeOK
        <5>2. Append(delivered[p], frame) \in Seq(Frame)
          BY <5>1 DEF TypeOK
        <5>3. \/ delivered' = [delivered EXCEPT ![p] = Append(@, frame)]
              \/ delivered' = delivered
          BY <2>8, <4>2 DEF Send, Transmit
        <5> QED
          BY <5>2, <5>3 DEF TypeOK
      <4> QED
        BY <4>1, <4>2
    <3> QED
      BY <2>8, <3>1 DEF Send, TypeOK, laneVars, wakeVars
  <2>9. ASSUME NEW p \in Peers, Connect(p) \/ Disconnect(p)
        PROVE  TypeOK'
    BY <2>9 DEF Connect, Disconnect, TypeOK, laneVars, wakeVars, schedVars
  <2>10. ASSUME NEW t \in Threads, NEW target \in Targets, EnqueueHigh(t, target)
         PROVE  TypeOK'
    <3>1. high' \in Seq(Frame)
      BY <2>10, NewFrameType DEF EnqueueHigh, TypeOK, PushHigh
    <3> QED
      BY <2>10, <3>1 DEF EnqueueHigh, TypeOK, schedVars
  <2>11. ASSUME NEW t \in Threads, NEW target \in Targets, EnqueueLow(t, target)
         PROVE  TypeOK'
    <3>1. low' \in Seq(Frame)
      BY <2>11, NewFrameType, PushLowType DEF EnqueueLow, TypeOK
    <3> QED
      BY <2>11, <3>1 DEF EnqueueLow, TypeOK, schedVars
  <2>12. ASSUME NEW t \in Threads, LaneFull(t) \/ NotifyOne(t)
         PROVE  TypeOK'
    BY <2>12 DEF LaneFull, NotifyOne, TypeOK, laneVars, schedVars
  <2>13. CASE UNCHANGED vars
    BY <2>13 DEF TypeOK, vars, laneVars, wakeVars, schedVars
  <2> QED
    BY <2>1, <2>2, <2>3, <2>4, <2>5, <2>6, <2>7, <2>8, <2>9, <2>10, <2>11,
       <2>12, <2>13 DEF Next, Scheduler, Environment
<1> QED
  BY <1>1, <1>2, PTL DEF Spec

-----------------------------------------------------------------------------
(* The lanes themselves.                                                   *)

\* LaneOrder, in terms of what is in the lanes rather than where.
LaneInv == PairOrdered(high, low, submitted)

LEMMA LaneInvIsOrder == TypeOK /\ LaneInv => LaneOrder
BY DEF LaneInv, LaneOrder, PairOrdered, Ascending, Descending, FramesIn

LEMMA LaneStep == TypeOK /\ LaneInv /\ [Next]_vars => LaneInv'
<1> SUFFICES ASSUME TypeOK, LaneInv, [Next]_vars
             PROVE  LaneInv'
  OBVIOUS
<1>0. high \in Seq(Frame) /\ low \in Seq(Frame) /\ submitted \in Nat
  BY DEF TypeOK
<1>1. ASSUME NEW t \in Threads, NEW target \in Targets, EnqueueHigh(t, target)
      PROVE  LaneInv'
  BY <1>0, <1>1, NewFrameType, PairPushHigh DEF EnqueueHigh, LaneInv, NewFrame
<1>2. ASSUME NEW t \in Threads, NEW target \in Targets, EnqueueLow(t, target)
      PROVE  LaneInv'
  BY <1>0, <1>2, NewFrameType, PairPushLow DEF EnqueueLow, LaneInv, NewFrame
<1>3. CASE TakeHigh \/ TakeLow
  BY <1>0, <1>3, PairPop DEF TakeHigh, TakeLow, LaneInv
<1>4. CASE UNCHANGED laneVars
  BY <1>4 DEF laneVars, LaneInv
<1> QED
  BY <1>1, <1>2, <1>3, <1>4 DEF Next, Scheduler, Environment, vars, Tick, WakeUp,
     HighEmpty, TakeCover, DrainDone, Send, Connect, Disconnect, LaneFull, NotifyOne

LEMMA LaneAlways == Spec => [](TypeOK /\ LaneInv)
<1>1. Init => LaneInv
  BY EmptyOrdered DEF Init, LaneInv
<1> QED
  BY <1>1, LaneStep, Typing, PTL DEF Spec

\* Whatever mix of pushes, evictions and pops: the lanes stay within capacity and
\* in submission order.
THEOREM LanesOrdered == Spec => []LaneOrder
BY LaneAlways, LaneInvIsOrder, PTL

\* A high frame leaves its lane for the scheduler's hands only, a low frame also
\* when a newer one took its place in a full lane and all left behind are newer.
THEOREM NothingDropped == Spec => LossOnlyByPolicy
<1> DEFINE Policy ==
      /\ \A f \in FramesIn(high) : f \in FramesIn(high') \/ frame' = f
      /\ \A f \in FramesIn(low) :
           \/ f \in FramesIn(low') \/ frame' = f
           \/ Len(low') = LowCap /\ \A g \in FramesIn(low') : f.id < g.id
<1>1. TypeOK /\ LaneInv /\ [Next]_vars => [Policy]_vars
  <2> SUFFICES ASSUME TypeOK, LaneInv, Next
               PROVE  Policy
    BY DEF vars
  <2>0. high \in Seq(Frame) /\ low \in Seq(Frame) /\ submitted \in Nat
    BY DEF TypeOK
  <2>1. ASSUME NEW t \in Threads, NEW target \in Targets, EnqueueHigh(t, target)
        PROVE  Policy
    <3>1. FramesIn(high) \subseteq FramesIn(high') /\ low' = low
      BY <2>0, <2>1, NewFrameType, PushHighFrames DEF EnqueueHigh, LaneInv, PairOrdered
    <3> QED
      BY <3>1
  <2>2. ASSUME NEW t \in Threads, NEW target \in Targets, EnqueueLow(t, target)
        PROVE  Policy
    <3> DEFINE f == NewFrame("low", target)
    <3>1. f \in Frame /\ f.id = submitted + 1 /\ low' = PushLow(low, f) /\ high' = high
      BY <2>2, NewFrameType DEF EnqueueLow, NewFrame
    <3> HIDE DEF f
    <3>2. Len(low) <= LowCap /\ Descending(low) /\ \A g \in FramesIn(low) : g.id < f.id
      BY <2>0, <3>1 DEF LaneInv, PairOrdered
    <3>3. \A g \in FramesIn(low) :
            \/ g \in FramesIn(low')
            \/ Len(low') = LowCap /\ \A h \in FramesIn(low') : g.id < h.id
      BY <2>0, <3>1, <3>2, PushLowFrames
    <3> QED
      BY <3>1, <3>3
  <2>3. CASE TakeHigh \/ TakeLow
    BY <2>0, <2>3, PopFrames DEF TakeHigh, TakeLow, Dispatch
  <2>4. CASE UNCHANGED <<high, low>>
    BY <2>4
  <2> QED
    BY <2>1, <2>2, <2>3, <2>4 DEF Next, Scheduler, Environment, Tick, WakeUp,
       HighEmpty, TakeCover, DrainDone, Send, Connect, Disconnect, LaneFull,
       NotifyOne, laneVars
<1> QED
  BY <1>1, LaneAlways, PTL DEF Spec, LossOnlyByPolicy

-----------------------------------------------------------------------------
(* Submission order, from the lane to the peer.                            *)

\* HighInOrder and LowOnce relate what was delivered to what waits in the lanes; a
\* step of the scheduler puts a frame between the two.  The invariant therefore
\* also speaks of the frame in hand: it comes after what its remaining receivers
\* got and before what is left in the high lane, and no frame is in two places.
Waiting == FramesIn(high) \cup FramesIn(low)
InHand == frame.lane \in {"high", "low"}

HandOrder ==
    frame.lane = "high" =>
        /\ \A g \in FramesIn(high) : frame.id < g.id
        /\ \A p \in pending : \A i \in 1..Len(delivered[p]) :
              delivered[p][i].lane = "high" => delivered[p][i].id < frame.id

KnownIds ==
    /\ InHand => frame.id \in 1..submitted
    /\ \A p \in Peers : \A i \in 1..Len(delivered[p]) : delivered[p][i].id \in 1..submitted

OnePlace ==
    /\ \A f \in FramesIn(high), g \in FramesIn(low) : f.id # g.id
    /\ InHand => \A g \in Waiting : frame.id # g.id
    /\ InHand => \A p \in pending : \A i \in 1..Len(delivered[p]) :
                    delivered[p][i].id # frame.id
    /\ \A p \in Peers : \A i \in 1..Len(delivered[p]) :
         /\ \A g \in Waiting : delivered[p][i].id # g.id
         /\ \A j \in 1..Len(delivered[p]) : i # j => delivered[p][i].id # delivered[p][j].id

OrderInv == HighInOrder /\ HandOrder /\ KnownIds /\ OnePlace

LEMMA OrderInit == Init => OrderInv
<1> SUFFICES ASSUME Init
             PROVE  OrderInv
  OBVIOUS
<1>1. /\ FramesIn(high) = {} /\ FramesIn(low) = {}
      /\ frame.lane = "cover"
      /\ \A p \in Peers : 1..Len(delivered[p]) = {}
  BY DEF Init, Cover, FramesIn
<1> QED
  BY <1>1 DEF OrderInv, HighInOrder, HandOrder, KnownIds, OnePlace, Waiting, InHand

\* A frame enters a lane with an id of its own, larger than any in use.
LEMMA OrderEnqueue ==
    ASSUME TypeOK, LaneInv, OrderInv, NEW f, f.id = submitted + 1,
           submitted' = submitted + 1,
           FramesIn(high') \subseteq FramesIn(high) \cup {f},
           FramesIn(low') \subseteq FramesIn(low) \cup {f},
           f \notin FramesIn(high') \/ f \notin FramesIn(low'),
           UNCHANGED <<frame, pending, delivered>>
    PROVE  OrderInv'
<1>1. submitted \in Nat /\ \A g \in Waiting : g.id \in 1..submitted
  BY DEF TypeOK, LaneInv, PairOrdered, Waiting
<1>2. /\ InHand => frame.id < f.id
      /\ \A p \in Peers : \A i \in 1..Len(delivered[p]) : delivered[p][i].id < f.id
  BY <1>1 DEF OrderInv, KnownIds
<1>3. \A g \in Waiting : g.id < f.id
  BY <1>1
<1>4. HighInOrder'
  BY <1>2 DEF OrderInv, HighInOrder
<1>5. HandOrder'
  BY <1>2 DEF OrderInv, HandOrder, InHand
<1>6. KnownIds'
  BY <1>1 DEF OrderInv, KnownIds, InHand
<1>7. OnePlace'
  <2>1. \A g \in FramesIn(high'), h \in FramesIn(low') : g.id # h.id
    BY <1>1, <1>3 DEF OrderInv, OnePlace, Waiting
  <2>2. \A g \in Waiting' : g \in Waiting \/ g = f
    BY DEF Waiting
  <2>3. InHand => frame.id # f.id
    BY <1>1, <1>2 DEF OrderInv, KnownIds
  <2>4. \A p \in Peers : \A i \in 1..Len(delivered[p]) : delivered[p][i].id # f.id
    BY <1>1, <1>2 DEF OrderInv, KnownIds
  <2> QED
    BY <2>1, <2>2, <2>3, <2>4 DEF OrderInv, OnePlace, InHand
<1> QED
  BY <1>4, <1>5, <1>6, <1>7 DEF OrderInv

\* The scheduler takes a frame from the front of a lane.
LEMMA OrderTake ==
    ASSUME TypeOK, LaneInv, OrderInv, TakeHigh \/ TakeLow
    PROVE  OrderInv'
<1>1. /\ high \in Seq(Frame) /\ low \in Seq(Frame) /\ submitted \in Nat
      /\ UNCHANGED <<submitted, delivered>>
  BY DEF TakeHigh, TakeLow, TypeOK
<1>2. /\ frame' \in Waiting
      /\ FramesIn(high') \subseteq FramesIn(high) /\ FramesIn(low') \subseteq FramesIn(low)
      /\ \A g \in Waiting' : frame'.id # g.id
      /\ frame'.lane = "high" => \A g \in FramesIn(high') : frame'.id < g.id
  <2>1. CASE TakeHigh
    <3>1. /\ frame' = Head(high) /\ FramesIn(high) = {Head(high)} \cup FramesIn(high')
          /\ low' = low
          /\ \A g \in FramesIn(high') : Head(high).id < g.id
      BY <1>1, <2>1, PopFrames, PopOrder DEF TakeHigh, Dispatch, LaneInv, PairOrdered
    <3>2. \A g \in FramesIn(high') : Head(high).id # g.id
      BY <1>1, <3>1 DEF LaneInv, PairOrdered
    <3> QED
      BY <3>1, <3>2 DEF OrderInv, OnePlace, Waiting
  <2>2. CASE TakeLow
    <3>1. /\ frame' = Head(low) /\ FramesIn(low) = {Head(low)} \cup FramesIn(low')
          /\ high' = high
          /\ \A g \in FramesIn(low') : g.id < Head(low).id
      BY <1>1, <2>2, PopFrames, PopOrder DEF TakeLow, Dispatch, LaneInv, PairOrdered
    <3>2. /\ \A g \in FramesIn(low') : Head(low).id # g.id
          /\ Head(low).lane # "high"
      BY <1>1, <3>1 DEF LaneInv, PairOrdered
    <3> QED
      BY <3>1, <3>2 DEF OrderInv, OnePlace, Waiting
  <2> QED
    BY <2>1, <2>2
<1>3. frame'.lane = "high" => frame' \in FramesIn(high)
  BY <1>2 DEF LaneInv, PairOrdered, Waiting
<1>4. pending' \subseteq Peers
  <2>1. PICK f \in Frame \cup {Cover} : Dispatch(f)
    BY PopShape DEF TakeHigh, TakeLow, TypeOK
  <2> QED
    BY <2>1, DispatchType DEF TypeOK
<1>5. Waiting' \subseteq Waiting
  BY <1>2 DEF Waiting
<1>6. HighInOrder'
  BY <1>1, <1>2 DEF OrderInv, HighInOrder
<1>7. HandOrder'
  BY <1>1, <1>2, <1>3, <1>4 DEF OrderInv, HighInOrder, HandOrder
<1>8. KnownIds'
  BY <1>1, <1>2 DEF OrderInv, KnownIds, LaneInv, PairOrdered, Waiting
<1>9. OnePlace'
  BY <1>1, <1>2, <1>4, <1>5 DEF OrderInv, OnePlace
<1> QED
  BY <1>6, <1>7, <1>8, <1>9 DEF OrderInv

LEMMA OrderTakeCover ==
    ASSUME TypeOK, OrderInv, TakeCover
    PROVE  OrderInv'
<1>1. frame'.lane = "cover" /\ UNCHANGED <<high, low, submitted, delivered>>
  BY DEF TakeCover, Dispatch, laneVars, Cover
<1> QED
  BY <1>1 DEF OrderInv, HighInOrder, HandOrder, KnownIds, OnePlace, Waiting, InHand

LEMMA OrderSend ==
    ASSUME TypeOK, OrderInv, NEW p \in Peers, Send(p)
    PROVE  OrderInv'
<1>1. /\ p \in pending /\ pending' = pending \ {p}
      /\ frame' \in {frame, Cover} /\ Cover.lane = "cover"
      /\ UNCHANGED <<high, low, submitted>>
  BY DEF Send, laneVars, Cover
<1>2. CASE UNCHANGED delivered
  BY <1>1, <1>2 DEF OrderInv, HighInOrder, HandOrder, KnownIds, OnePlace, Waiting, InHand
<1>3. CASE Content(p) # Cover /\ delivered' = [delivered EXCEPT ![p] = Append(@, frame)]
  <2>1. frame \in Frame /\ InHand
    BY <1>3 DEF Content, TypeOK, Frame, InHand
  <2> DEFINE n == Len(delivered[p])
  <2>2. /\ n \in Nat /\ Len(delivered'[p]) = n + 1
        /\ \A i \in 1..n : delivered'[p][i] = delivered[p][i]
        /\ delivered'[p][n + 1] = frame
        /\ \A q \in Peers \ {p} : delivered'[q] = delivered[q]
    BY <2>1, <1>3 DEF TypeOK
  <2> HIDE DEF n
  <2>3. 1..Len(delivered'[p]) = 1..n \cup {n + 1} /\ \A i \in 1..n : i < n + 1 /\ i # n + 1
    BY <2>2
  <2>4. HighInOrder'
    <3>1. ASSUME NEW i \in 1..Len(delivered'[p]), delivered'[p][i].lane = "high"
          PROVE  /\ \A j \in 1..Len(delivered'[p]) :
                       i < j /\ delivered'[p][j].lane = "high" =>
                           delivered'[p][i].id < delivered'[p][j].id
                 /\ \A g \in FramesIn(high) : delivered'[p][i].id < g.id
      <4>1. CASE i = n + 1
        <5>1. \A j \in 1..Len(delivered'[p]) : ~(i < j)
          BY <2>2, <4>1
        <5> QED
          BY <2>2, <3>1, <4>1, <5>1 DEF OrderInv, HandOrder
      <4>2. CASE i \in 1..n
        BY <1>1, <2>2, <2>3, <3>1, <4>2 DEF OrderInv, HandOrder, HighInOrder, n
      <4> QED
        BY <2>3, <4>1, <4>2
    <3> QED
      BY <1>1, <2>2, <3>1 DEF OrderInv, HighInOrder
  <2>5. \A q \in pending' : q \in pending /\ q \in Peers \ {p}
    BY <1>1 DEF TypeOK
  <2>6. HandOrder'
    BY <1>1, <2>2, <2>5 DEF OrderInv, HandOrder
  <2>7. KnownIds'
    <3>1. \A i \in 1..Len(delivered'[p]) : delivered'[p][i].id \in 1..submitted
      BY <2>1, <2>2, <2>3 DEF OrderInv, KnownIds, n
    <3> QED
      BY <1>1, <2>2, <3>1 DEF OrderInv, KnownIds, InHand
  <2>8. OnePlace'
    <3>1. ASSUME NEW i \in 1..Len(delivered'[p])
          PROVE  /\ \A g \in Waiting : delivered'[p][i].id # g.id
                 /\ \A j \in 1..Len(delivered'[p]) :
                      i # j => delivered'[p][i].id # delivered'[p][j].id
      <4> DEFINE d == delivered[p]
      <4>1. /\ \A k \in 1..n : d[k].id # frame.id /\ \A g \in Waiting : d[k].id # g.id
            /\ \A k, l \in 1..n : k # l => d[k].id # d[l].id
            /\ \A g \in Waiting : frame.id # g.id
        BY <1>1, <2>1 DEF OrderInv, OnePlace, n
      <4>2. /\ delivered'[p][n + 1] = frame
            /\ \A k \in 1..n : delivered'[p][k] = d[k]
        BY <2>2
      <4>3. 1..Len(delivered'[p]) = 1..n \cup {n + 1}
        BY <2>3
      <4> HIDE DEF d
      <4>4. CASE i = n + 1
        BY <4>1, <4>2, <4>3, <4>4
      <4>5. CASE i \in 1..n
        <5>1. delivered'[p][i] = d[i] /\ \A g \in Waiting : d[i].id # g.id
          BY <4>1, <4>2, <4>5
        <5>2. ASSUME NEW j \in 1..n, i # j
              PROVE  d[i].id # delivered'[p][j].id
          BY <4>1, <4>2, <4>5, <5>2
        <5>3. d[i].id # delivered'[p][n + 1].id
          BY <4>1, <4>2, <4>5
        <5> QED
          BY <4>3, <5>1, <5>2, <5>3
      <4> QED
        BY <4>3, <4>4, <4>5
    <3>2. Waiting' = Waiting
      BY <1>1 DEF Waiting
    <3>3. InHand' => frame' = frame
      BY <1>1 DEF InHand
    <3>4. \A q \in pending' : delivered'[q] = delivered[q]
      BY <2>2, <2>5
    <3>5. \A q \in Peers : \A i \in 1..Len(delivered'[q]) :
            /\ \A g \in Waiting : delivered'[q][i].id # g.id
            /\ \A j \in 1..Len(delivered'[q]) :
                 i # j => delivered'[q][i].id # delivered'[q][j].id
      BY <2>2, <3>1 DEF OrderInv, OnePlace
    <3>6. InHand' => \A q \in pending' : \A i \in 1..Len(delivered'[q]) :
                       delivered'[q][i].id # frame'.id
      BY <2>1, <2>5, <3>3, <3>4 DEF OrderInv, OnePlace
    <3> QED
      BY <1>1, <2>1, <3>2, <3>3, <3>5, <3>6 DEF OrderInv, OnePlace
  <2> QED
    BY <2>4, <2>6, <2>7, <2>8 DEF OrderInv
<1> QED
  BY <1>2, <1>3 DEF Send, Transmit

LEMMA OrderStep == TypeOK /\ LaneInv /\ OrderInv /\ [Next]_vars => OrderInv'
<1> SUFFICES ASSUME TypeOK, LaneInv, OrderInv, [Next]_vars
             PROVE  OrderInv'
  OBVIOUS
<1>0. high \in Seq(Frame) /\ low \in Seq(Frame) /\ submitted \in Nat
  BY DEF TypeOK
<1>1. CASE TakeHigh \/ TakeLow \/ TakeCover
  BY <1>1, OrderTake, OrderTakeCover
<1>2. ASSUME NEW p \in Peers, Send(p)
      PROVE  OrderInv'
  BY <1>2, OrderSend
<1>3. ASSUME NEW t \in Threads, NEW target \in Targets, EnqueueHigh(t, target)
      PROVE  OrderInv'
  <2> DEFINE f == NewFrame("high", target)
  <2>1. /\ f \in Frame /\ f.id = submitted + 1 /\ submitted' = submitted + 1
        /\ high' = PushHigh(high, f) /\ ~HighFull(high) /\ Len(high) <= HighCap
        /\ UNCHANGED <<low, frame, pending, delivered>>
    BY <1>3, NewFrameType DEF EnqueueHigh, NewFrame, schedVars, LaneInv, PairOrdered
  <2> HIDE DEF f
  <2>2. FramesIn(high') = FramesIn(high) \cup {f} /\ f \notin FramesIn(low')
    BY <1>0, <2>1, PushHighFrames DEF LaneInv, PairOrdered
  <2> QED
    BY <2>1, <2>2, OrderEnqueue
<1>4. ASSUME NEW t \in Threads, NEW target \in Targets, EnqueueLow(t, target)
      PROVE  OrderInv'
  <2> DEFINE f == NewFrame("low", target)
  <2>1. /\ f \in Frame /\ f.id = submitted + 1 /\ submitted' = submitted + 1
        /\ low' = PushLow(low, f) /\ Len(low) <= LowCap /\ Descending(low)
        /\ UNCHANGED <<high, frame, pending, delivered>>
    BY <1>4, NewFrameType DEF EnqueueLow, NewFrame, schedVars, LaneInv, PairOrdered
  <2> HIDE DEF f
  <2>2. \A g \in FramesIn(low) : g.id < f.id
    BY <1>0, <2>1 DEF LaneInv, PairOrdered
  <2>3. FramesIn(low') \subseteq FramesIn(low) \cup {f} /\ f \notin FramesIn(high')
    BY <1>0, <2>1, <2>2, PushLowFrames DEF LaneInv, PairOrdered
  <2> QED
    BY <2>1, <2>3, OrderEnqueue
<1>5. CASE UNCHANGED <<high, low, submitted, frame, pending, delivered>>
  BY <1>5 DEF OrderInv, HighInOrder, HandOrder, KnownIds, OnePlace, Waiting, InHand
<1> QED
  BY <1>1, <1>2, <1>3, <1>4, <1>5 DEF Next, Scheduler, Environment, vars, Tick, WakeUp,
     HighEmpty, DrainDone, Connect, Disconnect, LaneFull, NotifyOne, laneVars,
     sendVars, schedVars

LEMMA OrderAlways == Spec => []OrderInv
BY OrderInit, OrderStep, LaneAlways, PTL DEF Spec

\* Every peer receives the high lane's frames in submission order, once each, ahead
\* of all that still wait.
THEOREM Ordered == Spec => []HighInOrder
BY OrderAlways, PTL DEF OrderInv

\* No peer gets a low frame twice, and none gets one that is still in the lane.
THEOREM DeliveredOnce == Spec => []LowOnce
<1>1. OrderInv => LowOnce
  BY DEF OrderInv, OnePlace, LowOnce, Waiting
<1> QED
  BY <1>1, OrderAlways, PTL

-----------------------------------------------------------------------------
(* The two emptiness checks of next_frame.                                 *)

\* Between the check of the high lane and the pop of the low lane a high frame may
\* come in, but only one submitted after the check.
ScanInv ==
    /\ mark <= submitted
    /\ pc = "low" => \A j \in 1..Len(high) : mark < high[j].id

LEMMA ScanStep == TypeOK /\ ScanInv /\ [Next]_vars => ScanInv'
<1> SUFFICES ASSUME TypeOK, ScanInv, [Next]_vars
             PROVE  ScanInv'
  OBVIOUS
<1>1. ASSUME NEW t \in Threads, NEW target \in Targets, EnqueueHigh(t, target)
      PROVE  ScanInv'
  <2> DEFINE f == NewFrame("high", target)
  <2>1. /\ high' = Append(high, f) /\ f \in Frame /\ f.id = submitted + 1
        /\ submitted' = submitted + 1 /\ UNCHANGED <<pc, mark>>
    BY <1>1, NewFrameType DEF EnqueueHigh, PushHigh, NewFrame, schedVars
  <2> HIDE DEF f
  <2>2. \A j \in 1..Len(high') : (j \in 1..Len(high) /\ high'[j] = high[j]) \/ high'[j] = f
    BY <2>1 DEF TypeOK
  <2> QED
    BY <2>1, <2>2 DEF ScanInv, TypeOK
<1>2. CASE HighEmpty
  BY <1>2 DEF HighEmpty, ScanInv, TypeOK, laneVars
<1>3. CASE Tick \/ WakeUp \/ TakeHigh \/ TakeLow \/ TakeCover \/ DrainDone
  BY <1>3 DEF Tick, WakeUp, TakeHigh, TakeLow, TakeCover, DrainDone, Dispatch,
     ScanInv, laneVars
<1>4. ASSUME NEW p \in Peers, Send(p)
      PROVE  ScanInv'
  BY <1>4 DEF Send, ScanInv, laneVars
<1>5. ASSUME NEW t \in Threads, NEW target \in Targets, EnqueueLow(t, target)
      PROVE  ScanInv'
  BY <1>5 DEF EnqueueLow, ScanInv, TypeOK, schedVars
<1>6. CASE UNCHANGED <<high, submitted, pc, mark>>
  BY <1>6 DEF ScanInv
<1> QED
  BY <1>1, <1>2, <1>3, <1>4, <1>5, <1>6 DEF Next, Scheduler, Environment, vars,
     Connect, Disconnect, LaneFull, NotifyOne, laneVars, schedVars

\* Low frames and cover are sent only past high frames submitted after the high
\* lane was found empty.
THEOREM Scanned == Spec => LateHighOnly
<1>1. Init => ScanInv
  BY DEF Init, ScanInv
<1>2. TypeOK /\ ScanInv /\ [Next]_vars =>
        [TakeLow \/ TakeCover => \A f \in FramesIn(high) : f.id > mark]_vars
  <2> SUFFICES ASSUME TypeOK, ScanInv, TakeLow \/ TakeCover, NEW f \in FramesIn(high)
               PROVE  f.id > mark
    OBVIOUS
  <2>1. pc = "low"
    BY DEF TakeLow, TakeCover
  <2>2. PICK j \in 1..Len(high) : f = high[j]
    BY DEF FramesIn
  <2>3. high[j] \in Frame
    BY DEF TypeOK
  <2> QED
    BY <2>1, <2>2, <2>3 DEF ScanInv, TypeOK, Frame
<1> QED
  BY <1>1, <1>2, ScanStep, Typing, PTL DEF Spec, LateHighOnly

\* The drain checks the lanes one after the other, so a submission may slip in
\* behind a check; its signal is then still stored or on its way.
SignalInv ==
    passthrough /\ ~permit /\ notifying = {} /\ peers # {} =>
        /\ pc = "low" => high = << >>
        /\ pc = "idle" => high = << >> /\ low = << >>

\* The passthrough scheduler never sleeps on queued frames, once it has drained
\* with a peer connected.
THEOREM NoLostWakeUp == Spec => []NothingStranded
<1>1. Init => SignalInv
  BY DEF Init, SignalInv
<1>2. TypeOK /\ SignalInv /\ [Next]_vars => SignalInv'
  <2> SUFFICES ASSUME TypeOK, SignalInv, [Next]_vars
               PROVE  SignalInv'
    OBVIOUS
  <2>1. CASE Tick \/ WakeUp \/ HighEmpty \/ DrainDone
    BY <2>1 DEF Tick, WakeUp, HighEmpty, DrainDone, SignalInv, laneVars, wakeVars
  <2>2. CASE TakeHigh \/ TakeLow \/ TakeCover
    BY <2>2 DEF TakeHigh, TakeLow, TakeCover, Dispatch, SignalInv
  <2>3. ASSUME NEW p \in Peers, Send(p)
        PROVE  SignalInv'
    BY <2>3 DEF Send, SignalInv
  <2>4. ASSUME NEW t \in Threads,
               \/ LaneFull(t) \/ NotifyOne(t)
               \/ \E target \in Targets : EnqueueHigh(t, target) \/ EnqueueLow(t, target)
        PROVE  SignalInv'
    <3>1. permit' \/ t \in notifying'
      BY <2>4 DEF LaneFull, NotifyOne, EnqueueHigh, EnqueueLow
    <3> QED
      BY <3>1 DEF SignalInv
  <2>5. CASE UNCHANGED <<passthrough, laneVars, wakeVars, pc, peers>>
    BY <2>5 DEF SignalInv, laneVars, wakeVars
  <2> QED
    BY <2>1, <2>2, <2>3, <2>4, <2>5 DEF Next, Scheduler, Environment, vars,
       Connect, Disconnect, schedVars
<1>3. SignalInv => NothingStranded
  BY DEF SignalInv, NothingStranded
<1> QED
  BY <1>1, <1>2, <1>3, Typing, PTL DEF Spec

-----------------------------------------------------------------------------
(* The shape of a dispatch, and the refinement of WireShape.               *)

LEMMA FinitePeers ==
    ASSUME TypeOK
    PROVE  /\ IsFiniteSet(peers) /\ Cardinality(peers) \in Nat
           /\ \A S \in SUBSET peers : IsFiniteSet(S) /\ Cardinality(S) \in Nat
           /\ peers # {} => Cardinality(peers) \in Nat \ {0}
<1>1. IsFiniteSet(peers)
  BY PeersAssumption, FS_Subset DEF TypeOK
<1> QED
  BY <1>1, FS_Subset, FS_CardinalityType, FS_EmptySet

\* fanout.min(n).max(1) is a number of peers the snapshot really has.
LEMMA BudgetRange ==
    ASSUME TypeOK, peers # {}
    PROVE  Budget(peers) \in 1..Cardinality(peers)
BY FinitePeers, FanoutAssumption DEF Budget, Lesser

\* A dispatch sets out to serve exactly Budget(peers) peers, its target included.
LEMMA DispatchServes ==
    ASSUME TypeOK, peers # {}, NEW f \in Frame \cup {Cover}, Dispatch(f)
    PROVE  /\ pending' \subseteq peers
           /\ Cardinality(pending') = Budget(peers)
           /\ f.target \in peers => f.target \in pending'
           /\ frame' = f /\ hit' = {}
<1>1. PICK chosen \in Picks(Pool(f), Slots(f), lastPeers) :
        /\ pending' = chosen \cup ({f.target} \cap peers)
        /\ frame' = f /\ hit' = {}
  BY DEF Dispatch
<1>2. /\ chosen \subseteq Pool(f) /\ Pool(f) \subseteq peers
      /\ Cardinality(chosen) = Lesser(Slots(f), Cardinality(Pool(f)))
  BY <1>1 DEF Picks, Pool
<1>3. Budget(peers) \in 1..Cardinality(peers) /\ Cardinality(peers) \in Nat
  BY BudgetRange, FinitePeers
<1>4. CASE f.target \in peers
  <2>1. Pool(f) = peers \ {f.target} /\ Cardinality(Pool(f)) = Cardinality(peers) - 1
    BY <1>4, FinitePeers, FS_RemoveElement DEF Pool
  <2>2. Cardinality(chosen) = Budget(peers) - 1
    BY <1>2, <1>3, <1>4, <2>1 DEF Slots, Lesser
  <2>3. IsFiniteSet(chosen) /\ f.target \notin chosen /\ pending' = chosen \cup {f.target}
    BY <1>1, <1>2, <1>4, <2>1, FinitePeers
  <2>4. Cardinality(pending') = Cardinality(chosen) + 1
    BY <2>3, FS_AddElement
  <2> QED
    BY <1>1, <1>2, <1>3, <1>4, <2>2, <2>3, <2>4
<1>5. CASE f.target \notin peers
  <2>1. Pool(f) = peers /\ pending' = chosen /\ Slots(f) = Budget(peers)
    BY <1>1, <1>5 DEF Pool, Slots
  <2> QED
    BY <1>1, <1>2, <1>3, <1>5, <2>1 DEF Lesser
<1> QED
  BY <1>4, <1>5

\* DispatchShape with what makes it inductive: a drain under way has a snapshot
\* with peers, a dispatch under way has a peer to serve, and a timed scheduler
\* serves nobody before it has chosen a frame.
ShapeInv ==
    /\ pc # "idle" => peers # {}
    /\ pc \in {"high", "low"} /\ ~passthrough => hit = {}
    /\ pc = "send" => pending # {}
    /\ DispatchShape

LEMMA ShapeTake ==
    ASSUME TypeOK, ShapeInv, TakeHigh \/ TakeLow \/ TakeCover
    PROVE  ShapeInv'
<1>1. PICK f \in Frame \cup {Cover} : Dispatch(f)
  BY PopShape DEF TakeHigh, TakeLow, TakeCover, TypeOK
<1>2. pc # "idle" /\ peers # {} /\ peers' = peers /\ pc' = "send"
  BY <1>1 DEF TakeHigh, TakeLow, TakeCover, Dispatch, ShapeInv
<1>3. /\ pending' \subseteq peers /\ Cardinality(pending') = Budget(peers)
      /\ f.target \in peers => f.target \in pending'
      /\ frame' = f /\ hit' = {}
  BY <1>1, <1>2, DispatchServes
<1>4. pending' # {}
  BY <1>2, <1>3, BudgetRange, FS_EmptySet
<1>5. pending' \cup hit' = pending' /\ pending' \cap hit' = {}
  BY <1>3
<1>6. Budget(peers') = Budget(peers) /\ Budget(peers)' = Budget(peers')
  BY <1>2 DEF Budget
<1> QED
  BY <1>2, <1>3, <1>4, <1>5, <1>6 DEF ShapeInv, DispatchShape

LEMMA ShapeSend ==
    ASSUME TypeOK, ShapeInv, NEW p \in Peers, Send(p)
    PROVE  /\ ShapeInv'
           /\ p \in peers \ hit
           /\ (pending' = {}) <=> (Cardinality(hit') = Budget(peers))
<1>1. /\ pc = "send" /\ p \in pending /\ hit' = hit \cup {p} /\ pending' = pending \ {p}
      /\ frame' = IF pending' # {} THEN frame ELSE Cover
      /\ pc' = IF pending' # {} THEN "send" ELSE IF passthrough THEN "high" ELSE "idle"
      /\ peers' = peers /\ passthrough' = passthrough
  BY DEF Send
<1>2. /\ pending' \cup hit' = pending \cup hit /\ pending' \cap hit' = {}
      /\ p \in peers \ hit
  BY <1>1 DEF ShapeInv, DispatchShape
<1>3. Cardinality(pending' \cup hit') = Budget(peers) /\ pending' \cup hit' \subseteq peers
  BY <1>1, <1>2 DEF ShapeInv, DispatchShape
<1>4. (pending' = {}) <=> (Cardinality(hit') = Budget(peers))
  <2>1. IsFiniteSet(pending' \cup hit')
    BY <1>3, FinitePeers
  <2>2. CASE pending' = {}
    BY <1>3, <2>2
  <2>3. CASE pending' # {}
    <3>1. hit' \subseteq pending' \cup hit' /\ hit' # pending' \cup hit'
      BY <1>2, <2>3
    <3> QED
      BY <1>3, <2>1, <2>3, <3>1, FS_Subset, FS_CardinalityType
  <2> QED
    BY <2>2, <2>3
<1>5. Budget(peers)' = Budget(peers)
  BY <1>1 DEF Budget
<1>6. ShapeInv'
  BY <1>1, <1>2, <1>3, <1>5 DEF ShapeInv, DispatchShape
<1> QED
  BY <1>2, <1>4, <1>6

LEMMA ShapeStep == TypeOK /\ ShapeInv /\ [Next]_vars => ShapeInv'
<1> SUFFICES ASSUME TypeOK, ShapeInv, [Next]_vars
             PROVE  ShapeInv'
  OBVIOUS
<1>1. CASE Tick \/ WakeUp
  BY <1>1 DEF Tick, WakeUp, ShapeInv, DispatchShape
<1>2. CASE TakeHigh \/ TakeLow \/ TakeCover
  BY <1>2, ShapeTake
<1>3. CASE HighEmpty \/ DrainDone
  BY <1>3 DEF HighEmpty, DrainDone, ShapeInv, DispatchShape, sendVars
<1>4. ASSUME NEW p \in Peers, Send(p)
      PROVE  ShapeInv'
  BY <1>4, ShapeSend
<1>5. CASE UNCHANGED <<passthrough, schedVars>>
  BY <1>5 DEF ShapeInv, DispatchShape, schedVars, Budget
<1> QED
  BY <1>1, <1>2, <1>3, <1>4, <1>5 DEF Next, Scheduler, Environment, vars, Connect,
     Disconnect, EnqueueHigh, EnqueueLow, LaneFull, NotifyOne

LEMMA ShapeAlways == Spec => [](TypeOK /\ ShapeInv)
<1>1. Init => ShapeInv
  BY DEF Init, ShapeInv, DispatchShape
<1> QED
  BY <1>1, ShapeStep, Typing, PTL DEF Spec

\* Whatever is dispatched, to a present or a departed target, exactly Budget(peers)
\* distinct peers of the snapshot are served, the target among them if present.
THEOREM Shaped == Spec => []DispatchShape
BY ShapeAlways, PTL DEF ShapeInv

LEMMA SubsetOfSize ==
    ASSUME NEW S, IsFiniteSet(S), NEW k \in 0..Cardinality(S)
    PROVE  \E T \in SUBSET S : Cardinality(T) = k
<1>1. PICK n \in Nat : ExistsBijection(1..n, S)
  BY FS_NatBijection
<1>2. PICK m \in Bijection(1..n, S) : TRUE
  BY <1>1 DEF ExistsBijection
<1>3. n = Cardinality(S) /\ k \in 0..n
  BY <1>1, FS_CountingElements
<1>4. 1..k \subseteq 1..n /\ k \in Nat
  BY <1>3
<1> DEFINE T == {m[i] : i \in 1..k}
           g == [i \in 1..k |-> m[i]]
<1>5. T \subseteq S
  BY <1>2, <1>4 DEF Bijection, Injection
<1>6. \A i, j \in 1..n : m[i] = m[j] => i = j
  BY <1>2 DEF Bijection, Injection, IsInjective
<1>7. g \in Bijection(1..k, T)
  <2>1. g \in [1..k -> T]
    OBVIOUS
  <2>2. \A i, j \in DOMAIN g : g[i] = g[j] => i = j
    BY <1>4, <1>6
  <2> QED
    BY <2>1, <2>2 DEF Bijection, Injection, Surjection, IsInjective
<1>8. Cardinality(T) = k
  <2>1. ExistsBijection(1..k, T)
    BY <1>7 DEF ExistsBijection
  <2> QED
    BY <1>4, <2>1, FS_CountingElements
<1> QED
  BY <1>5, <1>8

\* Some set of the size asked for takes fresh peers first.
LEMMA PickOfSize ==
    ASSUME NEW ps, IsFiniteSet(ps), NEW k \in Nat, NEW last
    PROVE  Picks(ps, k, last) # {}
<1> DEFINE fresh == ps \ last
           used == ps \ fresh
           size == Lesser(k, Cardinality(ps))
<1>1. /\ IsFiniteSet(fresh) /\ IsFiniteSet(used)
      /\ Cardinality(fresh) \in Nat /\ Cardinality(used) \in Nat
      /\ Cardinality(ps) = Cardinality(fresh) + Cardinality(used)
  <2>1. /\ IsFiniteSet(fresh) /\ IsFiniteSet(used)
        /\ fresh \cup used = ps /\ fresh \cap used = {}
    BY FS_Subset
  <2> HIDE DEF fresh, used
  <2>2. Cardinality(fresh) \in Nat /\ Cardinality(used) \in Nat
    BY <2>1, FS_CardinalityType
  <2>3. Cardinality(ps) = Cardinality(fresh) + Cardinality(used) - Cardinality({})
    BY <2>1, FS_Union
  <2> QED
    BY <2>1, <2>2, <2>3, FS_EmptySet
<1>2. size \in 0..Cardinality(ps) /\ Cardinality(ps) \in Nat
  BY FS_CardinalityType DEF Lesser
<1>3. fresh \subseteq ps /\ used \subseteq ps /\ fresh \cap used = {}
  OBVIOUS
<1> HIDE DEF used, size
<1>4. CASE size <= Cardinality(fresh)
  <2>1. PICK T \in SUBSET fresh : Cardinality(T) = size
    BY <1>1, <1>2, <1>4, SubsetOfSize
  <2>2. T \in Picks(ps, k, last)
    BY <1>3, <2>1 DEF Picks, size
  <2> QED
    BY <2>2
<1>5. CASE size > Cardinality(fresh)
  <2>1. size - Cardinality(fresh) \in 0..Cardinality(used)
    BY <1>1, <1>2, <1>5
  <2>2. PICK T \in SUBSET used : Cardinality(T) = size - Cardinality(fresh)
    BY <1>1, <2>1, SubsetOfSize
  <2>3. IsFiniteSet(T) /\ fresh \cap T = {}
    BY <1>1, <1>3, FS_Subset
  <2> HIDE DEF fresh
  <2>4. Cardinality(fresh \cup T) = size
    <3>1. Cardinality(fresh \cup T) = Cardinality(fresh) + Cardinality(T) - Cardinality({})
      <4>1. IsFiniteSet(fresh) /\ IsFiniteSet(T) /\ fresh \cap T = {}
        BY <1>1, <2>3
      <4>2. Cardinality(fresh \cup T)
              = Cardinality(fresh) + Cardinality(T) - Cardinality(fresh \cap T)
        BY <4>1, FS_Union
      <4> QED
        BY <4>1, <4>2
    <3> QED
      BY <1>1, <1>2, <2>2, <3>1, FS_EmptySet
  <2>5. fresh \cup T \in Picks(ps, k, last)
    BY <1>3, <2>2, <2>4 DEF Picks, size, fresh
  <2> QED
    BY <2>5
<1> QED
  BY <1>1, <1>2, <1>4, <1>5

\* The abstract selection blocks no dispatch: whatever frame is taken and whoever
\* was served last, there is a set of peers for pick_targets to return.
THEOREM PickExists ==
    Spec => [](peers # {} => \A f \in Frame \cup {Cover} :
                                Picks(Pool(f), Slots(f), lastPeers) # {})
<1>1. TypeOK => (peers # {} => \A f \in Frame \cup {Cover} :
                                  Picks(Pool(f), Slots(f), lastPeers) # {})
  <2> SUFFICES ASSUME TypeOK, peers # {}, NEW f \in Frame \cup {Cover}
               PROVE  Picks(Pool(f), Slots(f), lastPeers) # {}
    OBVIOUS
  <2>1. IsFiniteSet(Pool(f))
    BY FinitePeers DEF Pool
  <2>2. Slots(f) \in Nat
    BY FinitePeers, BudgetRange DEF Slots
  <2> QED
    BY <2>1, <2>2, PickOfSize
<1> QED
  BY <1>1, Typing, PTL

\* Every step of a timed node is a step of WireShape or leaves its variables alone:
\* nothing an observer of the links counts depends on what is in the lanes.  (That
\* ticks and sends do keep coming, WireShape's fairness, is model-checked.)
THEOREM WireRefined ==
    ASSUME Modes = {FALSE}
    PROVE  Spec => Wire!Init /\ [][Wire!Next]_(Wire!vars)
<1>1. Init => Wire!Init /\ ~passthrough
  BY DEF Init, Wire!Init
<1>0. ~passthrough /\ [Next]_vars => ~passthrough'
  BY DEF Next, Scheduler, Environment, vars, Connect, Disconnect, EnqueueHigh, EnqueueLow,
     LaneFull, NotifyOne, Tick, WakeUp, TakeHigh, HighEmpty, TakeLow, TakeCover, DrainDone,
     Send
<1>2. ~passthrough /\ TypeOK /\ TypeOK' /\ ShapeInv /\ [Next]_vars =>
        [Wire!Next]_(Wire!vars)
  <2> SUFFICES ASSUME ~passthrough, TypeOK, TypeOK', ShapeInv, [Next]_vars
               PROVE  Wire!Next \/ UNCHANGED Wire!vars
    OBVIOUS
  <2>1. CASE Tick
    <3>1. Wire!BeginTick
      BY <2>1 DEF Tick, Wire!BeginTick
    <3> QED
      BY <3>1 DEF Wire!Next
  <2>2. CASE WakeUp \/ DrainDone
    BY <2>2 DEF WakeUp, DrainDone
  <2>3. CASE TakeHigh \/ TakeLow \/ TakeCover
    BY <2>3 DEF TakeHigh, TakeLow, TakeCover, Dispatch, ShapeInv, Wire!vars
  <2>4. CASE HighEmpty
    BY <2>4 DEF HighEmpty, sendVars, Wire!vars
  <2>5. ASSUME NEW p \in Peers, Send(p)
        PROVE  Wire!Next
    <3>1. /\ pc = "send" /\ peers' = peers /\ hit' = hit \cup {p}
          /\ pc' = IF pending' # {} THEN "send" ELSE "idle"
          /\ UNCHANGED connected
      BY <2>5 DEF Send
    <3>2. p \in peers \ hit /\ ((pending' = {}) <=> (Cardinality(hit') = Budget(peers)))
      BY <2>5, ShapeSend
    <3>3. ASSUME NEW S PROVE Wire!Cardinality(S) = Cardinality(S)
      BY DEF Wire!Cardinality, Cardinality
    <3>4. Wire!Budget(peers) = Budget(peers)
      BY <3>3 DEF Wire!Budget, Wire!Lesser, Budget, Lesser
    <3>5. Wire!Emit(p)
      BY <3>1, <3>2, <3>3, <3>4 DEF Wire!Emit
    <3> QED
      BY <3>5 DEF Wire!Next
  <2>6. ASSUME NEW p \in Peers, Connect(p) \/ Disconnect(p)
        PROVE  Wire!Next
    <3>1. Wire!Connect(p) \/ Wire!Disconnect(p)
      BY <2>6 DEF Connect, Disconnect, schedVars, Wire!Connect, Wire!Disconnect
    <3> QED
      BY <3>1 DEF Wire!Next
  <2>7. CASE UNCHANGED <<connected, schedVars>>
    BY <2>7 DEF schedVars, Wire!vars
  <2> QED
    BY <2>1, <2>2, <2>3, <2>4, <2>5, <2>6, <2>7 DEF Next, Scheduler, Environment,
       vars, EnqueueHigh, EnqueueLow, LaneFull, NotifyOne
<1> QED
  BY <1>1, <1>0, <1>2, ShapeAlways, PTL DEF Spec
=============================================================================
