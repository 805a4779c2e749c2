------------------------- MODULE PerConnectionProofs -------------------------
(***************************************************************************)
(* Proofs about PerConnectionScope for every finite set of peers, any      *)
(* tasks, any capacities and any modulus of the cursor, timed or           *)
(* passthrough, round robin or randomized.                                 *)
(***************************************************************************)
EXTENDS PerConnectionScope, LaneProofs, CommonProofs

-----------------------------------------------------------------------------
(* What a step does to the lanes of one peer.                              *)

\* A frame submitted for p: refused, appended, pushed over the oldest, or put in
\* front.
Pushed(p) ==
    \E f \in Frame :
        /\ f.id = submitted + 1 /\ f.target = p /\ submitted' = submitted + 1
        /\ \/ /\ f.lane = "high" /\ ~HighFull(lanes[p].high)
              /\ lanes'[p].high = PushHigh(lanes[p].high, f)
              /\ lanes'[p].low = lanes[p].low
           \/ /\ f.lane = "high"
              /\ lanes'[p].high = PushHighEvicting(lanes[p].high, f)
              /\ lanes'[p].low = lanes[p].low
           \/ /\ f.lane = "low"
              /\ lanes'[p].high = lanes[p].high
              /\ lanes'[p].low = PushLow(lanes[p].low, f)

\* A frame taken from p's lanes into the scheduler's hands.
Popped(p) ==
    /\ Take /\ p = Head(todo) /\ submitted' = submitted
    /\ \/ /\ lanes[p].high # << >> /\ frame' = Head(lanes[p].high)
          /\ lanes'[p].high = Pop(lanes[p].high) /\ lanes'[p].low = lanes[p].low
       \/ /\ lanes[p].high = << >> /\ lanes[p].low # << >>
          /\ frame' = Head(lanes[p].low)
          /\ lanes'[p].high = << >> /\ lanes'[p].low = Pop(lanes[p].low)

Pruned(p) ==
    Prune /\ p \notin ToSet(peers) /\ lanes'[p] = Empty /\ submitted' = submitted

Untouched(p) ==
    lanes'[p] = lanes[p] /\ submitted' \in {submitted, submitted + 1}

LaneMove(p) == Untouched(p) \/ Pushed(p) \/ Popped(p) \/ Pruned(p)

LanesType == lanes \in [Peers -> [high : Seq(Frame), low : Seq(Frame)]]

LEMMA LanesOf ==
    ASSUME LanesType, NEW p \in Peers
    PROVE  lanes[p].high \in Seq(Frame) /\ lanes[p].low \in Seq(Frame)
BY DEF LanesType

\* The lanes of every peer are in order, and addressed to it.
LaneInv ==
    \A p \in Peers :
        /\ PairOrdered(lanes[p].high, lanes[p].low, submitted)
        /\ \A f \in FramesIn(lanes[p].high) \cup FramesIn(lanes[p].low) : f.target = p

LEMMA NewFrameType ==
    ASSUME submitted \in Nat, NEW lane \in {"high", "low"}, NEW p \in Peers
    PROVE  /\ NewFrame(lane, p) \in Frame /\ NewFrame(lane, p).id = submitted + 1
           /\ NewFrame(lane, p).target = p /\ NewFrame(lane, p).lane = lane
BY DEF NewFrame, Frame

LEMMA PushPeerMoves ==
    ASSUME TypeOK, NEW t \in Threads, NEW lane \in {"high", "low"}, NEW q \in Peers,
           PushPeer(t, q, lane), NEW p \in Peers
    PROVE  LaneMove(p)
<1> DEFINE f == NewFrame(lane, q)
           refused == lane = "high" /\ HighFull(lanes[q].high)
<1>1. /\ submitted' = IF refused THEN submitted ELSE submitted + 1
      /\ lanes' = CASE refused -> lanes
                    [] lane = "low" -> [lanes EXCEPT ![q].low = PushLow(@, f)]
                    [] OTHER -> [lanes EXCEPT ![q].high = PushHigh(@, f)]
  BY DEF PushPeer
<1>2. /\ f \in Frame /\ f.id = submitted + 1 /\ f.target = q /\ f.lane = lane
      /\ LanesType
  BY NewFrameType DEF TypeOK, LanesType
<1> HIDE DEF f
<1>3. CASE refused \/ p # q
  <2>1. lanes'[p] = lanes[p]
    BY <1>1, <1>2, <1>3 DEF LanesType
  <2> QED
    BY <1>1, <2>1 DEF LaneMove, Untouched
<1>4. CASE ~refused /\ p = q /\ lane = "high"
  <2>1. /\ lanes'[p].high = PushHigh(lanes[p].high, f)
        /\ lanes'[p].low = lanes[p].low
    BY <1>1, <1>2, <1>4 DEF LanesType
  <2> QED
    BY <1>1, <1>2, <1>4, <2>1 DEF LaneMove, Pushed
<1>5. CASE ~refused /\ p = q /\ lane = "low"
  <2>1. /\ lanes'[p].low = PushLow(lanes[p].low, f)
        /\ lanes'[p].high = lanes[p].high
    BY <1>1, <1>2, <1>5 DEF LanesType
  <2> QED
    BY <1>1, <1>2, <1>5, <2>1 DEF LaneMove, Pushed
<1> QED
  BY <1>3, <1>4, <1>5

LEMMA FanOutMoves ==
    ASSUME TypeOK, NEW t \in Threads, FanOut(t), NEW p \in Peers
    PROVE  LaneMove(p)
<1> DEFINE lane == task[t].lane
           f == NewFrame(lane, p)
<1>1. /\ lanes'[p] = IF p \in task[t].copies THEN WithCopy(lanes[p], lane, f) ELSE lanes[p]
      /\ submitted' = submitted + 1 /\ lane \in {"high", "low"}
  BY DEF FanOut, TypeOK
<1>2. /\ f \in Frame /\ f.id = submitted + 1 /\ f.target = p /\ f.lane = lane
      /\ LanesType
  BY <1>1, NewFrameType DEF TypeOK, LanesType
<1> HIDE DEF f, lane
<1>3. CASE p \notin task[t].copies
  BY <1>1, <1>3 DEF LaneMove, Untouched
<1>4. CASE p \in task[t].copies /\ lane = "low"
  <2>1. /\ lanes'[p].low = PushLow(lanes[p].low, f)
        /\ lanes'[p].high = lanes[p].high
    BY <1>1, <1>2, <1>4 DEF LanesType, WithCopy
  <2> QED
    BY <1>1, <1>2, <1>4, <2>1 DEF LaneMove, Pushed
<1>5. CASE p \in task[t].copies /\ lane = "high"
  <2>1. /\ lanes'[p].high = PushHighEvicting(lanes[p].high, f)
        /\ lanes'[p].low = lanes[p].low
    BY <1>1, <1>2, <1>5 DEF LanesType, WithCopy
  <2> QED
    BY <1>1, <1>2, <1>5, <2>1 DEF LaneMove, Pushed
<1> QED
  BY <1>1, <1>3, <1>4, <1>5

\* What next_frame_for finds in the lanes of the peer at hand.
LEMMA NextFrameOf ==
    ASSUME NEW pair \in [high : Seq(Frame), low : Seq(Frame)]
    PROVE  LET next == NextFrame(pair)
           IN  /\ next.rest \in [high : Seq(Frame), low : Seq(Frame)]
               /\ next.frame \in Frame \cup {Cover}
               /\ \/ /\ pair.high # << >> /\ next.frame = Head(pair.high)
                     /\ next.rest.high = Pop(pair.high) /\ next.rest.low = pair.low
                  \/ /\ pair.high = << >> /\ pair.low # << >>
                     /\ next.frame = Head(pair.low)
                     /\ next.rest.high = << >> /\ next.rest.low = Pop(pair.low)
                  \/ /\ pair = Empty /\ next.frame = Cover /\ next.rest = pair
<1> DEFINE next == NextFrame(pair)
<1>1. pair.high \in Seq(Frame) /\ pair.low \in Seq(Frame)
  OBVIOUS
<1>2. CASE pair.high # << >>
  <2>1. /\ next.frame = Head(pair.high)
        /\ next.rest = [pair EXCEPT !.high = Pop(@)]
    BY <1>2 DEF NextFrame
  <2>2. Head(pair.high) \in Frame /\ Pop(pair.high) \in Seq(Frame)
    BY <1>1, <1>2, PopShape
  <2> QED
    BY <1>1, <1>2, <2>1, <2>2
<1>3. CASE pair.high = << >> /\ pair.low # << >>
  <2>1. /\ next.frame = Head(pair.low)
        /\ next.rest = [pair EXCEPT !.low = Pop(@)]
    BY <1>3 DEF NextFrame
  <2>2. Head(pair.low) \in Frame /\ Pop(pair.low) \in Seq(Frame)
    BY <1>1, <1>3, PopShape
  <2> QED
    BY <1>1, <1>3, <2>1, <2>2
<1>4. CASE pair.high = << >> /\ pair.low = << >>
  BY <1>4 DEF NextFrame, Empty
<1> QED
  BY <1>2, <1>3, <1>4

\* A step of Take: the peer at the head of todo, what it had queued, and whether a
\* drain passes over it.
LEMMA TakeEffect ==
    ASSUME TypeOK, Take
    PROVE  LET p == Head(todo)
               next == NextFrame(lanes[p])
           IN  /\ p \in ToSet(peers) /\ p \in Peers /\ todo # << >> /\ pc = "pop"
               /\ lanes[p] \in [high : Seq(Frame), low : Seq(Frame)]
               /\ frame' = next.frame /\ lanes' = [lanes EXCEPT ![p] = next.rest]
               /\ \/ /\ passthrough /\ lanes[p] = Empty /\ frame' = Cover
                     /\ todo' = Tail(todo)
                     /\ pc' = IF Len(todo) > 1 THEN "pop" ELSE "idle"
                  \/ todo' = todo /\ pc' = "send"
<1> DEFINE p == Head(todo)
           next == NextFrame(lanes[p])
           skip == Skips /\ next.frame = Cover
<1>1. pc = "pop" /\ todo # << >> /\ todo \in Seq(ToSet(peers)) /\ peers \in Seq(Peers)
  BY DEF Take, TypeOK
<1>2. p \in ToSet(peers)
  BY <1>1
<1>3. p \in Peers
  BY <1>1, <1>2, ListMembers
<1>4. lanes[p] \in [high : Seq(Frame), low : Seq(Frame)]
  BY <1>3 DEF TypeOK
<1>5. /\ lanes' = [lanes EXCEPT ![p] = next.rest]
      /\ frame' = next.frame
      /\ todo' = IF skip THEN Tail(todo) ELSE todo
      /\ pc' = CASE ~skip -> "send"
                 [] skip /\ Len(todo) > 1 -> "pop"
                 [] OTHER -> "idle"
  BY DEF Take
<1>6. next.frame = Cover => lanes[p] = Empty
  <2>1. \A f \in Frame : f.lane # "cover"
    BY DEF Frame
  <2>2. lanes[p] # Empty => next.frame \in Frame
    BY <1>4, NextFrameOf, PopShape
  <2> QED
    BY <2>1, <2>2 DEF Cover
<1> HIDE DEF p, next
<1>7. CASE skip
  <2>1. passthrough /\ next.frame = Cover
    BY <1>7 DEF Skips
  <2>2. todo' = Tail(todo) /\ pc' = IF Len(todo) > 1 THEN "pop" ELSE "idle"
    BY <1>5, <1>7
  <2> QED
    BY <1>1, <1>2, <1>3, <1>4, <1>5, <1>6, <2>1, <2>2 DEF p, next
<1>8. CASE ~skip
  <2>1. todo' = todo /\ pc' = "send"
    BY <1>5, <1>8
  <2> QED
    BY <1>1, <1>2, <1>3, <1>4, <1>5, <2>1 DEF p, next
<1> QED
  BY <1>7, <1>8

LEMMA TakeMoves ==
    ASSUME TypeOK, Take, NEW q \in Peers
    PROVE  LaneMove(q)
<1> DEFINE p == Head(todo)
           next == NextFrame(lanes[p])
<1>1. /\ p \in Peers /\ lanes[p] \in [high : Seq(Frame), low : Seq(Frame)]
      /\ frame' = next.frame /\ lanes' = [lanes EXCEPT ![p] = next.rest]
      /\ submitted' = submitted
  BY TakeEffect DEF Take
<1>2. \/ /\ lanes[p].high # << >> /\ next.frame = Head(lanes[p].high)
         /\ next.rest.high = Pop(lanes[p].high) /\ next.rest.low = lanes[p].low
      \/ /\ lanes[p].high = << >> /\ lanes[p].low # << >>
         /\ next.frame = Head(lanes[p].low)
         /\ next.rest.high = << >> /\ next.rest.low = Pop(lanes[p].low)
      \/ next.rest = lanes[p]
  BY <1>1, NextFrameOf
<1> HIDE DEF next
<1>3. CASE q # p \/ next.rest = lanes[p]
  <2>1. lanes'[q] = lanes[q]
    BY <1>1, <1>3 DEF TypeOK
  <2> QED
    BY <1>1, <2>1 DEF LaneMove, Untouched
<1>4. CASE q = p /\ next.rest # lanes[p]
  <2>1. lanes'[q] = next.rest
    BY <1>1, <1>4 DEF TypeOK
  <2> QED
    BY <1>1, <1>2, <1>4, <2>1 DEF LaneMove, Popped
<1> QED
  BY <1>3, <1>4

\* Every step is one of these moves for every peer.
LEMMA EachMoves ==
    ASSUME TypeOK, [Next]_vars, NEW p \in Peers
    PROVE  LaneMove(p)
<1>1. ASSUME NEW t \in Threads, NEW lane \in {"high", "low"}, NEW q \in Peers,
             PushPeer(t, q, lane)
      PROVE  LaneMove(p)
  BY <1>1, PushPeerMoves
<1>2. ASSUME NEW t \in Threads, FanOut(t)
      PROVE  LaneMove(p)
  BY <1>2, FanOutMoves
<1>3. CASE Take
  BY <1>3, TakeMoves
<1>4. CASE Prune
  <2>1. lanes'[p] = IF p \in ToSet(peers) THEN lanes[p] ELSE Empty
    BY <1>4 DEF Prune, Kept
  <2> QED
    BY <1>4, <2>1 DEF Prune, LaneMove, Untouched, Pruned
<1>5. CASE UNCHANGED <<lanes, submitted>>
  BY <1>5 DEF LaneMove, Untouched
<1> QED
  BY <1>1, <1>2, <1>3, <1>4, <1>5 DEF Next, Scheduler, Environment, vars, shaperVars,
     Snapshot, Refresh, Send, Connect, Disconnect, BeginFanOut, NotifyOne

\* A move leaves lanes, and leaves them in order.
LEMMA MoveKeeps ==
    ASSUME TypeOK, LaneInv, NEW p \in Peers, LaneMove(p)
    PROVE  /\ lanes'[p].high \in Seq(Frame) /\ lanes'[p].low \in Seq(Frame)
           /\ PairOrdered(lanes'[p].high, lanes'[p].low, submitted')
           /\ \A f \in FramesIn(lanes'[p].high) \cup FramesIn(lanes'[p].low) : f.target = p
<1> DEFINE h == lanes[p].high
           l == lanes[p].low
<1>1. /\ h \in Seq(Frame) /\ l \in Seq(Frame) /\ submitted \in Nat
      /\ PairOrdered(h, l, submitted)
      /\ \A f \in FramesIn(h) \cup FramesIn(l) : f.target = p
  BY LanesOf DEF TypeOK, LanesType, LaneInv
<1>2. /\ Len(h) <= HighCap /\ Len(l) <= LowCap /\ Ascending(h) /\ Descending(l)
      /\ \A f \in FramesIn(h) \cup FramesIn(l) : f.id < submitted + 1
  BY <1>1 DEF PairOrdered
<1>3. CASE Untouched(p)
  BY <1>1, <1>3, PairElsewhere DEF Untouched
<1>4. ASSUME NEW f \in Frame, f.id = submitted + 1, f.target = p,
             submitted' = submitted + 1, f.lane = "high",
             lanes'[p].low = l,
             \/ ~HighFull(h) /\ lanes'[p].high = PushHigh(h, f)
             \/ lanes'[p].high = PushHighEvicting(h, f)
      PROVE  /\ lanes'[p].high \in Seq(Frame) /\ lanes'[p].low \in Seq(Frame)
             /\ PairOrdered(lanes'[p].high, lanes'[p].low, submitted')
             /\ \A g \in FramesIn(lanes'[p].high) \cup FramesIn(lanes'[p].low) :
                   g.target = p
  <2>1. lanes'[p].high \in Seq(Frame)
    BY <1>1, <1>2, <1>4, PushHighShape, PushHighEvictingShape
  <2>2. PairOrdered(lanes'[p].high, lanes'[p].low, submitted')
    BY <1>1, <1>4, PairPushHigh
  <2>3. FramesIn(lanes'[p].high) \subseteq FramesIn(h) \cup {f}
    BY <1>1, <1>2, <1>4, PushHighFrames, PushHighEvictingFrames
  <2> QED
    BY <1>1, <1>4, <2>1, <2>2, <2>3
<1>5. ASSUME NEW f \in Frame, f.id = submitted + 1, f.target = p,
             submitted' = submitted + 1, f.lane = "low",
             lanes'[p].high = h, lanes'[p].low = PushLow(l, f)
      PROVE  /\ lanes'[p].high \in Seq(Frame) /\ lanes'[p].low \in Seq(Frame)
             /\ PairOrdered(lanes'[p].high, lanes'[p].low, submitted')
             /\ \A g \in FramesIn(lanes'[p].high) \cup FramesIn(lanes'[p].low) :
                   g.target = p
  <2>1. lanes'[p].low \in Seq(Frame)
    BY <1>1, <1>2, <1>5, PushLowShape
  <2>2. PairOrdered(lanes'[p].high, lanes'[p].low, submitted')
    BY <1>1, <1>5, PairPushLow
  <2>3. FramesIn(lanes'[p].low) \subseteq FramesIn(l) \cup {f}
    BY <1>1, <1>2, <1>5, PushLowFrames
  <2> QED
    BY <1>1, <1>5, <2>1, <2>2, <2>3
<1>6. CASE Pushed(p)
  BY <1>4, <1>5, <1>6 DEF Pushed
<1>7. CASE Popped(p)
  <2>1. CASE h # << >> /\ lanes'[p].high = Pop(h) /\ lanes'[p].low = l
    <3>1. Pop(h) \in Seq(Frame) /\ FramesIn(Pop(h)) \subseteq FramesIn(h)
      BY <1>1, <2>1, PopShape, PopFrames
    <3>2. PairOrdered(Pop(h), l, submitted)
      BY <1>1, <2>1, PairPop
    <3> QED
      BY <1>1, <1>7, <2>1, <3>1, <3>2 DEF Popped
  <2>2. CASE h = << >> /\ l # << >> /\ lanes'[p].high = << >> /\ lanes'[p].low = Pop(l)
    <3>1. Pop(l) \in Seq(Frame) /\ FramesIn(Pop(l)) \subseteq FramesIn(l)
      BY <1>1, <2>2, PopShape, PopFrames
    <3>2. PairOrdered(h, Pop(l), submitted)
      BY <1>1, <2>2, PairPop
    <3> QED
      BY <1>1, <1>7, <2>2, <3>1, <3>2 DEF Popped
  <2> QED
    BY <1>7, <2>1, <2>2 DEF Popped
<1>8. CASE Pruned(p)
  <2>1. lanes'[p].high = << >> /\ lanes'[p].low = << >>
    BY <1>8 DEF Pruned, Empty
  <2>2. FramesIn(<< >>) = {}
    BY DEF FramesIn
  <2> QED
    BY <2>1, <2>2, EmptyOrdered
<1> QED
  BY <1>3, <1>6, <1>7, <1>8 DEF LaneMove

-----------------------------------------------------------------------------
(* Types.                                                                  *)

\* Lists the overlay may show.
LEMMA OrdersOfPeers ==
    ASSUME NEW s \in Orders
    PROVE  s \in Seq(Peers) /\ IsInjective(s)
<1>1. PICK S \in SUBSET Peers : s \in SetToSeqs(S)
  BY DEF Orders, SetToAllKPermutations
<1>2. IsFiniteSet(S)
  BY PeersAssumption, FS_Subset
<1>3. s \in Seq(S) /\ IsInjective(s)
  BY <1>1, <1>2, OrdersOf
<1> QED
  BY <1>3

\* A tick's peer is one of the snapshot.
LEMMA TurnInside ==
    ASSUME cursor \in Words, NEW list \in Seq(Peers), list # << >>,
           NEW offset \in Offsets(list, Randomize)
    PROVE  Turn(list, cursor, offset) \in ToSet(list)
<1> DEFINE n == Len(list)
<1>1. n \in Nat \ {0} /\ offset \in Int /\ cursor \in Int
  BY CursorAssumption DEF Offsets, Words
<1>2. cursor + offset \in Int
  BY <1>1
<1>3. Wrapped(cursor + offset) \in Int
  BY <1>2, CursorAssumption, ModBounds DEF Wrapped
<1>4. Position(cursor, offset, n) \in 0..(n - 1)
  BY <1>1, <1>3, ModBounds DEF Position
<1>5. Position(cursor, offset, n) + 1 \in 1..n
  BY <1>1, <1>4
<1> QED
  BY <1>5, ListMembers DEF Turn

LEMMA AdvancedType == cursor \in Words => Advanced(cursor) \in Words
<1> SUFFICES ASSUME cursor \in Words
             PROVE  Advanced(cursor) \in Words
  OBVIOUS
<1>1. cursor + 1 \in Int
  BY CursorAssumption DEF Words
<1> QED
  BY <1>1, CursorAssumption, ModBounds DEF Advanced, Wrapped, Words

LEMMA PruneEffect ==
    ASSUME TypeOK, Prune
    PROVE  /\ pc = "prune" /\ peers' = peers
           /\ todo' \in Seq(ToSet(peers)) /\ ToSet(todo') \subseteq ToSet(peers)
           /\ pc' = IF peers = << >> THEN "idle" ELSE "pop"
           /\ todo' # << >> <=> peers # << >>
           /\ cursor' \in Words
           /\ passthrough => todo' = peers
           /\ ~passthrough /\ peers # << >> =>
                /\ \E p \in ToSet(peers) : todo' = <<p>>
                /\ \E offset \in Offsets(peers, Randomize) :
                      todo' = <<Turn(peers, cursor, offset)>>
                /\ cursor' = Advanced(cursor)
           /\ passthrough \/ peers = << >> => cursor' = cursor
<1>1. /\ peers \in Seq(Peers) /\ peers \in Seq(ToSet(peers)) /\ cursor \in Words
  BY ListMembers DEF TypeOK
<1>2. CASE passthrough \/ peers = << >>
  <2>1. todo' = peers /\ cursor' = cursor
    BY <1>2 DEF Prune
  <2> QED
    BY <1>1, <1>2, <2>1 DEF Prune
<1>3. CASE ~(passthrough \/ peers = << >>)
  <2>1. PICK offset \in Offsets(peers, Randomize) : todo' = <<Turn(peers, cursor, offset)>>
    BY <1>3 DEF Prune, Due
  <2>2. cursor' = Advanced(cursor)
    BY <1>3 DEF Prune
  <2>3. Turn(peers, cursor, offset) \in ToSet(peers)
    BY <1>1, <1>3, TurnInside
  <2>4. todo' \in Seq(ToSet(peers)) /\ todo' # << >>
    BY <2>1, <2>3
  <2>5. ToSet(todo') \subseteq ToSet(peers)
    BY <2>4, ListMembers
  <2>6. cursor' \in Words
    BY <1>1, <2>2, AdvancedType
  <2>7. /\ pc = "prune" /\ peers' = peers
        /\ pc' = IF peers = << >> THEN "idle" ELSE "pop"
    BY DEF Prune
  <2>8. ~passthrough /\ peers # << >>
    BY <1>3
  <2>9. \E p \in ToSet(peers) : todo' = <<p>>
    BY <2>1, <2>3
  <2> QED
    BY <1>3, <2>1, <2>2, <2>4, <2>5, <2>6, <2>7, <2>8, <2>9
<1> QED
  BY <1>2, <1>3

LEMMA TailKeeps ==
    ASSUME NEW S, NEW s \in Seq(S), s # << >>
    PROVE  /\ Head(s) \in S /\ Tail(s) \in Seq(S)
           /\ (IF Len(s) > 1 THEN "pop" ELSE "idle") = "pop" <=> Tail(s) # << >>
           /\ ToSet(s) = {Head(s)} \cup ToSet(Tail(s))
<1>1. /\ Head(s) = s[1] /\ Head(s) \in S /\ Len(s) \in Nat /\ Len(s) >= 1
      /\ Tail(s) \in Seq(S) /\ Len(Tail(s)) = Len(s) - 1
      /\ \A i \in 1..Len(s) - 1 : Tail(s)[i] = s[i + 1]
      /\ DOMAIN s = 1..Len(s) /\ DOMAIN Tail(s) = 1..Len(s) - 1
  OBVIOUS
<1>2. Len(s) > 1 <=> Tail(s) # << >>
  <2> DEFINE t == Tail(s)
  <2>1. t \in Seq(S) /\ Len(t) = Len(s) - 1 /\ Len(s) \in Nat /\ Len(s) >= 1
    BY <1>1
  <2> HIDE DEF t
  <2>2. t = << >> <=> Len(t) = 0
    BY <2>1, EmptySeq
  <2> QED
    BY <2>1, <2>2 DEF t
<1>3. ToSet(s) = {Head(s)} \cup ToSet(Tail(s))
  <2> DEFINE t == Tail(s)
             n == Len(s)
  <2>1. /\ n \in Nat /\ n >= 1 /\ Head(s) = s[1]
        /\ \A i \in 1..n - 1 : t[i] = s[i + 1]
        /\ DOMAIN s = 1..n /\ DOMAIN t = 1..n - 1
    BY <1>1
  <2> HIDE DEF t, n
  <2>2. \A i \in 1..n : i = 1 \/ (i - 1 \in 1..n - 1 /\ (i - 1) + 1 = i)
    BY <2>1
  <2>3. \A i \in 1..n - 1 : i + 1 \in 1..n
    BY <2>1
  <2>4. \A i \in 1..n : s[i] \in {Head(s)} \cup ToSet(t)
    <3> SUFFICES ASSUME NEW i \in 1..n, i # 1
                 PROVE  s[i] \in ToSet(t)
      BY <2>1
    <3>1. i - 1 \in DOMAIN t /\ t[i - 1] = s[i]
      BY <2>1, <2>2
    <3> QED
      BY <3>1 DEF ToSet
  <2>5. \A i \in 1..n - 1 : t[i] \in ToSet(s)
    BY <2>1, <2>3 DEF ToSet
  <2>6. Head(s) \in ToSet(s)
    BY <2>1 DEF ToSet
  <2> QED
    BY <2>1, <2>4, <2>5, <2>6 DEF ToSet, t
<1> QED
  BY <1>1, <1>2, <1>3

\* The new copy of a fan-out leaves a pair of lanes.
LEMMA WithCopyType ==
    ASSUME NEW pair \in [high : Seq(Frame), low : Seq(Frame)],
           Len(pair.high) <= HighCap, Len(pair.low) <= LowCap,
           NEW lane \in {"high", "low"}, NEW f \in Frame
    PROVE  WithCopy(pair, lane, f) \in [high : Seq(Frame), low : Seq(Frame)]
<1>1. pair.high \in Seq(Frame) /\ pair.low \in Seq(Frame)
  OBVIOUS
<1>2. PushLow(pair.low, f) \in Seq(Frame) /\ PushHighEvicting(pair.high, f) \in Seq(Frame)
  BY <1>1, PushLowShape, PushHighEvictingShape
<1> QED
  BY <1>2 DEF WithCopy

LEMMA LanesTypeStep ==
    ASSUME TypeOK, LaneInv, [Next]_vars
    PROVE  LanesType'
<1> DEFINE Pair == [high : Seq(Frame), low : Seq(Frame)]
<1>1. /\ lanes \in [Peers -> Pair] /\ submitted \in Nat
      /\ \A p \in Peers : Len(lanes[p].high) <= HighCap /\ Len(lanes[p].low) <= LowCap
  BY DEF TypeOK, LaneInv, PairOrdered
<1>2. ASSUME NEW t \in Threads, NEW lane \in {"high", "low"}, NEW p \in Peers,
             PushPeer(t, p, lane)
      PROVE  lanes' \in [Peers -> Pair]
  <2> DEFINE f == NewFrame(lane, p)
  <2>1. \/ lanes' = lanes
        \/ lanes' = [lanes EXCEPT ![p].low = PushLow(@, f)]
        \/ /\ lanes' = [lanes EXCEPT ![p].high = PushHigh(@, f)]
           /\ ~HighFull(lanes[p].high)
    BY <1>2 DEF PushPeer
  <2>2. f \in Frame /\ lanes[p].high \in Seq(Frame) /\ lanes[p].low \in Seq(Frame)
    BY <1>1, NewFrameType
  <2> HIDE DEF f
  <2>3. /\ PushLow(lanes[p].low, f) \in Seq(Frame)
        /\ ~HighFull(lanes[p].high) => PushHigh(lanes[p].high, f) \in Seq(Frame)
    BY <1>1, <2>2, PushLowShape, PushHighShape
  <2> QED
    BY <1>1, <2>1, <2>3
<1>3. ASSUME NEW t \in Threads, FanOut(t)
      PROVE  lanes' \in [Peers -> Pair]
  <2> DEFINE lane == task[t].lane
             Copied(p) == WithCopy(lanes[p], lane, NewFrame(lane, p))
  <2>1. /\ lanes' = [p \in Peers |-> IF p \in task[t].copies THEN Copied(p) ELSE lanes[p]]
        /\ lane \in {"high", "low"}
    BY <1>3 DEF FanOut, TypeOK
  <2>2. ASSUME NEW p \in Peers
        PROVE  Copied(p) \in Pair
    BY <1>1, <2>1, NewFrameType, WithCopyType
  <2> HIDE DEF lane, Copied
  <2> QED
    BY <1>1, <2>1, <2>2
<1>4. CASE Take
  <2> DEFINE p == Head(todo)
             next == NextFrame(lanes[p])
  <2>1. p \in Peers /\ lanes' = [lanes EXCEPT ![p] = next.rest] /\ next.rest \in Pair
    BY <1>4, TakeEffect, NextFrameOf
  <2> HIDE DEF p, next
  <2> QED
    BY <1>1, <2>1 DEF LanesType
<1>5. CASE Prune
  <2>1. Empty \in Pair
    BY DEF Empty
  <2> QED
    BY <1>1, <1>5, <2>1 DEF Prune, LanesType
<1>6. CASE UNCHANGED lanes
  BY <1>1, <1>6 DEF LanesType
<1> QED
  BY <1>2, <1>3, <1>4, <1>5, <1>6 DEF Next, Scheduler, Environment, vars, shaperVars,
     Snapshot, Refresh, Send, Connect, Disconnect, BeginFanOut, NotifyOne, LanesType

LEMMA LaneInvStep ==
    ASSUME TypeOK, LaneInv, [Next]_vars
    PROVE  LaneInv'
BY EachMoves, MoveKeeps DEF LaneInv

\* The overlay's list stays a list of distinct peers.
LEMMA LinksStep ==
    ASSUME TypeOK, [Next]_vars
    PROVE  links' \in Seq(Peers) /\ IsInjective(links')
<1>1. ASSUME NEW p \in Peers, Connect(p)
      PROVE  links' \in Seq(Peers) /\ IsInjective(links')
  <2>1. connected \cup {p} \subseteq Peers /\ IsFiniteSet(connected \cup {p})
    BY PeersAssumption, FS_Subset, ListMembers DEF TypeOK, connected
  <2>2. links' \in Seq(connected \cup {p}) /\ IsInjective(links')
    BY <1>1, <2>1, OrdersOf DEF Connect
  <2> QED
    BY <2>1, <2>2
<1>2. ASSUME NEW p \in Peers, Disconnect(p)
      PROVE  links' \in Seq(Peers) /\ IsInjective(links')
  BY <1>2, DistinctRemoved DEF Disconnect, TypeOK
<1>3. CASE UNCHANGED links
  BY <1>3 DEF TypeOK, IsInjective
<1> QED
  BY <1>1, <1>2, <1>3 DEF Next, Scheduler, Environment, vars, shaperVars,
     Snapshot, Refresh, Prune, Take, Send, PushPeer, BeginFanOut, FanOut, NotifyOne

\* What the submitting tasks own.
TasksType ==
    /\ submitted \in 0..MaxFrames
    /\ task \in [Threads -> [at : {"rest", "fan", "notify"}, lane : {"high", "low"},
                             copies : SUBSET Peers]]
    /\ permit \in BOOLEAN

LEMMA TasksStep ==
    ASSUME TypeOK, [Next]_vars
    PROVE  TasksType'
<1> DEFINE At == [at : {"rest", "fan", "notify"}, lane : {"high", "low"},
                  copies : SUBSET Peers]
<1>1. /\ Resting \in At /\ Signalling \in At
      /\ submitted \in 0..MaxFrames /\ task \in [Threads -> At] /\ permit \in BOOLEAN
      /\ pcPeers \subseteq Peers
  BY DEF TypeOK, Resting, Signalling
<1>2. submitted < MaxFrames => submitted + 1 \in 0..MaxFrames
  BY <1>1, MaxFramesAssumption
<1>3. ASSUME NEW t \in Threads, NEW lane \in {"high", "low"}, NEW p \in Peers,
             PushPeer(t, p, lane)
      PROVE  TasksType'
  <2>1. /\ submitted' \in {submitted, submitted + 1} /\ submitted < MaxFrames
        /\ task' = [task EXCEPT ![t] = Signalling] /\ permit' = permit
    BY <1>3 DEF PushPeer
  <2> QED
    BY <1>1, <1>2, <2>1 DEF TasksType
<1>4. ASSUME NEW t \in Threads, NEW lane \in {"high", "low"}, BeginFanOut(t, lane)
      PROVE  TasksType'
  <2> DEFINE new == [at |-> "fan", lane |-> lane, copies |-> pcPeers]
  <2>1. new \in At
    BY <1>1
  <2>2. /\ task' = [task EXCEPT ![t] = IF pcPeers = {} THEN Signalling ELSE new]
        /\ submitted' = submitted /\ permit' = permit
    BY <1>4 DEF BeginFanOut
  <2> HIDE DEF new
  <2> QED
    BY <1>1, <2>1, <2>2 DEF TasksType
<1>5. ASSUME NEW t \in Threads, FanOut(t)
      PROVE  TasksType'
  BY <1>1, <1>2, <1>5 DEF FanOut, TasksType
<1>6. ASSUME NEW t \in Threads, NotifyOne(t)
      PROVE  TasksType'
  BY <1>1, <1>6 DEF NotifyOne, TasksType
<1>7. CASE Snapshot
  <2>1. permit' \in {permit, FALSE} /\ submitted' = submitted /\ task' = task
    BY <1>7 DEF Snapshot
  <2> QED
    BY <1>1, <2>1 DEF TasksType
<1>8. CASE UNCHANGED <<submitted, task, permit>>
  BY <1>1, <1>8 DEF TasksType
<1> QED
  BY <1>3, <1>4, <1>5, <1>6, <1>7, <1>8 DEF Next, Scheduler, Environment, vars,
     shaperVars, Refresh, Prune, Take, Send, Connect, Disconnect

\* What the scheduler owns, the history of deliveries included.
SchedType ==
    /\ passthrough \in BOOLEAN
    /\ pcPeers \in SUBSET Peers
    /\ pc \in {"idle", "refresh", "prune", "pop", "send"}
    /\ peers \in Seq(Peers) /\ todo \in Seq(ToSet(peers))
    /\ pc \in {"pop", "send"} <=> todo # << >>
    /\ frame \in Frame \cup {Cover}
    /\ cursor \in Words
    /\ hit \in SUBSET Peers
    /\ delivered \in [Peers -> Seq(Frame)]

LEMMA SnapshotType ==
    ASSUME TypeOK, Snapshot
    PROVE  SchedType'
<1>1. todo = << >> /\ todo \in Seq(ToSet(peers'))
  BY DEF Snapshot, TypeOK
<1>2. /\ pc' = "refresh" /\ peers' = links /\ hit' \in {hit, {}}
      /\ UNCHANGED <<passthrough, pcPeers, todo, frame, cursor, delivered>>
  BY DEF Snapshot, appVars
<1> QED
  BY <1>1, <1>2 DEF TypeOK, SchedType

LEMMA RefreshType ==
    ASSUME TypeOK, Refresh
    PROVE  SchedType'
<1>1. ToSet(peers) \subseteq Peers
  BY ListMembers DEF TypeOK
<1>2. /\ pc = "refresh" /\ pc' = "prune" /\ pcPeers' = ToSet(peers)
      /\ UNCHANGED <<passthrough, peers, todo, frame, cursor, hit, delivered>>
  BY DEF Refresh, appVars
<1> QED
  BY <1>1, <1>2 DEF TypeOK, SchedType

LEMMA PruneType ==
    ASSUME TypeOK, Prune
    PROVE  SchedType'
<1>1. /\ peers' = peers /\ todo' \in Seq(ToSet(peers)) /\ cursor' \in Words
      /\ pc' = IF peers = << >> THEN "idle" ELSE "pop"
      /\ todo' # << >> <=> peers # << >>
  BY PruneEffect
<1>2. UNCHANGED <<passthrough, pcPeers, frame, hit, delivered>>
  BY DEF Prune, appVars
<1>3. pc' \in {"pop", "send"} <=> todo' # << >>
  BY <1>1
<1>4. pc' \in {"idle", "refresh", "prune", "pop", "send"}
  BY <1>1
<1> QED
  BY <1>1, <1>2, <1>3, <1>4 DEF TypeOK, SchedType

LEMMA TakeType ==
    ASSUME TypeOK, Take
    PROVE  SchedType'
<1> DEFINE next == NextFrame(lanes[Head(todo)])
<1>1. /\ todo # << >> /\ next.frame \in Frame \cup {Cover} /\ frame' = next.frame
      /\ \/ todo' = Tail(todo) /\ pc' = IF Len(todo) > 1 THEN "pop" ELSE "idle"
         \/ todo' = todo /\ pc' = "send"
  BY TakeEffect, NextFrameOf
<1>2. todo \in Seq(ToSet(peers))
  BY DEF TypeOK
<1>3. todo' \in Seq(ToSet(peers)) /\ (pc' \in {"pop", "send"} <=> todo' # << >>)
  BY <1>1, <1>2, TailKeeps
<1>4. pc' \in {"idle", "refresh", "prune", "pop", "send"}
  BY <1>1
<1>5. UNCHANGED <<passthrough, pcPeers, peers, cursor, hit, delivered>>
  BY DEF Take, appVars
<1> QED
  BY <1>1, <1>3, <1>4, <1>5 DEF TypeOK, SchedType

\* What a send leaves: the receiver's history, longer by the frame or as it was.
LEMMA SendEffect ==
    ASSUME TypeOK, Send
    PROVE  LET p == Head(todo)
           IN  /\ p \in Peers /\ p \in ToSet(peers) /\ pc = "send" /\ todo # << >>
               /\ frame' = Cover /\ hit' = hit \cup {p}
               /\ todo' = Tail(todo) /\ todo' \in Seq(ToSet(peers))
               /\ ToSet(todo) = {p} \cup ToSet(todo')
               /\ pc' = IF Len(todo) > 1 THEN "pop" ELSE "idle"
               /\ pc' = "pop" <=> todo' # << >>
               /\ UNCHANGED <<passthrough, links, lanes, pcPeers, submitted, task,
                              permit, peers, cursor>>
               /\ \/ delivered' = delivered
                  \/ /\ frame \in Frame
                     /\ delivered' = [delivered EXCEPT ![p] = Append(@, frame)]
<1> DEFINE p == Head(todo)
<1>1. /\ pc = "send" /\ todo # << >> /\ todo \in Seq(ToSet(peers))
      /\ peers \in Seq(Peers) /\ frame \in Frame \cup {Cover}
  BY DEF Send, TypeOK
<1>2. p \in ToSet(peers) /\ p \in Peers
  <2>1. p \in ToSet(peers)
    BY <1>1
  <2> QED
    BY <1>1, <2>1, ListMembers
<1>3. /\ frame' = Cover /\ hit' = hit \cup {p} /\ todo' = Tail(todo)
      /\ pc' = IF Len(todo) > 1 THEN "pop" ELSE "idle"
      /\ UNCHANGED <<passthrough, links, lanes, pcPeers, submitted, task,
                     permit, peers, cursor>>
  BY DEF Send, shaperVars
<1>4. \/ delivered' = delivered
      \/ frame # Cover /\ delivered' = [delivered EXCEPT ![p] = Append(@, frame)]
  BY DEF Send, Transmit
<1>5. /\ todo' \in Seq(ToSet(peers)) /\ ToSet(todo) = {p} \cup ToSet(todo')
      /\ pc' = "pop" <=> todo' # << >>
  BY <1>1, <1>3, TailKeeps
<1> QED
  BY <1>1, <1>2, <1>3, <1>4, <1>5

LEMMA SendType ==
    ASSUME TypeOK, Send
    PROVE  SchedType'
<1> DEFINE p == Head(todo)
<1>1. /\ p \in Peers /\ frame' = Cover /\ hit' = hit \cup {p}
      /\ todo' \in Seq(ToSet(peers))
      /\ pc' = IF Len(todo) > 1 THEN "pop" ELSE "idle"
      /\ pc' = "pop" <=> todo' # << >>
      /\ UNCHANGED <<passthrough, pcPeers, peers, cursor>>
      /\ \/ delivered' = delivered
         \/ /\ frame \in Frame
            /\ delivered' = [delivered EXCEPT ![p] = Append(@, frame)]
  BY SendEffect
<1> HIDE DEF p
<1>2. delivered' \in [Peers -> Seq(Frame)]
  <2>1. delivered \in [Peers -> Seq(Frame)] /\ delivered[p] \in Seq(Frame)
    BY <1>1 DEF TypeOK
  <2>2. frame \in Frame => Append(delivered[p], frame) \in Seq(Frame)
    BY <2>1
  <2> QED
    BY <1>1, <2>1, <2>2
<1>3. pc' \in {"idle", "pop"}
  BY <1>1
<1>4. /\ pc' \in {"idle", "refresh", "prune", "pop", "send"}
      /\ pc' \in {"pop", "send"} <=> todo' # << >>
  BY <1>1, <1>3
<1> QED
  BY <1>1, <1>2, <1>4 DEF TypeOK, SchedType

LEMMA SchedStep ==
    ASSUME TypeOK, [Next]_vars
    PROVE  SchedType'
<1>1. CASE UNCHANGED <<passthrough, pcPeers, schedVars, delivered>>
  BY <1>1 DEF TypeOK, SchedType, schedVars
<1> QED
  BY <1>1, SnapshotType, RefreshType, PruneType, TakeType, SendType
  DEF Next, Scheduler, Environment, vars, shaperVars, appVars, Connect, Disconnect,
      PushPeer, BeginFanOut, FanOut, NotifyOne

LEMMA InitTypes == Init => TypeOK /\ LaneInv
<1> SUFFICES ASSUME Init
             PROVE  TypeOK /\ LaneInv
  OBVIOUS
<1>1. links \in Seq(Peers) /\ IsInjective(links)
  BY OrdersOfPeers DEF Init
<1>2. LanesType
  BY DEF Init, LanesType, Empty
<1>3. TasksType
  <2>1. 0 \in 0..MaxFrames
    BY MaxFramesAssumption
  <2>2. Resting \in [at : {"rest", "fan", "notify"}, lane : {"high", "low"},
                     copies : SUBSET Peers]
    BY DEF Resting
  <2> QED
    BY <2>1, <2>2 DEF Init, TasksType
<1>4. SchedType
  <2>1. passthrough \in BOOLEAN
    BY ModesAssumption DEF Init
  <2>2. 0 \in Words
    BY CursorAssumption DEF Words
  <2> QED
    BY <2>1, <2>2 DEF Init, SchedType
<1>5. LaneInv
  <2>1. \A p \in Peers : lanes[p].high = << >> /\ lanes[p].low = << >>
    BY DEF Init, Empty
  <2>2. FramesIn(<< >>) = {}
    BY DEF FramesIn
  <2> QED
    BY <2>1, <2>2, EmptyOrdered DEF LaneInv
<1> QED
  BY <1>1, <1>2, <1>3, <1>4, <1>5 DEF TypeOK, LanesType, TasksType, SchedType

LEMMA StepTypes ==
    ASSUME TypeOK, LaneInv, [Next]_vars
    PROVE  TypeOK' /\ LaneInv'
<1>1. /\ LanesType' /\ TasksType' /\ SchedType' /\ links' \in Seq(Peers)
      /\ IsInjective(links') /\ LaneInv'
  BY LanesTypeStep, TasksStep, SchedStep, LinksStep, LaneInvStep
<1> QED
  BY <1>1 DEF TypeOK, LanesType, TasksType, SchedType

\* Types and lane order are inductive only together: a push keeps a sequence of
\* frames because the lane is within its capacity.
LEMMA TypesAlways == Spec => [](TypeOK /\ LaneInv)
BY InitTypes, StepTypes, PTL DEF Spec

\* Every variable keeps the type its declaration announces; the overlay lists no
\* peer twice, and the scheduler is at a pop or a send exactly while it has peers
\* left to serve.
THEOREM Typing == Spec => []TypeOK
BY TypesAlways, PTL

\* The lanes of every peer stay within their capacities, oldest in front in the
\* high one and newest in front in the low one, whatever mix of unicasts, fan-out
\* copies, evictions and prunings reaches them.
THEOREM PeerLanesOrdered == Spec => []PeerLaneOrder
<1>1. LaneInv => PeerLaneOrder
  BY DEF LaneInv, PeerLaneOrder, PairOrdered, Ascending, Descending
<1> QED
  BY <1>1, TypesAlways, PTL

-----------------------------------------------------------------------------
(* What leaves the lanes.                                                  *)

\* A high frame goes to the scheduler, to eviction by newer copies that fill the
\* lane, or to a pruning that did not see its peer; nothing else removes it.
THEOREM LostByPolicy == Spec => PeerLossOnlyByPolicy
<1>1. ASSUME TypeOK, LaneInv, [Next]_vars, NEW p \in Peers,
             NEW f \in FramesIn(lanes[p].high)
      PROVE  \/ f \in FramesIn(lanes'[p].high) \/ frame' = f
             \/ /\ Len(lanes'[p].high) = HighCap
                /\ \A g \in FramesIn(lanes'[p].high) : f.id < g.id
             \/ Prune /\ p \notin ToSet(peers)
  <2> DEFINE h == lanes[p].high
  <2>1. /\ h \in Seq(Frame) /\ Len(h) <= HighCap /\ Ascending(h) /\ submitted \in Nat
        /\ \A g \in FramesIn(h) : g.id < submitted + 1
    BY <1>1, LanesOf DEF TypeOK, LanesType, LaneInv, PairOrdered
  <2>2. LaneMove(p) /\ f \in FramesIn(h)
    BY <1>1, EachMoves
  <2> HIDE DEF h
  <2>3. CASE Untouched(p)
    BY <2>2, <2>3 DEF Untouched, h
  <2>4. CASE Pushed(p)
    <3>1. PICK new \in Frame :
            /\ new.id = submitted + 1
            /\ \/ lanes'[p].high = h
               \/ ~HighFull(h) /\ lanes'[p].high = PushHigh(h, new)
               \/ lanes'[p].high = PushHighEvicting(h, new)
      BY <2>4 DEF Pushed, h
    <3> QED
      BY <2>1, <2>2, <3>1, PushHighFrames, PushHighEvictingFrames
  <2>5. CASE Popped(p)
    <3>1. h # << >>
      BY <2>2 DEF FramesIn
    <3>2. frame' = Head(h) /\ lanes'[p].high = Pop(h)
      BY <2>5, <3>1 DEF Popped, h
    <3> QED
      BY <2>1, <2>2, <3>1, <3>2, PopFrames
  <2>6. CASE Pruned(p)
    BY <2>6 DEF Pruned
  <2> QED
    BY <2>2, <2>3, <2>4, <2>5, <2>6 DEF LaneMove
<1>2. TypeOK /\ LaneInv /\ [Next]_vars =>
        [\A p \in Peers : \A f \in FramesIn(lanes[p].high) :
           \/ f \in FramesIn(lanes'[p].high) \/ frame' = f
           \/ Len(lanes'[p].high) = HighCap /\ \A g \in FramesIn(lanes'[p].high) : f.id < g.id
           \/ Prune /\ p \notin ToSet(peers)]_vars
  BY <1>1
<1> QED
  BY <1>2, TypesAlways, PTL DEF Spec, PeerLossOnlyByPolicy

-----------------------------------------------------------------------------
(* Order of delivery.                                                      *)

\* A frame is in a lane, in the scheduler's hands, or delivered.  PeerHighInOrder
\* speaks of the first and the last; what makes it inductive is that the frame in
\* hand comes between the two, and that no id is used before it is given out.
KnownIds ==
    \A p \in Peers : \A i \in 1..Len(delivered[p]) : delivered[p][i].id \in 1..submitted

Between(f, p, sent, queue) ==
    /\ f.target = p
    /\ f.lane = "high" =>
         /\ \A g \in FramesIn(queue) : f.id < g.id
         /\ \A i \in 1..Len(sent) : sent[i].lane = "high" => sent[i].id < f.id

HandInv ==
    /\ pc # "send" => frame = Cover
    /\ pc = "send" /\ frame # Cover =>
         /\ frame.id \in 1..submitted
         /\ \A p \in Peers : p = Head(todo) =>
              Between(frame, p, delivered[p], lanes[p].high)

OrderInv == PeerHighInOrder /\ KnownIds /\ HandInv

LEMMA OrderInit == Init => OrderInv
<1> SUFFICES ASSUME Init
             PROVE  OrderInv
  OBVIOUS
<1>1. frame = Cover /\ pc = "idle" /\ \A p \in Peers : 1..Len(delivered[p]) = {}
  BY DEF Init
<1> QED
  BY <1>1 DEF OrderInv, PeerHighInOrder, KnownIds, HandInv

\* What is in a high lane after a step was there before, or is the frame the step
\* accepted.
LEMMA HighAfterMove ==
    ASSUME TypeOK, LaneInv, NEW p \in Peers, LaneMove(p)
    PROVE  /\ \A g \in FramesIn(lanes'[p].high) :
                g \in FramesIn(lanes[p].high) \/ g.id = submitted + 1
           /\ submitted' \in {submitted, submitted + 1}
<1> DEFINE h == lanes[p].high
<1>1. /\ h \in Seq(Frame) /\ Len(h) <= HighCap /\ Ascending(h) /\ submitted \in Nat
      /\ \A g \in FramesIn(h) : g.id < submitted + 1
  BY LanesOf DEF TypeOK, LanesType, LaneInv, PairOrdered
<1> HIDE DEF h
<1>2. CASE Untouched(p)
  BY <1>2 DEF Untouched, h
<1>3. CASE Pushed(p)
  <2>1. PICK new \in Frame :
          /\ new.id = submitted + 1 /\ submitted' = submitted + 1
          /\ \/ lanes'[p].high = h
             \/ ~HighFull(h) /\ lanes'[p].high = PushHigh(h, new)
             \/ lanes'[p].high = PushHighEvicting(h, new)
    BY <1>3 DEF Pushed, h
  <2>2. FramesIn(lanes'[p].high) \subseteq FramesIn(h) \cup {new}
    BY <1>1, <2>1, PushHighFrames, PushHighEvictingFrames
  <2> QED
    BY <2>1, <2>2 DEF h
<1>4. CASE Popped(p)
  <2>1. /\ submitted' = submitted
        /\ \/ h # << >> /\ lanes'[p].high = Pop(h)
           \/ h = << >> /\ lanes'[p].high = << >>
    BY <1>4 DEF Popped, h
  <2>2. FramesIn(lanes'[p].high) \subseteq FramesIn(h)
    BY <1>1, <2>1, PopFrames
  <2> QED
    BY <2>1, <2>2 DEF h
<1>5. CASE Pruned(p)
  <2>1. lanes'[p].high = << >> /\ FramesIn(<< >>) = {} /\ submitted' = submitted
    BY <1>5 DEF Pruned, Empty, FramesIn
  <2> QED
    BY <2>1
<1> QED
  BY <1>2, <1>3, <1>4, <1>5 DEF LaneMove

\* While nothing is delivered, the order of what was delivered holds against
\* whatever joins the lanes.
LEMMA QueueKeepsOrder ==
    ASSUME TypeOK, LaneInv, OrderInv, [Next]_vars, delivered' = delivered
    PROVE  PeerHighInOrder' /\ KnownIds'
<1>1. submitted \in Nat
  BY DEF TypeOK
<1>2. ASSUME NEW p \in Peers
      PROVE  /\ \A g \in FramesIn(lanes'[p].high) :
                  g \in FramesIn(lanes[p].high) \/ g.id = submitted + 1
             /\ submitted' \in {submitted, submitted + 1}
  BY EachMoves, HighAfterMove
<1>3. KnownIds'
  BY <1>1, <1>2 DEF OrderInv, KnownIds
<1>4. ASSUME NEW p \in Peers, NEW i \in 1..Len(delivered[p]),
             delivered[p][i].lane = "high"
      PROVE  \A g \in FramesIn(lanes'[p].high) : delivered[p][i].id < g.id
  <2>1. delivered[p][i].id \in Int /\ delivered[p][i].id < submitted + 1
    BY <1>1 DEF OrderInv, KnownIds
  <2>2. \A g \in FramesIn(lanes[p].high) : delivered[p][i].id < g.id
    BY <1>4 DEF OrderInv, PeerHighInOrder
  <2> QED
    BY <1>2, <2>1, <2>2
<1>5. PeerHighInOrder'
  BY <1>4 DEF OrderInv, PeerHighInOrder
<1> QED
  BY <1>3, <1>5

LEMMA HandTake ==
    ASSUME TypeOK, LaneInv, OrderInv, Take
    PROVE  HandInv'
<1> DEFINE p == Head(todo)
           h == lanes[p].high
           l == lanes[p].low
           next == NextFrame(lanes[p])
<1>1. /\ p \in Peers /\ frame' = next.frame /\ lanes' = [lanes EXCEPT ![p] = next.rest]
      /\ lanes[p] \in [high : Seq(Frame), low : Seq(Frame)]
      /\ \/ frame' = Cover /\ pc' \in {"pop", "idle"}
         \/ todo' = todo /\ pc' = "send"
      /\ submitted' = submitted /\ delivered' = delivered
  BY TakeEffect DEF Take, appVars
<1>2. lanes'[p] = next.rest
  BY <1>1 DEF TypeOK
<1>3. /\ h \in Seq(Frame) /\ l \in Seq(Frame) /\ Ascending(h)
      /\ \A f \in FramesIn(h) \cup FramesIn(l) : f.target = p /\ f.id \in 1..submitted
      /\ \A f \in FramesIn(l) : f.lane = "low"
  BY <1>1 DEF LaneInv, PairOrdered
<1>4. \A i \in 1..Len(delivered[p]) : delivered[p][i].lane = "high" =>
         \A f \in FramesIn(h) : delivered[p][i].id < f.id
  BY <1>1 DEF OrderInv, PeerHighInOrder
<1>5. \/ /\ h # << >> /\ frame' = Head(h) /\ lanes'[p].high = Pop(h)
      \/ l # << >> /\ frame' = Head(l)
      \/ frame' = Cover
  BY <1>1, <1>2, NextFrameOf
<1> HIDE DEF p, h, l, next
<1>6. frame' # Cover =>
        frame'.id \in 1..submitted' /\ Between(frame', p, delivered'[p], lanes'[p].high)
  <2>1. CASE h # << >> /\ frame' = Head(h) /\ lanes'[p].high = Pop(h)
    <3>1. Head(h) \in FramesIn(h) /\ \A g \in FramesIn(Pop(h)) : Head(h).id < g.id
      BY <1>3, <2>1, PopFrames, PopOrder
    <3> QED
      BY <1>1, <1>3, <1>4, <2>1, <3>1 DEF Between
  <2>2. CASE l # << >> /\ frame' = Head(l)
    <3>1. Head(l) \in FramesIn(l)
      BY <1>3, <2>2, PopFrames
    <3> QED
      BY <1>1, <1>3, <2>2, <3>1 DEF Between
  <2> QED
    BY <1>5, <2>1, <2>2
<1>7. pc' = "send" /\ frame' # Cover => Head(todo') = p
  BY <1>1 DEF p
<1> QED
  BY <1>1, <1>6, <1>7 DEF HandInv

LEMMA OrderSend ==
    ASSUME TypeOK, LaneInv, OrderInv, Send
    PROVE  OrderInv'
<1> DEFINE p == Head(todo)
<1>1. /\ p \in Peers /\ pc = "send" /\ frame' = Cover
      /\ pc' = IF Len(todo) > 1 THEN "pop" ELSE "idle"
      /\ UNCHANGED <<lanes, submitted>>
      /\ \/ delivered' = delivered
         \/ frame \in Frame /\ delivered' = [delivered EXCEPT ![p] = Append(@, frame)]
  BY SendEffect
<1>2. HandInv'
  BY <1>1 DEF HandInv
<1>3. CASE delivered' = delivered
  BY <1>1, <1>2, <1>3 DEF OrderInv, PeerHighInOrder, KnownIds
<1>4. CASE frame \in Frame /\ delivered' = [delivered EXCEPT ![p] = Append(@, frame)]
  <2>1. frame.id \in 1..submitted /\ Between(frame, p, delivered[p], lanes[p].high)
    <3>1. frame # Cover
      BY <1>4 DEF Frame, Cover
    <3> QED
      BY <1>1, <3>1 DEF OrderInv, HandInv
  <2> DEFINE n == Len(delivered[p])
             d == delivered[p]
             new == delivered'[p]
  <2>2. /\ n \in Nat /\ Len(new) = n + 1 /\ new[n + 1] = frame
        /\ \A i \in 1..n : new[i] = d[i]
        /\ \A q \in Peers \ {p} : delivered'[q] = delivered[q]
    BY <1>1, <1>4 DEF TypeOK
  <2>3. /\ \A i \in 1..n : d[i].id \in 1..submitted /\ d[i].target = p
        /\ \A i \in 1..n : d[i].lane = "high" =>
             /\ \A j \in 1..n : i < j /\ d[j].lane = "high" => d[i].id < d[j].id
             /\ \A g \in FramesIn(lanes[p].high) : d[i].id < g.id
    BY <1>1 DEF OrderInv, KnownIds, PeerHighInOrder
  <2>4. /\ frame.target = p /\ frame.id \in 1..submitted
        /\ frame.lane = "high" =>
             /\ \A g \in FramesIn(lanes[p].high) : frame.id < g.id
             /\ \A i \in 1..n : d[i].lane = "high" => d[i].id < frame.id
    BY <2>1 DEF Between
  <2> HIDE DEF n, d, new
  <2>5. 1..Len(new) = 1..n \cup {n + 1} /\ \A i \in 1..n + 1 : ~(n + 1 < i)
    BY <2>2
  <2>6. ASSUME NEW i \in 1..Len(new)
        PROVE  /\ new[i].target = p /\ new[i].id \in 1..submitted
               /\ new[i].lane = "high" =>
                    /\ \A j \in 1..Len(new) :
                         i < j /\ new[j].lane = "high" => new[i].id < new[j].id
                    /\ \A g \in FramesIn(lanes[p].high) : new[i].id < g.id
    <3>1. CASE i = n + 1
      <4>1. \A j \in 1..Len(new) : ~(i < j)
        BY <2>2, <2>5, <3>1
      <4> QED
        BY <2>2, <2>4, <3>1, <4>1
    <3>2. CASE i \in 1..n
      BY <2>2, <2>3, <2>4, <2>5, <3>2
    <3> QED
      BY <2>5, <3>1, <3>2
  <2>7. KnownIds'
    BY <1>1, <2>2, <2>6 DEF OrderInv, KnownIds, new
  <2>8. PeerHighInOrder'
    <3> DEFINE Good(q, sent) ==
                 \A i \in 1..Len(sent) :
                     /\ sent[i].target = q
                     /\ sent[i].lane = "high" =>
                          /\ \A j \in 1..Len(sent) :
                               i < j /\ sent[j].lane = "high" => sent[i].id < sent[j].id
                          /\ \A g \in FramesIn(lanes[q].high) : sent[i].id < g.id
    <3>1. Good(p, new)
      BY <2>6
    <3>2. \A q \in Peers : Good(q, delivered[q])
      BY DEF OrderInv, PeerHighInOrder
    <3> HIDE DEF Good
    <3>3. \A q \in Peers : Good(q, delivered'[q])
      BY <2>2, <3>1, <3>2 DEF new
    <3>4. lanes' = lanes
      BY <1>1
    <3> QED
      BY <3>3, <3>4 DEF PeerHighInOrder, Good
  <2> QED
    BY <1>2, <2>7, <2>8 DEF OrderInv
<1> QED
  BY <1>1, <1>3, <1>4

LEMMA OrderStep ==
    ASSUME TypeOK, LaneInv, OrderInv, [Next]_vars
    PROVE  OrderInv'
<1>1. CASE Take
  <2>1. delivered' = delivered
    BY <1>1 DEF Take, appVars
  <2> QED
    BY <1>1, <2>1, HandTake, QueueKeepsOrder DEF OrderInv
<1>2. CASE Send
  BY <1>2, OrderSend
<1>3. CASE Snapshot \/ Refresh \/ Prune
  <2>1. /\ delivered' = delivered /\ frame' = frame
        /\ pc # "send" /\ pc' # "send"
    BY <1>3 DEF Snapshot, Refresh, Prune, appVars
  <2>2. HandInv'
    BY <2>1 DEF OrderInv, HandInv
  <2> QED
    BY <2>1, <2>2, QueueKeepsOrder DEF OrderInv
<1>4. CASE UNCHANGED <<schedVars, appVars>>
  <2>1. UNCHANGED <<pc, todo, frame, delivered>>
    BY <1>4 DEF schedVars, appVars
  <2>2. CASE pc = "send" /\ frame # Cover
    <3> DEFINE p == Head(todo)
    <3>1. p \in Peers /\ submitted \in Nat
      <4>1. p \in ToSet(peers) /\ peers \in Seq(Peers) /\ submitted \in Nat
        BY <2>2, TailKeeps DEF TypeOK
      <4> HIDE DEF p
      <4> QED
        BY <4>1, ListMembers
    <3>2. /\ Between(frame, p, delivered[p], lanes[p].high)
          /\ frame.id \in 1..submitted
      BY <2>2, <3>1 DEF OrderInv, HandInv
    <3>3. Head(todo') = p
      BY <2>1
    <3> HIDE DEF p
    <3>4. /\ \A g \in FramesIn(lanes'[p].high) :
               g \in FramesIn(lanes[p].high) \/ g.id = submitted + 1
          /\ submitted' \in {submitted, submitted + 1}
      BY <3>1, EachMoves, HighAfterMove
    <3>5. /\ frame.id \in 1..submitted' /\ frame.id < submitted + 1
          /\ frame.id \in Int
      BY <3>1, <3>2, <3>4
    <3>6. Between(frame, p, delivered[p], lanes'[p].high)
      BY <3>2, <3>4, <3>5 DEF Between
    <3>7. HandInv'
      BY <2>1, <2>2, <3>3, <3>5, <3>6 DEF HandInv
    <3> QED
      BY <2>1, <3>7, QueueKeepsOrder DEF OrderInv
  <2>3. CASE ~(pc = "send" /\ frame # Cover)
    <3>1. HandInv'
      BY <2>1, <2>3 DEF OrderInv, HandInv
    <3> QED
      BY <2>1, <3>1, QueueKeepsOrder DEF OrderInv
  <2> QED
    BY <2>2, <2>3
<1> QED
  BY <1>1, <1>2, <1>3, <1>4 DEF Next, Scheduler, Environment, vars, shaperVars, Connect,
     Disconnect, PushPeer, BeginFanOut, FanOut, NotifyOne

\* Each peer receives only its own frames, and those of the high lane in the order
\* of submission, once each, ahead of all that still wait for it.
THEOREM PeerOrdered == Spec => []PeerHighInOrder
<1>1. OrderInv => PeerHighInOrder
  BY DEF OrderInv
<1> QED
  BY <1>1, OrderInit, OrderStep, TypesAlways, PTL DEF Spec

-----------------------------------------------------------------------------
(* The passthrough drain.                                                  *)

\* A submission leaves a signal on its way until it has stored the permit, and only
\* a new drain clears the permit.  In between, a drain has passed over a peer of
\* its snapshot for one of two reasons: it sent the peer a frame, or it found
\* nothing queued.
Asleep == ~permit /\ \A t \in Threads : task[t].at = "rest"

DrainInv ==
    passthrough /\ Asleep /\ pc \in {"idle", "pop", "send"} =>
        \A p \in ToSet(peers) : lanes[p] # Empty /\ p \notin ToSet(todo) => p \in hit

LEMMA DrainTake ==
    ASSUME TypeOK, DrainInv, Take
    PROVE  DrainInv'
<1> DEFINE p == Head(todo)
<1>1. /\ p \in Peers /\ p \in ToSet(peers) /\ pc = "pop" /\ todo # << >>
      /\ lanes' = [lanes EXCEPT ![p] = NextFrame(lanes[p]).rest]
      /\ \/ lanes[p] = Empty /\ todo' = Tail(todo)
         \/ todo' = todo
      /\ todo \in Seq(ToSet(peers))
  BY TakeEffect DEF TypeOK
<1>2. UNCHANGED <<passthrough, permit, task, peers, hit>>
  BY DEF Take, appVars
<1>3. lanes[p] = Empty => NextFrame(lanes[p]).rest = Empty
  BY DEF NextFrame, Empty
<1>4. /\ p \in ToSet(todo)
      /\ \A q \in ToSet(todo) : q \in ToSet(todo') \/ (q = p /\ lanes[p] = Empty)
  BY <1>1, TailKeeps
<1> HIDE DEF p
<1>5. ASSUME NEW q \in ToSet(peers), lanes'[q] # Empty, q \notin ToSet(todo')
      PROVE  lanes[q] # Empty /\ q \notin ToSet(todo)
  <2>1. q \in Peers
    BY <1>5, ListMembers DEF TypeOK
  <2>2. lanes'[q] = IF q = p THEN NextFrame(lanes[p]).rest ELSE lanes[q]
    BY <1>1, <2>1 DEF TypeOK
  <2>3. q \notin ToSet(todo)
    BY <1>3, <1>4, <1>5, <2>2
  <2> QED
    BY <1>4, <1>5, <2>2, <2>3
<1> QED
  BY <1>1, <1>2, <1>5 DEF DrainInv, Asleep

LEMMA DrainStep ==
    ASSUME TypeOK, DrainInv, [Next]_vars
    PROVE  DrainInv'
<1>1. CASE Snapshot \/ Refresh
  BY <1>1 DEF Snapshot, Refresh, DrainInv
<1>2. CASE Prune
  <2>1. peers' = peers /\ passthrough' = passthrough /\ (passthrough => todo' = peers)
    BY <1>2, PruneEffect DEF Prune, appVars
  <2> QED
    BY <2>1 DEF DrainInv
<1>3. CASE Take
  BY <1>3, DrainTake
<1>4. CASE Send
  <2>1. /\ pc = "send" /\ hit' = hit \cup {Head(todo)}
        /\ ToSet(todo) = {Head(todo)} \cup ToSet(todo')
        /\ UNCHANGED <<passthrough, lanes, task, permit, peers>>
    BY <1>4, SendEffect
  <2> QED
    BY <2>1 DEF DrainInv, Asleep
<1>5. ASSUME NEW t \in Threads,
             \/ FanOut(t) \/ NotifyOne(t)
             \/ \E lane \in {"high", "low"} :
                  BeginFanOut(t, lane) \/ \E p \in Peers : PushPeer(t, p, lane)
      PROVE  DrainInv'
  <2>1. permit' \/ task'[t].at # "rest"
    <3>1. CASE NotifyOne(t)
      BY <3>1 DEF NotifyOne
    <3>2. CASE ~NotifyOne(t)
      <4>1. \E r : task' = [task EXCEPT ![t] = r] /\ r.at # "rest"
        <5>1. Signalling.at # "rest"
          BY DEF Signalling, Resting
        <5>2. CASE FanOut(t) \/ \E lane \in {"high", "low"}, p \in Peers : PushPeer(t, p, lane)
          <6>1. task' = [task EXCEPT ![t] = Signalling]
            BY <5>2 DEF FanOut, PushPeer
          <6> QED
            BY <5>1, <6>1
        <5>3. CASE \E lane \in {"high", "low"} : BeginFanOut(t, lane)
          <6>1. PICK lane \in {"high", "low"} :
                  task' = [task EXCEPT ![t] =
                             IF pcPeers = {} THEN Signalling
                             ELSE [at |-> "fan", lane |-> lane, copies |-> pcPeers]]
            BY <5>3 DEF BeginFanOut
          <6> DEFINE new == IF pcPeers = {} THEN Signalling
                            ELSE [at |-> "fan", lane |-> lane, copies |-> pcPeers]
          <6>2. new.at # "rest"
            BY <5>1
          <6>3. task' = [task EXCEPT ![t] = new]
            BY <6>1
          <6> HIDE DEF new
          <6> QED
            BY <6>2, <6>3
        <5> QED
          BY <1>5, <3>2, <5>2, <5>3
      <4> QED
        BY <4>1 DEF TypeOK
    <3> QED
      BY <3>1, <3>2
  <2> QED
    BY <2>1 DEF DrainInv, Asleep
<1>6. CASE UNCHANGED <<passthrough, pc, permit, task, peers, lanes, todo, hit>>
  BY <1>6 DEF DrainInv, Asleep
<1> QED
  BY <1>1, <1>2, <1>3, <1>4, <1>5, <1>6 DEF Next, Scheduler, Environment, vars,
     shaperVars, schedVars, appVars, Connect, Disconnect

\* When the passthrough scheduler sleeps with no signal stored or on its way, every
\* peer of its snapshot that has something queued was sent a frame in the drain
\* that just ended.
THEOREM DrainServed == Spec => []DrainServesEach
<1>1. Init => DrainInv
  <2>1. Init => ToSet(peers) = {}
    BY DEF Init, ToSet
  <2> QED
    BY <2>1 DEF DrainInv
<1>2. TypeOK /\ DrainInv => DrainServesEach
  <2> SUFFICES ASSUME TypeOK, DrainInv, passthrough, pc = "idle", Asleep
               PROVE  \A p \in ToSet(peers) : lanes[p] # Empty => p \in hit
    BY DEF DrainServesEach, Asleep
  <2>1. todo = << >>
    BY DEF TypeOK
  <2>2. ToSet(todo) = {}
    BY <2>1 DEF ToSet
  <2> QED
    BY <2>2 DEF DrainInv
<1> QED
  BY <1>1, <1>2, DrainStep, TypesAlways, PTL DEF Spec

-----------------------------------------------------------------------------
(* The refinement of TurnShape.                                            *)

\* A timed scheduler has at most one peer to serve, and serves nobody before the one
\* send of its tick.
TickInv ==
    ~passthrough =>
        /\ pc # "idle" /\ peers # << >> => hit = {}
        /\ Len(todo) <= 1

LEMMA StrategyStays ==
    ASSUME [Next]_vars
    PROVE  passthrough' = passthrough
BY DEF Next, Scheduler, Environment, vars, shaperVars, appVars, Snapshot, Refresh,
   Prune, Take, Send, Connect, Disconnect, PushPeer, BeginFanOut, FanOut, NotifyOne

LEMMA TickStep ==
    ASSUME TypeOK, TickInv, [Next]_vars
    PROVE  TickInv'
<1> SUFFICES ASSUME ~passthrough
             PROVE  TickInv'
  BY StrategyStays DEF TickInv
<1>0. Len(<< >>) <= 1 /\ \A x : Len(<<x>>) <= 1
  OBVIOUS
<1>1. CASE Snapshot
  BY <1>1 DEF Snapshot, TickInv, appVars
<1>2. CASE Refresh
  BY <1>2 DEF Refresh, TickInv, appVars
<1>3. CASE Prune
  <2>1. /\ pc = "prune" /\ UNCHANGED <<passthrough, peers, hit>>
        /\ todo' = << >> \/ \E p \in ToSet(peers) : todo' = <<p>>
    BY <1>3, PruneEffect DEF Prune, TickInv, appVars
  <2> QED
    BY <1>0, <2>1 DEF TickInv
<1>4. CASE Take
  <2>1. pc = "pop" /\ todo' = todo /\ UNCHANGED <<passthrough, peers, hit>>
    BY <1>4, TakeEffect DEF Take, TickInv, appVars
  <2> QED
    BY <2>1 DEF TickInv
<1>5. CASE Send
  <2>1. todo # << >> /\ todo \in Seq(ToSet(peers)) /\ Len(todo) <= 1
    BY <1>5, SendEffect DEF TypeOK, TickInv
  <2>2. todo' = Tail(todo) /\ pc' = "idle" /\ passthrough' = passthrough
    BY <1>5, <2>1, SendEffect
  <2>3. Len(todo') = Len(todo) - 1 /\ Len(todo) \in Nat
    BY <2>1, <2>2
  <2>4. Len(todo') <= 1
    BY <2>1, <2>3
  <2> QED
    BY <2>2, <2>4 DEF TickInv
<1>6. CASE UNCHANGED <<passthrough, schedVars>>
  BY <1>6 DEF TickInv, schedVars
<1> QED
  BY <1>1, <1>2, <1>3, <1>4, <1>5, <1>6 DEF Next, Scheduler, Environment, vars,
     shaperVars, appVars, Connect, Disconnect, PushPeer, BeginFanOut, FanOut, NotifyOne

\* Every step of a timed node is a step of TurnShape, or leaves its variables alone:
\* a tick serves one peer, and which one follows from the list of connections, the
\* cursor and the offset, never from what is queued.
THEOREM TurnRefined == Spec => TurnSpec
<1> DEFINE list == IF passthrough \/ pc = "idle" THEN << >> ELSE peers
           turn == IF passthrough THEN << >> ELSE todo
           served == IF passthrough THEN {} ELSE hit
<1>1. Init => Turns!Init /\ TickInv
  <2> SUFFICES ASSUME Init
               PROVE  Turns!Init /\ TickInv
    OBVIOUS
  <2>1. links \in Seq(Peers) /\ Len(<< >>) <= 1
    BY OrdersOfPeers DEF Init
  <2> QED
    BY <2>1 DEF Init, Turns!Init, TickInv
<1>2. TypeOK /\ TypeOK' /\ TickInv /\ [Next]_vars => [Turns!Next]_(Turns!vars)
  <2> SUFFICES ASSUME TypeOK, TypeOK', TickInv, [Next]_vars
               PROVE  Turns!Next \/ UNCHANGED Turns!vars
    OBVIOUS
  <2>0. links' \in Seq(Peers) /\ passthrough' = passthrough
    BY StrategyStays DEF TypeOK
  <2>1. CASE passthrough
    <3>1. cursor' = cursor
      <4>1. CASE Prune
        BY <2>1, <4>1 DEF Prune
      <4>2. CASE ~Prune
        BY <4>2 DEF Next, Scheduler, Environment, vars, shaperVars, schedVars, Snapshot,
           Refresh, Take, Send, Connect, Disconnect, PushPeer, BeginFanOut, FanOut,
           NotifyOne
      <4> QED
        BY <4>1, <4>2
    <3> QED
      BY <2>0, <2>1, <3>1 DEF Turns!Churn, Turns!Next
  <2>2. CASE ~passthrough
    <3>0. /\ list = IF pc = "idle" THEN << >> ELSE peers
          /\ turn = todo /\ served = hit
          /\ list' = IF pc' = "idle" THEN << >> ELSE peers'
          /\ turn' = todo' /\ served' = hit'
      BY <2>0, <2>2
    <3>00. /\ pc # "idle" /\ peers # << >> => hit = {}
           /\ Len(todo) <= 1
      BY <2>2 DEF TickInv
    <3>1. CASE Snapshot
      <4>1. /\ pc = "idle" /\ pc' = "refresh" /\ peers' = links
            /\ hit' = IF links = << >> THEN hit ELSE {}
            /\ UNCHANGED <<links, todo, cursor>>
        BY <3>1 DEF Snapshot
      <4>2. CASE links = << >>
        BY <3>0, <4>1, <4>2 DEF Turns!vars
      <4>3. CASE links # << >>
        <5>1. Turns!BeginTick
          BY <3>0, <4>1, <4>3 DEF Turns!BeginTick
        <5> QED
          BY <5>1 DEF Turns!Tick, Turns!Next
      <4> QED
        BY <4>2, <4>3
    <3>2. CASE Refresh
      BY <3>0, <3>2 DEF Refresh, Turns!vars
    <3>3. CASE Prune
      <4>1. /\ pc = "prune" /\ todo = << >>
            /\ UNCHANGED <<links, peers, hit>>
        BY <3>3 DEF Prune, TypeOK
      <4>2. pc' = IF peers = << >> THEN "idle" ELSE "pop"
        BY <3>3 DEF Prune
      <4>3. CASE peers = << >>
        <5>1. todo' = << >> /\ cursor' = cursor
          BY <3>3, <4>3 DEF Prune
        <5> QED
          BY <3>0, <4>1, <4>2, <4>3, <5>1 DEF Turns!vars
      <4>4. CASE peers # << >>
        <5>1. PICK offset \in Offsets(peers, Randomize) :
                todo' = <<Turn(peers, cursor, offset)>>
          BY <2>2, <3>3, <4>4, PruneEffect
        <5>2. cursor' = Advanced(cursor)
          BY <2>2, <3>3, <4>4, PruneEffect
        <5>3. /\ offset \in Turns!Offsets(peers, Randomize)
              /\ todo' = <<Turns!Turn(peers, cursor, offset)>>
              /\ cursor' = Turns!Advanced(cursor)
          BY <5>1, <5>2 DEF Offsets, Turns!Offsets, Turn, Turns!Turn, Position,
             Turns!Position, Advanced, Turns!Advanced, Wrapped, Turns!Wrapped
        <5>4. /\ list = peers /\ list' = peers /\ turn = << >> /\ turn' = todo'
              /\ UNCHANGED <<links, served>>
          BY <3>0, <4>1, <4>2, <4>4
        <5>5. Turns!Select
          BY <4>4, <5>3, <5>4 DEF Turns!Select
        <5> QED
          BY <5>5 DEF Turns!Tick, Turns!Next
      <4> QED
        BY <4>3, <4>4
    <3>4. CASE Take
      <4>1. /\ pc = "pop" /\ pc' = "send" /\ todo' = todo
            /\ UNCHANGED <<links, peers, cursor, hit>>
        BY <2>2, <3>4, TakeEffect DEF Take
      <4> QED
        BY <3>0, <4>1 DEF Turns!vars
    <3>5. CASE Send
      <4>1. /\ pc = "send" /\ todo # << >> /\ todo' = Tail(todo)
            /\ todo \in Seq(ToSet(peers)) /\ Head(todo) \in ToSet(peers)
            /\ hit' = hit \cup {Head(todo)} /\ UNCHANGED <<links, peers, cursor>>
            /\ pc' = IF Len(todo) > 1 THEN "pop" ELSE "idle"
        BY <3>5, SendEffect DEF TypeOK
      <4>2. Len(todo) \in Nat /\ ~(Len(todo) > 1)
        BY <3>00, <4>1
      <4>3. pc' = "idle" /\ todo' = << >>
        BY <4>1, <4>2 DEF TypeOK
      <4>4. peers # << >>
        BY <4>1 DEF ToSet
      <4>5. hit' = {Head(todo)}
        BY <3>00, <4>1, <4>4
      <4>6. Turns!Emit
        BY <3>0, <4>1, <4>3, <4>5 DEF Turns!Emit
      <4> QED
        BY <4>6 DEF Turns!Tick, Turns!Next
    <3>6. CASE UNCHANGED schedVars
      BY <2>0, <3>0, <3>6 DEF schedVars, Turns!Churn, Turns!Next
    <3> QED
      BY <3>1, <3>2, <3>3, <3>4, <3>5, <3>6 DEF Next, Scheduler, Environment,
         vars, shaperVars, Connect, Disconnect, PushPeer, BeginFanOut, FanOut, NotifyOne
  <2> QED
    BY <2>1, <2>2
<1> QED
  BY <1>1, <1>2, TickStep, TypesAlways, PTL DEF Spec, TurnSpec, Turns!Spec

=============================================================================
