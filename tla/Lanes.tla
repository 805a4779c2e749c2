------------------------------- MODULE Lanes -------------------------------
(***************************************************************************)
(* The two priority lanes of the shaper, as operators on sequences whose   *)
(* head is the front of the VecDeque.  High is a bounded FIFO, low a LIFO  *)
(* that drops its oldest frame (the back) to make room.  The same          *)
(* disciplines serve the shared lanes of Global scope and the lanes of one *)
(* peer in PerConnection scope.                                            *)
(*                                                                         *)
(* An operator marked "defect", here and in the other modules, is a        *)
(* plausible bug in the definition that follows it; mutation runs put it   *)
(* in that definition's place to see a property fail.                      *)
(***************************************************************************)
EXTENDS Naturals, Sequences

CONSTANTS HighCap, LowCap      \* high_lane_capacity, low_lane_capacity

\* Shaper::new panics on a zero capacity.
ASSUME CapsAssumption == HighCap \in Nat \ {0} /\ LowCap \in Nat \ {0}

\* push_back onto a high lane that was found below its capacity.
HighFull(lane) == Len(lane) >= HighCap
PushHighInFront(lane, f) == <<f>> \o lane            \* defect: push_front
PushHigh(lane, f) == Append(lane, f)

\* The best-effort push of a broadcast fan-out: the front frames are evicted
\* until the new one fits.
PushHighUnbounded(lane, f) == Append(lane, f)        \* defect: no eviction
PushHighEvicting(lane, f) ==
    IF HighFull(lane)
    THEN Append(SubSeq(lane, Len(lane) - HighCap + 2, Len(lane)), f)
    ELSE Append(lane, f)

\* The back frames are evicted until the new one fits in front.
PushLowAtBack(lane, f) ==                            \* defect: push_back
    Append(IF Len(lane) >= LowCap THEN SubSeq(lane, 1, LowCap - 1) ELSE lane, f)
PushLowOverNewest(lane, f) ==                        \* defect: pop_front evicts
    <<f>> \o IF Len(lane) >= LowCap THEN Tail(lane) ELSE lane
PushLow(lane, f) ==
    <<f>> \o IF Len(lane) >= LowCap THEN SubSeq(lane, 1, LowCap - 1) ELSE lane

\* pop_front, which the scheduler takes a frame with.
PopPeeked(lane) == lane                              \* defect: front, no pop
Pop(lane) == Tail(lane)

FramesIn(lane) == {lane[i] : i \in 1..Len(lane)}
=============================================================================
