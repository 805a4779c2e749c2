--------------------------- MODULE ReceiverProofs ---------------------------
(***************************************************************************)
(* Safety of the receiving side, for any number of connections and         *)
(* subscribers, any sizes and any capacity of the channel.                 *)
(***************************************************************************)
EXTENDS Receiver, FiniteSetTheorems, TLAPS

-----------------------------------------------------------------------------
(* The streams: what an agreeing end writes has the agreed size, and what  *)
(* the decoder returns has it whoever wrote it.                            *)

StreamType ==
    /\ remote \in [Conns -> Sizes \cup {Foreign}]
    /\ link \in [Conns -> {"up", "closed", "torn"}]
    /\ sent \in [Conns -> Seq(Nat)]
    /\ decoded \in [Conns -> Nat]
    /\ processed \in [Conns -> Nat]

StreamInv ==
    /\ StreamType
    /\ \A c \in Conns :
         /\ processed[c] <= decoded[c] /\ decoded[c] <= Len(sent[c])
         /\ \A n \in 1..decoded[c] : sent[c][n] = FrameSize
         /\ remote[c] = FrameSize =>
              /\ link[c] # "torn"
              /\ \A n \in 1..Len(sent[c]) : sent[c][n] = FrameSize

LEMMA SizesNat ==
    /\ HeaderSize \in Nat \ {0} /\ Capacity \in Nat \ {0}
    /\ FrameSize \in Nat /\ MaxFrameSize \in Nat /\ FrameSize <= MaxFrameSize
    /\ FrameSize \in Sizes /\ Foreign \notin Sizes
    /\ \A n \in Sizes : n \in Nat
<1>1. \A n \in Sizes : n \in Nat
  BY SizesAssumption, Zenon
<1> QED
  BY <1>1, SizesAssumption

\* The decoder looks at the frame behind those it has returned.
LEMMA NextAnnounced ==
    ASSUME NEW c \in Conns, StreamType, decoded[c] < Len(sent[c])
    PROVE  Announced(c) = sent[c][decoded[c] + 1]
  BY DEF StreamType, Announced, Undecoded

LEMMA StreamInit == Init => StreamInv
<1> SUFFICES ASSUME Init PROVE StreamInv
  OBVIOUS
<1>1. remote \in [Conns -> Sizes \cup {Foreign}]
  BY DEF Init
<1> QED
  BY <1>1 DEF Init, StreamInv, StreamType

LEMMA StreamStep == StreamInv /\ [Next]_vars => StreamInv'
<1> SUFFICES ASSUME StreamInv, [Next]_vars PROVE StreamInv'
  OBVIOUS
<1> USE DEF StreamInv, StreamType
<1>1. ASSUME NEW c \in Conns, NEW size \in Sizes, HandOver(c, size) PROVE StreamInv'
  <2>1. size \in Nat /\ FrameSize # Foreign
    BY SizesNat
  <2>2. CASE Encodes(c, size)
    <3>1. remote' = remote /\ link' = link /\ decoded' = decoded /\ processed' = processed
      BY <1>1 DEF HandOver
    <3>2. sent' = [sent EXCEPT ![c] = Append(@, size)]
      BY <1>1, <2>2 DEF HandOver
    <3>3. remote[c] = FrameSize => size = FrameSize
      BY <2>1, <2>2 DEF Encodes
    <3>4. sent' \in [Conns -> Seq(Nat)]
      BY <2>1, <3>2
    <3>5. ASSUME NEW d \in Conns
          PROVE  /\ decoded[d] <= Len(sent'[d])
                 /\ \A n \in 1..decoded[d] : sent'[d][n] = FrameSize
                 /\ remote[d] = FrameSize =>
                      \A n \in 1..Len(sent'[d]) : sent'[d][n] = FrameSize
      <4>1. CASE d = c
        <5>1. sent'[d] = Append(sent[d], size)
          BY <3>2, <4>1
        <5> QED
          BY <2>1, <3>3, <4>1, <5>1
      <4>2. CASE d # c
        BY <3>2, <4>2
      <4> QED
        BY <4>1, <4>2
    <3> QED
      BY <3>1, <3>4, <3>5
  <2>3. CASE ~Encodes(c, size)
    BY <1>1, <2>3 DEF HandOver
  <2> QED
    BY <2>2, <2>3
<1>2. ASSUME NEW c \in Conns, Close(c) PROVE StreamInv'
  BY <1>2 DEF Close
<1>3. ASSUME NEW c \in Conns, Arrive(c) PROVE StreamInv'
  BY <1>3 DEF Arrive
<1>4. ASSUME NEW c \in Conns, TearDown(c) PROVE StreamInv'
  <2>1. remote[c] # FrameSize
    <3> SUFFICES ASSUME remote[c] = FrameSize PROVE FALSE
      OBVIOUS
    <3>1. decoded[c] < Len(sent[c])
      BY <1>4 DEF TearDown, Rejects, HasFrame, HasHeader
    <3>2. sent[c][decoded[c] + 1] = FrameSize
      BY <3>1
    <3>3. Announced(c) = FrameSize
      BY <3>1, <3>2, NextAnnounced
    <3> QED
      BY <1>4, <3>3, SizesNat DEF TearDown, Rejects
  <2> QED
    BY <1>4, <2>1 DEF TearDown
<1>5. ASSUME NEW c \in Conns, Decode(c) PROVE StreamInv'
  <2>1. decoded[c] < Len(sent[c])
    BY <1>5 DEF Decode, HasFrame, HasHeader
  <2>2. sent[c][decoded[c] + 1] = FrameSize
    BY <1>5, <2>1, NextAnnounced DEF Decode, Rejects
  <2> QED
    BY <1>5, <2>1, <2>2 DEF Decode
<1>6. ASSUME NEW c \in Conns, Process(c) PROVE StreamInv'
  BY <1>6 DEF Process, netVars
<1>7. ASSUME NEW s \in Subs, Subscribe(s) \/ Unsubscribe(s) \/ Consume(s) PROVE StreamInv'
  BY <1>7 DEF Subscribe, Unsubscribe, Consume, Recv, RecvLagged, netVars
<1>8. CASE UNCHANGED vars
  BY <1>8 DEF vars, netVars
<1> QED
  BY <1>1, <1>2, <1>3, <1>4, <1>5, <1>6, <1>7, <1>8 DEF Next

\* No connection to a node of the same frame size is ever torn down by the decoder,
\* frame_size = max_frame_size included.
THEOREM AgreeingUp == Spec => []AgreeingPeersStayUp
<1>1. StreamInv => AgreeingPeersStayUp
  BY DEF StreamInv, AgreeingPeersStayUp
<1> QED
  BY <1>1, StreamInit, StreamStep, PTL DEF Spec
-----------------------------------------------------------------------------
(* The feed: each connection's part of it rises, and where a subscriber    *)
(* was there from some frame on, it has every rank up to the last that was *)
(* processed.                                                              *)

Frames == [conn : Conns, rank : Nat]

FeedType ==
    /\ feed \in Seq(Frames)
    /\ sub \in [Subs -> [on : BOOLEAN, start : Nat, next : Nat, got : SUBSET Nat,
                         missed : Nat]]

\* A receiver that exists was there before the j-th frame.
Watched(j) == \E s \in Subs : sub[s].on /\ sub[s].start < j

FeedInv ==
    /\ FeedType
    /\ \A s \in Subs : sub[s].on => sub[s].start <= Len(feed)
    /\ \A k \in 1..Len(feed) : feed[k].rank <= processed[feed[k].conn]
    /\ \A j, k \in 1..Len(feed) :
         j < k /\ feed[j].conn = feed[k].conn => feed[j].rank < feed[k].rank
    /\ \A j \in 1..Len(feed) : Watched(j) =>
         \A n \in feed[j].rank..processed[feed[j].conn] :
            \E i \in j..Len(feed) : feed[i] = [conn |-> feed[j].conn, rank |-> n]

LEMMA FeedElement ==
    ASSUME FeedType, StreamType, NEW k \in 1..Len(feed)
    PROVE  /\ feed[k] \in Frames /\ feed[k].conn \in Conns /\ feed[k].rank \in Nat
           /\ processed[feed[k].conn] \in Nat /\ decoded[feed[k].conn] \in Nat
<1>1. feed[k] \in Frames
  BY DEF FeedType
<1>2. feed[k].conn \in Conns /\ feed[k].rank \in Nat
  BY <1>1 DEF Frames
<1> QED
  BY <1>1, <1>2 DEF StreamType

LEMMA OldestNat == feed \in Seq(Frames) => Oldest \in Nat /\ Oldest <= Len(feed) + 1
<1> SUFFICES ASSUME feed \in Seq(Frames) PROVE Oldest \in Nat /\ Oldest <= Len(feed) + 1
  OBVIOUS
<1> DEFINE d == Len(feed) - Capacity
<1>1. Len(feed) \in Nat /\ d \in Int /\ d <= Len(feed)
  BY SizesNat
<1>2. Max({0, d}) = IF d <= 0 THEN 0 ELSE d
  <2> HIDE DEF d
  <2> QED
    BY <1>1 DEF Max
<1> QED
  BY <1>1, <1>2 DEF Oldest

LEMMA FeedInit == Init => FeedInv
  BY DEF Init, NoSub, FeedInv, FeedType

LEMMA FeedStep == StreamInv /\ FeedInv /\ [Next]_vars => FeedInv'
<1> SUFFICES ASSUME StreamInv, FeedInv, [Next]_vars PROVE FeedInv'
  OBVIOUS
<1>1. ASSUME UNCHANGED <<processed, feed, sub>> PROVE FeedInv'
  BY <1>1 DEF FeedInv, FeedType, Watched
<1>2. ASSUME NEW c \in Conns, NEW size \in Sizes, HandOver(c, size) PROVE FeedInv'
  BY <1>1, <1>2 DEF HandOver
<1>3. ASSUME NEW c \in Conns, Close(c) \/ Arrive(c) \/ TearDown(c) \/ Decode(c)
      PROVE  FeedInv'
  BY <1>1, <1>3 DEF Close, Arrive, TearDown, Decode
<1>4. ASSUME NEW c \in Conns, Process(c) PROVE FeedInv'
  <2> DEFINE new == [conn |-> c, rank |-> processed[c] + 1]
  <2>1. processed' = [processed EXCEPT ![c] = @ + 1] /\ sub' = sub
    BY <1>4 DEF Process
  <2>2. processed \in [Conns -> Nat] /\ processed[c] < decoded[c]
    BY <1>4 DEF StreamInv, StreamType, Process
  <2>3. sent[c][processed[c] + 1] = FrameSize
    BY <2>2 DEF StreamInv, StreamType
  <2>4. CASE \E s \in Subs : sub[s].on
    <3>1. feed' = Append(feed, new)
      BY <1>4, <2>3, <2>4 DEF Process
    <3>2. new \in Frames
      BY <2>2 DEF Frames
    <3>3. /\ feed' \in Seq(Frames) /\ Len(feed') = Len(feed) + 1 /\ Len(feed) \in Nat
          /\ feed'[Len(feed) + 1] = new
          /\ \A k \in 1..Len(feed) : feed'[k] = feed[k] /\ feed[k] \in Frames
      BY <3>1, <3>2 DEF FeedInv, FeedType
    <3>4. /\ processed'[c] = processed[c] + 1
          /\ \A d \in Conns : processed[d] \in Nat /\ (d # c => processed'[d] = processed[d])
      BY <2>1, <2>2
    <3> HIDE DEF new
    <3>5. new.conn = c /\ new.rank = processed[c] + 1
      BY DEF new
    <3>6. FeedType' /\ \A s \in Subs : sub'[s].on => sub'[s].start <= Len(feed')
      BY <2>1, <3>3 DEF FeedInv, FeedType
    <3>7. ASSUME NEW k \in 1..Len(feed')
          PROVE  feed'[k].rank <= processed'[feed'[k].conn]
      <4>1. CASE k = Len(feed) + 1
        BY <2>2, <3>3, <3>4, <3>5, <4>1
      <4>2. CASE k # Len(feed) + 1
        <5>1. k \in 1..Len(feed) /\ feed'[k] = feed[k]
          BY <3>3, <4>2
        <5>2. feed[k].conn \in Conns /\ feed[k].rank \in Nat
          BY <5>1, FeedElement DEF FeedInv, StreamInv
        <5>3. processed[feed[k].conn] \in Nat /\ feed[k].rank <= processed[feed[k].conn]
          BY <3>4, <5>1, <5>2 DEF FeedInv
        <5>4. processed[feed[k].conn] <= processed'[feed[k].conn]
          BY <3>4, <5>2
        <5> QED
          BY <3>4, <5>1, <5>2, <5>3, <5>4
      <4> QED
        BY <4>1, <4>2
    <3>8. ASSUME NEW j \in 1..Len(feed'), NEW k \in 1..Len(feed'),
                 j < k, feed'[j].conn = feed'[k].conn
          PROVE  feed'[j].rank < feed'[k].rank
      <4>1. j \in 1..Len(feed)
        BY <3>3, <3>8
      <4>2. CASE k = Len(feed) + 1
        BY <3>3, <3>4, <3>5, <3>8, <4>1, <4>2 DEF FeedInv, Frames
      <4>3. CASE k # Len(feed) + 1
        BY <3>3, <3>8, <4>1, <4>3 DEF FeedInv
      <4> QED
        BY <4>2, <4>3
    <3>9. ASSUME NEW j \in 1..Len(feed'), Watched(j)',
                 NEW n \in feed'[j].rank..processed'[feed'[j].conn]
          PROVE  \E i \in j..Len(feed') : feed'[i] = [conn |-> feed'[j].conn, rank |-> n]
      <4>1. CASE feed'[j].conn = c /\ n = processed[c] + 1
        <5>1. feed'[Len(feed) + 1] = [conn |-> feed'[j].conn, rank |-> n]
          BY <3>3, <4>1 DEF new
        <5> QED
          BY <3>3, <5>1
      <4>2. CASE ~(feed'[j].conn = c /\ n = processed[c] + 1)
        <5>1. j # Len(feed) + 1
          BY <3>3, <3>4, <3>5, <4>2
        <5>2. j \in 1..Len(feed) /\ feed'[j] = feed[j] /\ feed[j] \in Frames
          BY <3>3, <5>1
        <5>3. n \in feed[j].rank..processed[feed[j].conn]
          BY <3>4, <4>2, <5>2 DEF Frames
        <5>4. Watched(j)
          BY <2>1, <3>9 DEF Watched
        <5>5. PICK i \in j..Len(feed) : feed[i] = [conn |-> feed[j].conn, rank |-> n]
          BY <5>2, <5>3, <5>4 DEF FeedInv
        <5> QED
          BY <3>3, <5>2, <5>5
      <4> QED
        BY <4>1, <4>2
    <3> QED
      BY <3>6, <3>7, <3>8, <3>9 DEF FeedInv
  <2>5. CASE \A s \in Subs : ~sub[s].on
    <3>1. feed' = feed
      BY <1>4, <2>5 DEF Process
    <3>2. \A j : ~Watched(j)'
      BY <2>1, <2>5 DEF Watched
    <3>3. \A d \in Conns : processed[d] \in Nat /\ processed[d] <= processed'[d]
      BY <2>1, <2>2
    <3>5. ASSUME NEW k \in 1..Len(feed) PROVE feed[k].rank <= processed'[feed[k].conn]
      <4>1. feed[k].conn \in Conns /\ feed[k].rank \in Nat
        BY FeedElement DEF FeedInv, StreamInv
      <4>2. feed[k].rank <= processed[feed[k].conn]
        BY DEF FeedInv
      <4> QED
        BY <2>1, <2>2, <4>1, <4>2
    <3> QED
      BY <2>1, <3>1, <3>2, <3>5 DEF FeedInv, FeedType
  <2> QED
    BY <2>4, <2>5
<1>5. ASSUME NEW s \in Subs, Subscribe(s) PROVE FeedInv'
  <2> DEFINE fresh == [on |-> TRUE, start |-> Len(feed), next |-> Len(feed) + 1,
                       got |-> {}, missed |-> 0]
  <2>0. /\ fresh.on = TRUE /\ fresh.start = Len(feed) /\ Len(feed) \in Nat
        /\ fresh \in [on : BOOLEAN, start : Nat, next : Nat, got : SUBSET Nat, missed : Nat]
    <3>1. Len(feed) \in Nat
      BY DEF FeedInv, FeedType
    <3>2. fresh.on = TRUE /\ fresh.start = Len(feed)
      OBVIOUS
    <3>3. fresh \in [on : BOOLEAN, start : Nat, next : Nat, got : SUBSET Nat, missed : Nat]
      BY <3>1
    <3> QED
      BY <3>1, <3>2, <3>3
  <2> HIDE DEF fresh
  <2>1. feed' = feed /\ processed' = processed /\ sub' = [sub EXCEPT ![s] = fresh]
    BY <1>5 DEF Subscribe, fresh
  <2>2. FeedType' /\ \A r \in Subs : sub'[r].on => sub'[r].start <= Len(feed)
    BY <2>0, <2>1 DEF FeedInv, FeedType
  <2>3. \A j \in 1..Len(feed) : Watched(j)' => Watched(j)
    BY <2>0, <2>1 DEF FeedInv, FeedType, Watched
  <2> QED
    BY <2>1, <2>2, <2>3 DEF FeedInv
<1>6. ASSUME NEW s \in Subs, Unsubscribe(s) PROVE FeedInv'
  <2>1. /\ feed' = feed /\ processed' = processed
        /\ sub' = [sub EXCEPT ![s] = NoSub]
    BY <1>6 DEF Unsubscribe
  <2>2. FeedType' /\ \A r \in Subs : sub'[r].on => sub'[r].start <= Len(feed)
    BY <2>1 DEF FeedInv, FeedType, NoSub
  <2>3. \A j \in 1..Len(feed) : Watched(j)' => Watched(j)
    BY <2>1 DEF FeedInv, FeedType, Watched, NoSub
  <2> QED
    BY <2>1, <2>2, <2>3 DEF FeedInv
<1>7. ASSUME NEW s \in Subs, Consume(s) PROVE FeedInv'
  <2>1. feed' = feed /\ processed' = processed
    BY <1>7 DEF Consume, Recv, RecvLagged
  <2>2. /\ FeedType'
        /\ \A r \in Subs : sub'[r].on = sub[r].on /\ sub'[r].start = sub[r].start
    <3>1. CASE Recv(s)
      BY <2>1, <3>1 DEF FeedInv, FeedType, Recv
    <3>2. CASE RecvLagged(s)
      <4>1. Oldest \in Nat /\ sub[s].next \in Nat /\ sub[s].missed \in Nat /\ sub[s].next < Oldest
        BY <3>2, OldestNat DEF FeedInv, FeedType, RecvLagged
      <4>2. sub[s].missed + Oldest - sub[s].next \in Nat
        BY <4>1
      <4> QED
        BY <2>1, <3>2, <4>1, <4>2 DEF FeedInv, FeedType, RecvLagged, Resume
    <3> QED
      BY <1>7, <3>1, <3>2 DEF Consume
  <2>3. \A j : Watched(j)' => Watched(j)
    BY <2>2 DEF Watched
  <2> QED
    BY <2>1, <2>2, <2>3 DEF FeedInv
<1>8. CASE UNCHANGED vars
  BY <1>1, <1>8 DEF vars
<1> QED
  BY <1>2, <1>3, <1>4, <1>5, <1>6, <1>7, <1>8 DEF Next

LEMMA FeedContiguous == StreamInv /\ FeedInv => FailStop
<1> SUFFICES ASSUME StreamInv, FeedInv PROVE FailStop
  OBVIOUS
<1>1. \A k \in 1..Len(feed) : /\ feed[k] \in Frames /\ feed[k].conn \in Conns
                              /\ feed[k].rank \in Nat
                              /\ processed[feed[k].conn] \in Nat
                              /\ decoded[feed[k].conn] \in Nat
  BY FeedElement DEF FeedInv, StreamInv
<1>2. \A k \in 1..Len(feed) : feed[k].rank <= decoded[feed[k].conn]
  BY <1>1 DEF FeedInv, StreamInv
<1>3. ASSUME NEW j \in 1..Len(feed), NEW k \in 1..Len(feed),
             j < k, feed[j].conn = feed[k].conn,
             \E s \in Subs : sub[s].on /\ sub[s].start < j,
             NEW n \in feed[j].rank..feed[k].rank
      PROVE  \E i \in j..k : feed[i] = [feed[k] EXCEPT !.rank = n]
  <2>1. n \in feed[j].rank..processed[feed[j].conn]
    BY <1>1, <1>3 DEF FeedInv
  <2>2. PICK i \in j..Len(feed) : feed[i] = [conn |-> feed[j].conn, rank |-> n]
    BY <1>3, <2>1 DEF FeedInv, Watched
  <2>3. feed[i] = [feed[k] EXCEPT !.rank = n]
    BY <1>1, <1>3, <2>2 DEF Frames
  <2>4. i \in 1..Len(feed) /\ feed[i].conn = feed[k].conn /\ feed[i].rank = n
    BY <1>3, <2>2
  <2>5. i <= k
    BY <1>1, <1>3, <2>4 DEF FeedInv
  <2> QED
    BY <2>2, <2>3, <2>5
<1>4. \A c \in Conns : \A n \in 1..decoded[c] : sent[c][n] = FrameSize
  BY DEF StreamInv
<1>5. \A j, k \in 1..Len(feed) :
        j < k /\ feed[j].conn = feed[k].conn => feed[j].rank < feed[k].rank
  BY DEF FeedInv
<1> QED
  BY <1>2, <1>3, <1>4, <1>5 DEF FailStop

\* The feed has a connection's frames in the order they were sent, of the right size
\* and without repetition; from where a subscriber was there, without omission.
THEOREM FeedInOrder == Spec => []FailStop
  BY FeedInit, FeedStep, FeedContiguous, StreamInit, StreamStep, PTL DEF Spec
-----------------------------------------------------------------------------
(* A subscriber's account.                                                 *)

Passed(s) == sub[s].start + 1 .. sub[s].next - 1
Lost(s) == Passed(s) \ sub[s].got

Account(s) ==
    /\ sub[s].start < sub[s].next
    /\ sub[s].got \subseteq Passed(s)
    /\ IsFiniteSet(Lost(s)) /\ Cardinality(Lost(s)) = sub[s].missed
    /\ \A k \in Lost(s) : k + Capacity <= Len(feed)

AccountInv == \A s \in Subs : sub[s].on => Account(s)

\* Where a receiver that lags resumes, what it skipped has been overwritten.
LEMMA Overwritten ==
    ASSUME FeedType, NEW n \in Nat, n < Oldest, n > 0
    PROVE  Oldest = Len(feed) - Capacity + 1
<1> DEFINE d == Len(feed) - Capacity
<1>1. Len(feed) \in Nat /\ d \in Int
  BY SizesNat DEF FeedType
<1>2. Max({0, d}) = IF d <= 0 THEN 0 ELSE d
  <2> HIDE DEF d
  <2> QED
    BY <1>1 DEF Max
<1>3. d > 0
  BY <1>1, <1>2 DEF Oldest
<1> QED
  BY <1>1, <1>2, <1>3 DEF Oldest

LEMMA AccountInit == Init => AccountInv
  BY DEF Init, NoSub, AccountInv

LEMMA AccountStep == FeedInv /\ AccountInv /\ [Next]_vars => AccountInv'
<1> SUFFICES ASSUME FeedInv, AccountInv, [Next]_vars PROVE AccountInv'
  OBVIOUS
<1>a. Len(feed) \in Nat
  BY DEF FeedInv, FeedType
<1>b. \A r \in Subs : /\ sub[r].start \in Nat /\ sub[r].next \in Nat
                      /\ sub[r].got \subseteq Nat /\ sub[r].missed \in Nat
  BY DEF FeedInv, FeedType
<1>1. ASSUME sub' = sub, Len(feed') \in Nat, Len(feed) <= Len(feed') PROVE AccountInv'
  <2> SUFFICES ASSUME NEW r \in Subs, sub'[r].on PROVE Account(r)'
    BY DEF AccountInv
  <2>1. Account(r)
    BY <1>1 DEF AccountInv
  <2>2. Lost(r)' = Lost(r) /\ Passed(r)' = Passed(r)
    BY <1>1 DEF Lost, Passed
  <2>3. \A k \in Lost(r) : k \in Int
    BY <1>b DEF Lost, Passed
  <2>4. ASSUME NEW k \in Lost(r) PROVE k + Capacity <= Len(feed')
    BY <1>1, <1>a, <2>1, <2>3, SizesNat DEF Account
  <2> QED
    BY <1>1, <2>1, <2>2, <2>4 DEF Account
<1>2. CASE UNCHANGED <<feed, sub>>
  BY <1>1, <1>2, <1>a
<1>3. ASSUME NEW c \in Conns, Process(c) PROVE AccountInv'
  <2>1. sub' = sub /\ (feed' = feed \/ feed' = Append(feed, [conn |-> c, rank |-> processed[c] + 1]))
    BY <1>3 DEF Process
  <2>2. Len(feed') \in Nat /\ Len(feed) <= Len(feed')
    BY <1>a, <2>1 DEF FeedInv, FeedType
  <2> QED
    BY <1>1, <2>1, <2>2
<1>4. ASSUME NEW s \in Subs, feed' = feed, sub' = [sub EXCEPT ![s] = sub'[s]],
             sub'[s].on => Account(s)'
      PROVE  AccountInv'
  <2> SUFFICES ASSUME NEW r \in Subs, r # s, sub'[r].on PROVE Account(r)'
    BY <1>4 DEF AccountInv
  <2>1. sub'[r] = sub[r]
    BY <1>4 DEF FeedInv, FeedType
  <2>2. Account(r)
    BY <2>1 DEF AccountInv
  <2> QED
    BY <1>4, <2>1, <2>2 DEF Account, Lost, Passed
<1>5. ASSUME NEW s \in Subs, Subscribe(s) PROVE AccountInv'
  <2>1. /\ feed' = feed /\ sub' = [sub EXCEPT ![s] = sub'[s]]
        /\ sub'[s].start = Len(feed) /\ sub'[s].next = Len(feed) + 1
        /\ sub'[s].got = {} /\ sub'[s].missed = 0
    BY <1>5 DEF Subscribe, FeedInv, FeedType
  <2>2. Passed(s)' = {} /\ Lost(s)' = {}
    BY <1>a, <2>1 DEF Passed, Lost
  <2>3. Account(s)'
    BY <1>a, <2>1, <2>2, FS_EmptySet DEF Account
  <2> QED
    BY <1>4, <2>1, <2>3
<1>6. ASSUME NEW s \in Subs, Unsubscribe(s) PROVE AccountInv'
  BY <1>4, <1>6 DEF Unsubscribe, NoSub, FeedInv, FeedType
<1>7. ASSUME NEW s \in Subs, Recv(s) PROVE AccountInv'
  <2>1. /\ feed' = feed /\ sub' = [sub EXCEPT ![s] = sub'[s]]
        /\ sub'[s].start = sub[s].start /\ sub'[s].next = sub[s].next + 1
        /\ sub'[s].got = sub[s].got \cup {sub[s].next} /\ sub'[s].missed = sub[s].missed
    BY <1>7 DEF Recv, FeedInv, FeedType
  <2>2. Account(s)
    BY <1>7 DEF Recv, AccountInv
  <2>3. Passed(s)' = Passed(s) \cup {sub[s].next}
    BY <1>b, <2>1, <2>2 DEF Passed, Account
  <2>4. sub[s].next \notin Passed(s)
    BY <1>b DEF Passed
  <2>5. Lost(s)' = Lost(s)
    BY <2>1, <2>3, <2>4 DEF Lost
  <2> HIDE DEF Passed, Lost
  <2>6. Account(s)'
    BY <1>b, <2>1, <2>2, <2>3, <2>5 DEF Account
  <2> QED
    BY <1>4, <2>1, <2>6
<1>8. ASSUME NEW s \in Subs, RecvLagged(s) PROVE AccountInv'
  <2> DEFINE skipped == sub[s].next .. Oldest - 1
  <2>1. /\ feed' = feed /\ sub' = [sub EXCEPT ![s] = sub'[s]]
        /\ sub'[s].start = sub[s].start /\ sub'[s].next = Oldest
        /\ sub'[s].got = sub[s].got
        /\ sub'[s].missed = sub[s].missed + Oldest - sub[s].next
    BY <1>8 DEF RecvLagged, Resume, FeedInv, FeedType
  <2>2. Account(s) /\ sub[s].next < Oldest
    BY <1>8 DEF RecvLagged, AccountInv
  <2>3. Oldest \in Nat /\ Oldest = Len(feed) - Capacity + 1
    BY <1>b, <2>2, OldestNat, Overwritten DEF Account, FeedInv, FeedType
  <2>4. Passed(s)' = Passed(s) \cup skipped
    BY <1>b, <2>1, <2>2, <2>3 DEF Passed, Account
  <2>5. Passed(s) \cap skipped = {}
    BY <1>b, <2>3 DEF Passed
  <2>6. IsFiniteSet(skipped) /\ Cardinality(skipped) = Oldest - sub[s].next
    <3>1. sub[s].next \in Int /\ Oldest - 1 \in Int /\ ~(sub[s].next > Oldest - 1)
      BY <1>b, <2>2, <2>3
    <3>2. Oldest - 1 - sub[s].next + 1 = Oldest - sub[s].next
      BY <1>b, <2>3
    <3> QED
      BY <3>1, <3>2, FS_Interval
  <2>7. \A k \in skipped : k + Capacity <= Len(feed)
    BY <1>a, <1>b, <2>3, SizesNat
  <2> HIDE DEF skipped
  <2>8. sub[s].got \subseteq Passed(s)
    BY <2>2 DEF Account
  <2>9. Lost(s)' = Lost(s) \cup skipped /\ Lost(s) \cap skipped = {}
    BY <2>1, <2>4, <2>5, <2>8 DEF Lost
  <2>10. IsFiniteSet(Lost(s)')
         /\ Cardinality(Lost(s)') = sub[s].missed + Oldest - sub[s].next
    <3>1. IsFiniteSet(Lost(s)) /\ Cardinality(Lost(s)) = sub[s].missed
      BY <2>2 DEF Account
    <3>2. IsFiniteSet(Lost(s) \cup skipped)
          /\ Cardinality(Lost(s) \cup skipped) =
               Cardinality(Lost(s)) + Cardinality(skipped) - Cardinality(Lost(s) \cap skipped)
      BY <2>6, <3>1, FS_Union
    <3>3. Cardinality(Lost(s) \cap skipped) = 0
      BY <2>9, FS_EmptySet
    <3>4. sub[s].missed + (Oldest - sub[s].next) - 0 = sub[s].missed + Oldest - sub[s].next
      BY <1>b, <2>3
    <3> QED
      BY <2>6, <2>9, <3>1, <3>2, <3>3, <3>4
  <2>11. sub'[s].got \subseteq Passed(s)'
    BY <2>1, <2>4, <2>8
  <2>12. sub'[s].start < sub'[s].next
    BY <1>b, <2>1, <2>2, <2>3 DEF Account
  <2>13. \A k \in Lost(s)' : k + Capacity <= Len(feed')
    BY <2>1, <2>2, <2>7, <2>9 DEF Account
  <2>14. Account(s)'
    BY <2>1, <2>10, <2>11, <2>12, <2>13 DEF Account
  <2> QED
    BY <1>4, <2>1, <2>14
<1>9. CASE \/ \E c \in Conns :
               \/ \E size \in Sizes : HandOver(c, size)
               \/ Close(c) \/ Arrive(c) \/ TearDown(c) \/ Decode(c)
           \/ UNCHANGED vars
  BY <1>2, <1>9 DEF HandOver, Close, Arrive, TearDown, Decode, vars
<1> QED
  BY <1>3, <1>5, <1>6, <1>7, <1>8, <1>9 DEF Next, Consume

\* What a subscriber was handed and what it was told it missed make up the feed
\* since it subscribed, and nothing is missed that the channel still has room for.
THEOREM Accounted == Spec => []FeedAccounted
<1>1. AccountInv => FeedAccounted
  BY DEF AccountInv, Account, Passed, Lost, FeedAccounted
<1> QED
  BY <1>1, AccountInit, AccountStep, FeedInit, FeedStep, StreamInit, StreamStep, PTL DEF Spec
=============================================================================
