-------------------------- MODULE CoverStreamProofs --------------------------
(***************************************************************************)
(* What the observers of a numbered stream see, for any finite set of      *)
(* peers, any fanout and any size of the numbers.                          *)
(***************************************************************************)
EXTENDS CoverStream, CommonProofs, FiniteSetTheorems, TLAPS

-----------------------------------------------------------------------------
(* One tick.                                                               *)

Quiet == ~(scope = "Global" /\ unicasts)

ConfigType ==
    /\ scope \in {"Global", "PerConnection"}
    /\ fanout \in Nat \ {0}
    /\ unicasts \in BOOLEAN /\ lone \in BOOLEAN /\ overflows \in BOOLEAN

PeersType ==
    /\ ConfigType
    /\ connected \subseteq Peers /\ heldTo \subseteq Peers /\ coverTo \subseteq Peers
    /\ lone => \A p, q \in connected : p = q

LEMMA TickEffect ==
    ASSUME PeersType, Tick
    PROVE  /\ Idle /\ connected # {}
           /\ held' = Stamp(0) /\ Spend(1) /\ ticks' = ticks + 1
           /\ heldTo' \subseteq connected /\ coverTo' \subseteq connected
           /\ Quiet => coverTo' = {}
           /\ UNCHANGED <<config, connected, seen>>
<1>1. PICK real \in BOOLEAN :
        /\ held' = IF real THEN Finalize(Stamp(Spare(real))) ELSE Stamp(Spare(real))
        /\ ToOne \/ ToMany \/ (real /\ \E p \in Peers : ToTarget(p))
        /\ Spend(Spare(real) + 1)
  BY DEF Tick
<1>2. held' = Stamp(0) /\ Spend(0 + 1)
  BY <1>1 DEF Spare, Finalize
<1>3. \A ps, k : \A S \in Picks(ps, k) : S \subseteq ps
  BY DEF Picks, kSubset
<1>4. /\ heldTo' \subseteq connected /\ coverTo' \subseteq connected
      /\ Quiet => coverTo' = {}
  <2>1. CASE ToOne \/ ToMany
    BY <1>3, <2>1 DEF ToOne, ToMany
  <2>2. ASSUME NEW p \in Peers, ToTarget(p)
        PROVE  /\ heldTo' \subseteq connected /\ coverTo' \subseteq connected
               /\ ~Quiet
    BY <1>3, <2>2 DEF ToTarget, Quiet
  <2> QED
    BY <1>1, <2>1, <2>2
<1> QED
  BY <1>2, <1>4 DEF Tick

LEMMA PeersInit == Init => PeersType
<1> SUFFICES ASSUME Init PROVE PeersType
  OBVIOUS
<1>1. Cardinality(Peers) \in Nat
  BY PeersAssumption, FS_CardinalityType
<1>2. fanout \in Nat \ {0}
  BY <1>1 DEF Init
<1> QED
  BY <1>2 DEF Init, PeersType, ConfigType

LEMMA PeersStep == PeersType /\ [Next]_vars => PeersType'
<1> SUFFICES ASSUME PeersType, [Next]_vars PROVE PeersType'
  OBVIOUS
<1>1. CASE Tick
  <2>1. /\ heldTo' \subseteq connected /\ coverTo' \subseteq connected
        /\ UNCHANGED <<config, connected>>
    BY <1>1, TickEffect
  <2> QED
    BY <2>1 DEF PeersType, ConfigType, config
<1>2. ASSUME NEW p \in Peers, SendHeld(p) \/ SendCover(p) PROVE PeersType'
  BY <1>2 DEF SendHeld, SendCover, PeersType, ConfigType, config
<1>3. ASSUME NEW p \in Peers, Connect(p) \/ Disconnect(p) PROVE PeersType'
  BY <1>3 DEF Connect, Disconnect, PeersType, ConfigType, config
<1>4. CASE UNCHANGED vars
  BY <1>4 DEF vars, PeersType, ConfigType, config
<1> QED
  BY <1>1, <1>2, <1>3, <1>4 DEF Next

-----------------------------------------------------------------------------
(* One number for each tick.                                               *)

TickInv ==
    /\ PeersType
    /\ stamped \in Nat /\ ticks \in Nat
    /\ Quiet => coverTo = {} /\ stamped = ticks

LEMMA TickStep == TickInv /\ [Next]_vars => TickInv'
<1> SUFFICES ASSUME TickInv, [Next]_vars PROVE TickInv'
  OBVIOUS
<1>0. PeersType'
  BY PeersStep DEF TickInv
<1>1. CASE Tick
  BY <1>0, <1>1, TickEffect DEF TickInv, Spend, Quiet, config
<1>2. ASSUME NEW p \in Peers, SendHeld(p) PROVE TickInv'
  BY <1>0, <1>2 DEF SendHeld, TickInv, Quiet, config
<1>3. ASSUME NEW p \in Peers, SendCover(p) PROVE TickInv'
  BY <1>0, <1>3 DEF SendCover, Spend, TickInv, Quiet, config
<1>4. ASSUME NEW p \in Peers, Connect(p) \/ Disconnect(p) PROVE TickInv'
  BY <1>0, <1>4 DEF Connect, Disconnect, TickInv, Quiet, config
<1>5. CASE UNCHANGED vars
  BY <1>0, <1>5 DEF vars, TickInv, Quiet, config
<1> QED
  BY <1>1, <1>2, <1>3, <1>4, <1>5 DEF Next

\* Without Global unicasts a tick uses one number, whatever was submitted.
THEOREM OneNumberPerTick == Spec => []NumbersMatchTicks
<1>1. Init => TickInv
  BY PeersInit DEF Init, TickInv
<1>2. TickInv => NumbersMatchTicks
  BY DEF TickInv, NumbersMatchTicks, Quiet
<1> QED
  BY <1>1, <1>2, TickStep, PTL DEF Spec
-----------------------------------------------------------------------------
(* The observers' arithmetic.  There is a b, the same in all states of a   *)
(* behaviour, such that the frame of rank n bears number b + n, reduced.   *)

Observation == [first : Nat, at : Nat, last : Int, frames : Nat, gaps : Int, near : BOOLEAN]

\* What an observer has gathered is right so far.
Right(o, b) ==
    /\ o \in Observation
    /\ o.frames = 0 => o.last = None
    /\ o.frames > 0 =>
         /\ 1 <= o.first /\ o.first <= o.at
         /\ o.last = (b + o.at) % Modulus
         /\ 0 <= o.gaps /\ o.gaps + o.frames <= o.at - o.first + 1
         /\ o.near => o.gaps + o.frames = o.at - o.first + 1

\* A frame that is newer than all that the observer has seen keeps it so.
LEMMA ArrivalKeepsRight ==
    ASSUME NEW b \in Int, NEW p \in Peers, NEW f, seen \in [Peers -> Observation],
           Right(seen[p], b), Arrival(p, f),
           f.at \in Nat, 1 <= f.at, f.number = (b + f.at) % Modulus,
           seen[p].frames > 0 => seen[p].at < f.at
    PROVE  /\ seen' = [seen EXCEPT ![p] = seen'[p]]
           /\ Right(seen'[p], b) /\ seen'[p].frames > 0 /\ seen'[p].at = f.at
           /\ (seen[p].frames > 0 => seen[p].gaps = 0 /\ f.at = seen[p].at + 1)
                => seen'[p].gaps = 0
<1> DEFINE o == seen[p]
           g == IF o.last = None THEN 0 ELSE o.gaps + Missing(o.last, f.number)
           near == o.near /\ (o.frames = 0 \/ f.at - o.at < Modulus)
           new == [first  |-> IF o.frames = 0 THEN f.at ELSE o.first,
                   near   |-> near,
                   at     |-> f.at,
                   last   |-> f.number,
                   frames |-> o.frames + 1,
                   gaps   |-> g]
<1>1. seen' = [seen EXCEPT ![p] = new]
  BY DEF Arrival
<1>2. seen'[p] = new /\ seen' = [seen EXCEPT ![p] = seen'[p]]
  BY <1>1
<1>3. o \in Observation /\ Modulus \in Nat \ {0} /\ 1 < Modulus
  BY NumbersAssumption DEF Right
<1>4. o.first \in Nat /\ o.at \in Nat /\ o.frames \in Nat /\ o.gaps \in Int /\ o.last \in Int
  BY <1>3 DEF Observation
<1>5. f.number \in Int
  <2>1. b + f.at \in Int
    OBVIOUS
  <2>2. ((b + f.at) % Modulus) \in 0..(Modulus - 1)
    BY <1>3, <2>1, ModBounds
  <2> QED
    BY <1>3, <2>2
<1>6. o.frames = 0 => g = 0
  BY DEF Right
<1>7. o.frames > 0 =>
        /\ g \in Int /\ o.gaps <= g /\ g <= o.gaps + (f.at - o.at - 1)
        /\ f.at - o.at < Modulus => g = o.gaps + (f.at - o.at - 1)
  <2> SUFFICES ASSUME o.frames > 0
               PROVE  /\ g \in Int /\ o.gaps <= g /\ g <= o.gaps + (f.at - o.at - 1)
                      /\ f.at - o.at < Modulus => g = o.gaps + (f.at - o.at - 1)
    OBVIOUS
  <2>1. o.last = (b + o.at) % Modulus /\ 1 <= o.at /\ o.at < f.at
    BY <1>4 DEF Right
  <2>2. o.last # None
    <3>1. b + o.at \in Int
      BY <1>4
    <3>2. ((b + o.at) % Modulus) \in 0..(Modulus - 1)
      BY <1>3, <3>1, ModBounds
    <3> QED
      BY <1>3, <2>1, <3>2 DEF None
  <2> DEFINE d == f.at - o.at
             step == ((f.number) - (o.last)) % Modulus
  <2>3. d \in Nat \ {0}
    BY <1>4, <2>1
  <2>4. d < Modulus => step = d
    <3> SUFFICES ASSUME d < Modulus PROVE step = d
      OBVIOUS
    <3>1. /\ b + f.at \in Int /\ b + o.at \in Int
          /\ (b + f.at) - (b + o.at) = d
      BY <1>4
    <3>2. 0 <= d
      BY <2>3
    <3> QED
      BY <1>3, <2>1, <3>1, <3>2, ModSub
  <2>5. step \in 0..(Modulus - 1)
    <3>1. (f.number) - (o.last) \in Int
      BY <1>4, <1>5
    <3> QED
      BY <1>3, <3>1, ModBounds
  <2>6. g = o.gaps + (IF step = 0 THEN 0 ELSE step - 1)
    BY <2>2 DEF Missing
  <2> HIDE DEF d, step, g
  <2>7. /\ g \in Int /\ o.gaps <= g /\ g <= o.gaps + (d - 1)
        /\ d < Modulus => g = o.gaps + (d - 1)
    BY <1>3, <1>4, <2>3, <2>4, <2>5, <2>6
  <2> QED
    BY <2>7 DEF d
<1> HIDE DEF g
<1>8. g \in Int
  BY <1>4, <1>6, <1>7
<1>9. near \in BOOLEAN
  OBVIOUS
<1> HIDE DEF near
<1>10. new \in Observation
  BY <1>4, <1>5, <1>8, <1>9 DEF Observation
<1>11. new.frames = o.frames + 1 /\ new.at = f.at /\ new.last = f.number /\ new.gaps = g
       /\ new.first = (IF o.frames = 0 THEN f.at ELSE o.first) /\ new.near = near
  OBVIOUS
<1> HIDE DEF new
<1>12. o.frames > 0 =>
         /\ 1 <= o.first /\ o.first <= o.at /\ o.at < f.at
         /\ 0 <= o.gaps /\ o.gaps + o.frames <= o.at - o.first + 1
         /\ o.near => o.gaps + o.frames = o.at - o.first + 1
  BY DEF Right
<1>13. near => o.near /\ (o.frames = 0 \/ f.at - o.at < Modulus)
  BY DEF near
<1> HIDE DEF o
<1>14. new.frames > 0 /\ 1 <= new.first /\ new.first <= new.at
  BY <1>4, <1>11, <1>12
<1>15. /\ 0 <= new.gaps /\ new.gaps + new.frames <= new.at - new.first + 1
       /\ near => new.gaps + new.frames = new.at - new.first + 1
  <2>1. CASE o.frames = 0
    BY <1>4, <1>6, <1>11, <2>1
  <2>2. CASE o.frames > 0
    <3>1. /\ 0 <= new.gaps /\ new.gaps + new.frames <= new.at - new.first + 1
      BY <1>4, <1>7, <1>11, <1>12, <2>2
    <3>2. near => new.gaps + new.frames = new.at - new.first + 1
      BY <1>4, <1>7, <1>11, <1>12, <1>13, <2>2
    <3> QED
      BY <3>1, <3>2
  <2> QED
    BY <1>4, <2>1, <2>2
<1>16. Right(new, b)
  BY <1>4, <1>10, <1>11, <1>14, <1>15 DEF Right
<1>17. (o.frames > 0 => o.gaps = 0 /\ f.at = o.at + 1) => new.gaps = 0
  BY <1>3, <1>4, <1>6, <1>7, <1>11
<1> QED
  BY <1>2, <1>11, <1>14, <1>16, <1>17 DEF o

\* The two set-ups in which nothing that a peer was chosen for can miss it.
Clean ==
    /\ ~overflows
    /\ \/ scope = "PerConnection" /\ lone
       \/ scope = "Global" /\ ~unicasts /\ fanout >= Cardinality(Peers)

\* Where peer p stands: behind the frame it has still to be sent, or, in a clean
\* set-up, up to date and without a gap.
Place(p) ==
    /\ seen[p].frames > 0 => seen[p].at <= stamped
    /\ seen[p].frames > 0 /\ p \in heldTo => seen[p].at < stamped
    /\ Clean => seen[p].gaps = 0
    /\ Clean /\ seen[p].frames > 0 /\ p \in connected =>
         seen[p].at = IF p \in heldTo THEN stamped - 1 ELSE stamped

Numbered(b) ==
    /\ counter = (b + stamped + 1) % Modulus
    /\ heldTo # {} => held.number = (b + stamped) % Modulus
    /\ \A p \in Peers : Right(seen[p], b)

StreamInv ==
    /\ PeersType
    /\ stamped \in Nat /\ seen \in [Peers -> Observation]
    /\ Clean => coverTo = {}
    /\ heldTo # {} => stamped > 0 /\ held.at = stamped
    /\ \A p \in Peers : Place(p)
    /\ \E b \in Int : Numbered(b)

LEMMA NothingRight ==
    /\ Nothing \in Observation /\ Nothing.frames = 0 /\ Nothing.gaps = 0
    /\ \A b : Right(Nothing, b)
  BY DEF Nothing, Right, Observation, None

LEMMA StreamInit == Init => StreamInv
<1> SUFFICES ASSUME Init PROVE StreamInv
  OBVIOUS
<1>1. Modulus \in Nat \ {0}
  BY NumbersAssumption
<1>3. counter \in Int /\ 0 <= counter /\ counter < Modulus
  BY <1>1 DEF Init, Numbers
<1>4. Numbered(counter - 1)
  <2>1. counter % Modulus = counter
    <3>1. counter = Modulus * 0 + counter
      BY <1>1, <1>3
    <3> QED
      BY <1>1, <1>3, <3>1, ModUnique
  <2>2. (counter - 1) + 0 + 1 = counter
    BY <1>3
  <2>3. stamped = 0 /\ heldTo = {} /\ \A p \in Peers : seen[p] = Nothing
    BY DEF Init
  <2> QED
    BY <2>1, <2>2, <2>3, NothingRight DEF Numbered
<1>5. \A p \in Peers : seen[p] = Nothing
  BY DEF Init
<1>6. \A p \in Peers : Place(p)
  BY <1>5, NothingRight DEF Place
<1>7. seen \in [Peers -> Observation]
  BY NothingRight DEF Init
<1>8. PeersType
  BY PeersInit
<1>9. counter - 1 \in Int
  BY <1>3
<1> QED
  BY <1>4, <1>6, <1>7, <1>8, <1>9 DEF Init, StreamInv

\* In a clean set-up every connected peer is sent the frame of the tick.
LEMMA CleanTick ==
    ASSUME PeersType, Clean, Tick
    PROVE  heldTo' = connected /\ coverTo' = {}
<1>1. IsFiniteSet(connected)
  BY PeersAssumption, FS_Subset DEF PeersType
<1> DEFINE n == Cardinality(connected)
<1>2. n \in Nat /\ n > 0 /\ n <= Cardinality(Peers) /\ Cardinality(Peers) \in Nat
  <2>1. n \in Nat /\ Cardinality(Peers) \in Nat
    BY <1>1, PeersAssumption, FS_CardinalityType
  <2>2. n # 0
    BY <1>1, FS_EmptySet DEF Tick
  <2>3. n <= Cardinality(Peers)
    BY PeersAssumption, FS_Subset DEF PeersType
  <2> QED
    BY <2>1, <2>2, <2>3
<1>3. \A S \in kSubset(n, connected) : S = connected
  <2> SUFFICES ASSUME NEW S \in SUBSET connected, Cardinality(S) = n PROVE S = connected
    BY DEF kSubset
  <2> QED
    BY <1>1, FS_Subset
<1> HIDE DEF n
<1>4. Min({n, n}) = n
  BY <1>2 DEF Min
<1>5. \A S \in Picks(connected, n) : S = connected
  BY <1>3, <1>4 DEF Picks, n
<1>6. CASE scope = "PerConnection" /\ lone
  <2>1. ToOne
    BY <1>6 DEF Tick, ToMany, ToTarget
  <2>2. PICK p : p \in connected
    BY DEF Tick
  <2>3. connected = {p}
    BY <1>6, <2>2 DEF PeersType
  <2>4. n = 1
    BY <2>3, FS_Singleton DEF n
  <2> QED
    BY <1>5, <2>1, <2>4 DEF ToOne
<1>7. CASE scope = "Global" /\ ~unicasts /\ fanout >= Cardinality(Peers)
  <2>1. ToMany
    BY <1>7 DEF Tick, ToOne, ToTarget
  <2>2. fanout \in Nat /\ n <= fanout
    BY <1>2, <1>7 DEF PeersType, ConfigType
  <2>3. Min({fanout, n}) = n
    BY <1>2, <2>2 DEF Min
  <2>4. Max({1, n}) = n
    BY <1>2 DEF Max
  <2>5. Slots = n
    BY <2>3, <2>4 DEF Slots, n
  <2> QED
    BY <1>5, <2>1, <2>5 DEF ToMany
<1> QED
  BY <1>6, <1>7 DEF Clean

\* The generator's next number, whatever it stamps.
LEMMA NextNumber ==
    ASSUME NEW b \in Int, NEW s \in Nat, counter = (b + s + 1) % Modulus
    PROVE  Wrapped(counter + 0) = (b + (s + 1)) % Modulus
           /\ Wrapped(counter + 1) = (b + (s + 1) + 1) % Modulus
<1>1. Modulus \in Nat \ {0}
  BY NumbersAssumption
<1> DEFINE x == b + s + 1
<1>2. x \in Int /\ b + (s + 1) = x /\ b + (s + 1) + 1 = x + 1 /\ x + 0 = x
  OBVIOUS
<1>3. Wrapped(counter + 0) = ((x % Modulus) + 0) % Modulus
      /\ Wrapped(counter + 1) = ((x % Modulus) + 1) % Modulus
  BY DEF Wrapped
<1> HIDE DEF x
<1>4. \A n \in Int : ((x % Modulus) + n) % Modulus = (x + n) % Modulus
  BY <1>1, <1>2, ModAdd
<1>5. ((x % Modulus) + 0) % Modulus = (x + 0) % Modulus
  BY <1>4
<1>6. ((x % Modulus) + 1) % Modulus = (x + 1) % Modulus
  BY <1>4
<1> QED
  BY <1>2, <1>3, <1>5, <1>6

\* A send to p, of the frame in hand or of fresh cover, leaves everybody in place.
LEMMA SendKeepsPlace ==
    ASSUME NEW p \in Peers, NEW f, NEW b \in Int,
           PeersType, seen \in [Peers -> Observation],
           \A q \in Peers : Place(q) /\ Right(seen[q], b),
           stamped \in Nat, stamped' \in Nat, stamped <= stamped',
           Clean => stamped' = stamped,
           UNCHANGED <<config, connected>>, heldTo' = heldTo \ {p},
           f.at = stamped', 0 < stamped',
           f.number = (b + stamped') % Modulus,
           seen[p].frames > 0 => seen[p].at < stamped',
           Clean => p \in heldTo,
           Transmit(p, f)
    PROVE  seen' \in [Peers -> Observation] /\ \A q \in Peers : Place(q)' /\ Right(seen'[q], b)
<1>1. \A q \in Peers : /\ seen[q].frames \in Nat /\ seen[q].at \in Nat
                       /\ seen[q] \in Observation
  BY DEF Observation
<1>2. Clean' = Clean
  BY DEF Clean, config
<1>3. ASSUME NEW q \in Peers, seen'[q] = seen[q], q # p \/ q \notin connected \/ ~Clean
      PROVE  Place(q)'
  BY <1>1, <1>2, <1>3 DEF Place
<1>4. CASE UNCHANGED seen /\ (p \notin connected \/ overflows)
  BY <1>3, <1>4 DEF Clean
<1>5. CASE Arrival(p, f)
  <2>1. /\ seen' = [seen EXCEPT ![p] = seen'[p]]
        /\ Right(seen'[p], b) /\ seen'[p].frames > 0 /\ seen'[p].at = f.at
        /\ (seen[p].frames > 0 => seen[p].gaps = 0 /\ f.at = seen[p].at + 1)
             => seen'[p].gaps = 0
    BY <1>5, ArrivalKeepsRight
  <2>2. seen' \in [Peers -> Observation]
    BY <2>1 DEF Right
  <2>3. \A q \in Peers : q # p => seen'[q] = seen[q]
    BY <2>1
  <2>4. CASE p \in connected
    <3>1. ASSUME Clean, seen[p].frames > 0
          PROVE  seen[p].gaps = 0 /\ f.at = seen[p].at + 1
      <4>1. seen[p].gaps = 0 /\ seen[p].at = stamped - 1 /\ stamped' = stamped
        BY <2>4, <3>1 DEF Place
      <4> QED
        BY <4>1
    <3>2. Clean => seen'[p].gaps = 0
      BY <2>1, <3>1
    <3>3. Place(p)'
      BY <1>2, <2>1, <3>2 DEF Place
    <3> QED
      BY <1>3, <2>1, <2>2, <2>3, <3>3
  <2>5. CASE p \notin connected
    <3>1. overflows \/ ~Clean \/ UNCHANGED seen
      BY <2>5 DEF Transmit
    <3> QED
      BY <1>3, <1>4, <2>5, <3>1 DEF Transmit
  <2> QED
    BY <2>4, <2>5
<1> QED
  BY <1>4, <1>5 DEF Transmit

LEMMA StreamStep == StreamInv /\ [Next]_vars => StreamInv'
<1> SUFFICES ASSUME StreamInv, [Next]_vars PROVE StreamInv'
  OBVIOUS
<1>0. PeersType /\ PeersType'
  BY PeersStep DEF StreamInv
<1>1. PICK b \in Int : Numbered(b)
  BY DEF StreamInv
<1>2. stamped \in Nat /\ seen \in [Peers -> Observation]
  BY DEF StreamInv
<1>3. \A p \in Peers : /\ seen[p].frames \in Nat /\ seen[p].at \in Nat
                       /\ Place(p) /\ Right(seen[p], b)
  BY <1>1, <1>2 DEF StreamInv, Numbered, Observation
<1>4. /\ Wrapped(counter + 0) = (b + (stamped + 1)) % Modulus
      /\ Wrapped(counter + 1) = (b + (stamped + 1) + 1) % Modulus
  BY <1>1, <1>2, NextNumber DEF Numbered
<1>5. CASE Tick
  <2>1. /\ heldTo = {} /\ coverTo = {}
        /\ held' = Stamp(0) /\ Spend(1)
        /\ heldTo' \subseteq connected /\ coverTo' \subseteq connected
        /\ UNCHANGED <<config, connected, seen>>
    BY <1>0, <1>5, TickEffect DEF Idle
  <2>2. /\ stamped' = stamped + 1 /\ counter' = Wrapped(counter + 1)
        /\ held'.at = stamped + 1 /\ held'.number = Wrapped(counter + 0)
    BY <1>2, <2>1 DEF Spend, Stamp
  <2>3. Clean' = Clean /\ (Clean => heldTo' = connected /\ coverTo' = {})
    BY <1>0, <1>5, <2>1, CleanTick DEF Clean, config
  <2>4. Numbered(b)'
    BY <1>3, <1>4, <2>1, <2>2 DEF Numbered
  <2>5. ASSUME NEW p \in Peers PROVE Place(p)'
    BY <1>2, <1>3, <2>1, <2>2, <2>3 DEF Place
  <2> QED
    BY <1>0, <1>2, <2>1, <2>2, <2>3, <2>4, <2>5 DEF StreamInv
<1>6. ASSUME NEW p \in Peers, SendHeld(p) PROVE StreamInv'
  <2>1. /\ p \in heldTo /\ heldTo' = heldTo \ {p} /\ Transmit(p, held)
        /\ UNCHANGED <<config, connected, counter, held, coverTo, stamped>>
    BY <1>6 DEF SendHeld
  <2>2. stamped > 0 /\ held.at = stamped /\ held.number = (b + stamped) % Modulus
    BY <1>1, <2>1 DEF StreamInv, Numbered
  <2>3. seen[p].frames > 0 => seen[p].at < stamped
    BY <1>3, <2>1 DEF Place
  <2>4. seen' \in [Peers -> Observation] /\ \A q \in Peers : Place(q)' /\ Right(seen'[q], b)
    BY <1>0, <1>2, <1>3, <2>1, <2>2, <2>3, SendKeepsPlace
  <2>5. Numbered(b)'
    BY <1>1, <2>1, <2>2, <2>4 DEF Numbered
  <2>6. (Clean => coverTo = {}) /\ Clean' = Clean
    BY <2>1 DEF StreamInv, Clean, config
  <2> QED
    BY <1>0, <1>2, <2>1, <2>2, <2>4, <2>5, <2>6 DEF StreamInv
<1>7. ASSUME NEW p \in Peers, SendCover(p) PROVE StreamInv'
  <2>1. /\ heldTo = {} /\ p \in coverTo /\ coverTo' = coverTo \ {p}
        /\ Spend(1) /\ Transmit(p, Stamp(0))
        /\ UNCHANGED <<config, connected, held, heldTo>>
    BY <1>7 DEF SendCover
  <2>2. /\ stamped' = stamped + 1 /\ counter' = Wrapped(counter + 1)
        /\ Stamp(0).at = stamped + 1 /\ Stamp(0).number = Wrapped(counter + 0)
    BY <1>2, <2>1 DEF Spend, Stamp
  <2>3. ~Clean /\ ~Clean'
    BY <2>1 DEF StreamInv, Clean, config
  <2>4. seen[p].frames > 0 => seen[p].at < stamped'
    BY <1>2, <1>3, <2>2 DEF Place
  <2> DEFINE f == Stamp(0)
  <2>5. f.at = stamped' /\ f.number = (b + stamped') % Modulus /\ 0 < stamped'
        /\ stamped' \in Nat /\ stamped <= stamped'
    BY <1>2, <1>4, <2>2
  <2>6. heldTo' = heldTo \ {p} /\ Transmit(p, f)
    BY <2>1
  <2> HIDE DEF f
  <2>7. seen' \in [Peers -> Observation] /\ \A q \in Peers : Place(q)' /\ Right(seen'[q], b)
    BY <1>0, <1>2, <1>3, <2>1, <2>3, <2>4, <2>5, <2>6, SendKeepsPlace
  <2>8. Numbered(b)'
    BY <1>4, <2>1, <2>2, <2>7 DEF Numbered
  <2> QED
    BY <1>0, <2>1, <2>3, <2>5, <2>7, <2>8 DEF StreamInv
<1>8. ASSUME NEW p \in Peers, Connect(p) PROVE StreamInv'
  <2>1. /\ connected' = connected \cup {p} /\ seen' = [seen EXCEPT ![p] = Nothing]
        /\ UNCHANGED <<config, counter, held, heldTo, coverTo, stamped>>
    BY <1>8 DEF Connect
  <2>2. seen' \in [Peers -> Observation] /\ seen'[p] = Nothing
        /\ \A q \in Peers : q # p => seen'[q] = seen[q]
    BY <1>2, <2>1, NothingRight
  <2>3. Clean' = Clean
    BY <2>1 DEF Clean, config
  <2>4. ASSUME NEW q \in Peers PROVE Place(q)' /\ Right(seen'[q], b)
    <3>1. CASE q = p
      BY <2>2, <3>1, NothingRight DEF Place
    <3>2. CASE q # p
      <4>1. seen'[q] = seen[q] /\ (q \in connected' => q \in connected)
        BY <2>1, <2>2, <3>2
      <4> QED
        BY <1>3, <2>1, <2>3, <4>1 DEF Place
    <3> QED
      BY <3>1, <3>2
  <2>5. Numbered(b)'
    BY <1>1, <2>1, <2>4 DEF Numbered
  <2> QED
    BY <1>0, <1>2, <2>1, <2>2, <2>3, <2>4, <2>5 DEF StreamInv
<1>9. ASSUME NEW p \in Peers, Disconnect(p) PROVE StreamInv'
  <2>1. /\ connected' = connected \ {p}
        /\ UNCHANGED <<config, counter, held, heldTo, coverTo, stamped, seen>>
    BY <1>9 DEF Disconnect
  <2>2. Clean' = Clean
    BY <2>1 DEF Clean, config
  <2>3. ASSUME NEW q \in Peers PROVE Place(q)'
    BY <1>3, <2>1, <2>2 DEF Place
  <2>4. Numbered(b)'
    BY <1>1, <2>1 DEF Numbered
  <2> QED
    BY <1>0, <1>2, <2>1, <2>2, <2>3, <2>4 DEF StreamInv
<1>10. CASE UNCHANGED vars
  <2>1. Clean' = Clean
    BY <1>10 DEF vars, Clean, config
  <2>2. ASSUME NEW q \in Peers PROVE Place(q)'
    BY <1>3, <1>10, <2>1 DEF Place, vars
  <2>3. Numbered(b)'
    BY <1>1, <1>10 DEF Numbered, vars
  <2> QED
    BY <1>0, <1>2, <1>10, <2>1, <2>2, <2>3 DEF StreamInv, vars
<1> QED
  BY <1>5, <1>6, <1>7, <1>8, <1>9, <1>10 DEF Next

\* On every link the observer's count of missing numbers never exceeds the count of
\* the frames that went elsewhere or were lost, however often the counter wraps, and
\* equals it as long as the link itself did not miss a whole turn of it at once.
THEOREM GapsCountLosses == Spec => []GapsAreLosses
<1>1. StreamInv => GapsAreLosses
  <2> SUFFICES ASSUME StreamInv, NEW p \in Peers, seen[p].frames > 0
               PROVE  /\ 0 <= seen[p].gaps
                      /\ seen[p].gaps <= seen[p].at - seen[p].first + 1 - seen[p].frames
                      /\ seen[p].near =>
                           seen[p].gaps = seen[p].at - seen[p].first + 1 - seen[p].frames
    BY DEF GapsAreLosses
  <2>1. seen[p] \in Observation /\ \E b \in Int : Right(seen[p], b)
    BY DEF StreamInv, Numbered
  <2> QED
    BY <2>1 DEF Right, Observation
<1> QED
  BY <1>1, StreamInit, StreamStep, PTL DEF Spec

\* The two set-ups of the examples never show a gap, turn after turn of the counter.
THEOREM ExamplesClean == Spec => []CleanStreams
<1>1. StreamInv => CleanStreams
  <2> SUFFICES ASSUME StreamInv, Clean, NEW p \in Peers PROVE seen[p].gaps = 0
    BY DEF CleanStreams, Clean
  <2> QED
    BY DEF StreamInv, Place
<1> QED
  BY <1>1, StreamInit, StreamStep, PTL DEF Spec
=============================================================================
