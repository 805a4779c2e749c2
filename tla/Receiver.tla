------------------------------ MODULE Receiver ------------------------------
(***************************************************************************)
(* From a connection's outbound queue to the reader: the frames that the   *)
(* other ends' schedulers hand over, of the sizes their construction gives *)
(* them; what a connection's bytes become; and the feed that               *)
(* Node::subscribe hands out.  Frames that a lane, a fan-out or a full     *)
(* outbound queue loses never get here: those are the subject of           *)
(* GlobalScope and PerConnectionScope.  Each connection has its Codec,     *)
(* which decodes length-delimited frames from bytes that arrive in any     *)
(* pieces and ends the connection at the first length that is not          *)
(* frame_size; the overlay passes what was decoded, in order, to           *)
(* process_message; and handle_incoming puts it on a bounded broadcast     *)
(* channel that overwrites its oldest frame, whatever the subscribers have *)
(* read.                                                                   *)
(*                                                                         *)
(* A frame is its connection and its rank there.  A connection is used     *)
(* once: a peer that reconnects is another member of Conns.                *)
(***************************************************************************)
EXTENDS SequencesExt, FiniteSetsExt

CONSTANTS
    Conns,          \* connections
    Subs,           \* broadcast receivers
    HeaderSize,     \* bytes of the length field (4)
    IdSize,         \* ID_SIZE (32)
    FrameSize,      \* ShapeConfig::frame_size
    MaxFrameSize,   \* ShapeConfig::max_frame_size
    Sizes,          \* frame sizes that other ends may use
    Foreign,        \* a remote that is no peashape node, and frames as it likes
    Capacity,       \* SUBSCRIBER_CAPACITY (1024)
    MaxSent         \* bound: frames handed to a connection

\* Node::new panics on any other configuration.
ASSUME SizesAssumption ==
    /\ HeaderSize \in Nat \ {0} /\ Capacity \in Nat \ {0}
    /\ Sizes \subseteq Nat /\ FrameSize \in Sizes /\ Foreign \notin Sizes
    /\ IdSize \in Nat \ {0} /\ IdSize <= FrameSize
    /\ MaxFrameSize \in Nat /\ FrameSize <= MaxFrameSize

VARIABLES
    remote,      \* the frame_size of each connection's other end, or Foreign
    link,        \* "up", "closed" by a peer or "torn" down by the decoder
    handed,      \* how many frames the other end has put in its outbound queue
    sent,        \* sizes of those that its encoder writes, in order
    arrived,     \* bytes in the decoder's buffer
    decoded,     \* how many frames the decoder returned
    processed,   \* how many of those process_message was called with
    feed,        \* history: every frame sent to the broadcast channel
    sub          \* each receiver: whether it exists, the position before its
                 \* first frame, the next to read, those it got, how many the
                 \* channel told it that it missed

netVars == <<remote, link, handed, sent, arrived>>
vars == <<netVars, decoded, processed, feed, sub>>

NoSub == [on |-> FALSE, start |-> 0, next |-> 1, got |-> {}, missed |-> 0]

Init ==
    /\ remote \in [Conns -> {n \in Sizes : n >= IdSize} \cup {Foreign}]
    /\ link = [c \in Conns |-> "up"]
    /\ handed = [c \in Conns |-> 0] /\ sent = [c \in Conns |-> << >>]
    /\ arrived = [c \in Conns |-> 0]
    /\ decoded = [c \in Conns |-> 0] /\ processed = [c \in Conns |-> 0]
    /\ feed = << >>
    /\ sub = [s \in Subs |-> NoSub]

-----------------------------------------------------------------------------
(* The other ends and the network.                                         *)

\* What a node of frame size `size` makes of a payload: enqueue refuses one that
\* leaves no room for the identifier, build_frame pads the others.
Fits(len, size) == len <= size - IdSize
Unpadded(len, size) == IdSize + len                  \* defect: no padding
Padded(len, size) == IdSize + len + (size - IdSize - len)

\* Sizes of the frames its scheduler can hold: enqueue_raw refuses any other than its
\* own, random_cover returns no other, and a custom generator must not.
Shaped(size) == {Padded(len, size) : len \in {n \in 0..size : Fits(n, size)}} \cup {size}

\* Codec::encode: what has another size is refused and not written.
Encodes(c, size) == remote[c] \in {size, Foreign}

\* A send_one_to of the other end whose unicast_fast returned Ok: the frame is in
\* the outbound queue, from which the connection's task encodes it.  The queue is
\* part of the delay before the bytes arrive.
HandOver(c, size) ==
    /\ link[c] = "up" /\ handed[c] < MaxSent
    /\ size \in IF remote[c] = Foreign THEN Sizes ELSE Shaped(remote[c])
    /\ handed' = [handed EXCEPT ![c] = @ + 1]
    /\ sent' = IF Encodes(c, size) THEN [sent EXCEPT ![c] = Append(@, size)] ELSE sent
    /\ UNCHANGED <<remote, link, arrived, decoded, processed, feed, sub>>

Close(c) ==
    /\ link[c] = "up"
    /\ link' = [link EXCEPT ![c] = "closed"]
    /\ UNCHANGED <<remote, handed, sent, arrived, decoded, processed, feed, sub>>

\* The stream is cut anywhere: bytes come one at a time.
Undecoded(c) == SubSeq(sent[c], decoded[c] + 1, Len(sent[c]))
Arrive(c) ==
    /\ link[c] = "up"
    /\ arrived[c] < FoldSeq(LAMBDA size, n : n + HeaderSize + size, 0, Undecoded(c))
    /\ arrived' = [arrived EXCEPT ![c] = @ + 1]
    /\ UNCHANGED <<remote, link, handed, sent, decoded, processed, feed, sub>>

-----------------------------------------------------------------------------
(* Codec::decode, on the first frame not yet decoded.                      *)

Announced(c) == Head(Undecoded(c))
HasHeader(c) == decoded[c] < Len(sent[c]) /\ arrived[c] >= HeaderSize
HasFrameAndMore(c) ==                                \* defect: waits for the next
    HasHeader(c) /\ arrived[c] > HeaderSize + Announced(c)
HasFrame(c) ==
    HasHeader(c) /\ arrived[c] >= HeaderSize + Announced(c)

\* max_frame_length is checked on the header, frame_size on the whole frame.
RejectsLargest(c) ==                                 \* defect: bound exclusive
    \/ HasHeader(c) /\ Announced(c) >= MaxFrameSize
    \/ HasFrame(c) /\ Announced(c) # FrameSize
RejectsTooLong(c) ==                                 \* defect: size unchecked
    HasHeader(c) /\ Announced(c) > MaxFrameSize
Rejects(c) ==
    \/ HasHeader(c) /\ Announced(c) > MaxFrameSize
    \/ HasFrame(c) /\ Announced(c) # FrameSize

\* The overlay ends a connection whose decoder failed.
TearDown(c) ==
    /\ link[c] = "up"
    /\ Rejects(c)
    /\ link' = [link EXCEPT ![c] = "torn"]
    /\ UNCHANGED <<remote, handed, sent, arrived, decoded, processed, feed, sub>>

Decode(c) ==
    /\ link[c] = "up"
    /\ HasFrame(c) /\ ~Rejects(c)
    /\ arrived' = [arrived EXCEPT ![c] = @ - HeaderSize - Announced(c)]
    /\ decoded' = [decoded EXCEPT ![c] = @ + 1]
    /\ UNCHANGED <<remote, link, handed, sent, processed, feed, sub>>

-----------------------------------------------------------------------------
(* process_message and the feed.                                           *)

\* handle_incoming: sending fails, and the frame is gone, when nobody subscribes.
\* What the overlay had queued when a connection ended may still come.
Process(c) ==
    /\ processed[c] < decoded[c]
    /\ processed' = [processed EXCEPT ![c] = @ + 1]
    /\ feed' = IF sent[c][processed[c] + 1] = FrameSize /\ \E s \in Subs : sub[s].on
               THEN Append(feed, [conn |-> c, rank |-> processed[c] + 1])
               ELSE feed
    /\ UNCHANGED <<netVars, decoded, sub>>

\* Node::subscribe: the feed from here on.
Subscribe(s) ==
    /\ ~sub[s].on
    /\ sub' = [sub EXCEPT ![s] = [on |-> TRUE, start |-> Len(feed),
                                  next |-> Len(feed) + 1, got |-> {}, missed |-> 0]]
    /\ UNCHANGED <<netVars, decoded, processed, feed>>

Unsubscribe(s) ==
    /\ sub[s].on
    /\ sub' = [sub EXCEPT ![s] = NoSub]
    /\ UNCHANGED <<netVars, decoded, processed, feed>>

\* The consumers' loops: a frame, or the report of how many were overwritten,
\* after which reading goes on with the oldest that is left.
Oldest == Max({0, Len(feed) - Capacity}) + 1

Recv(s) ==
    /\ sub[s].on
    /\ sub[s].next \in Oldest..Len(feed)
    /\ sub' = [sub EXCEPT ![s].got = @ \cup {sub[s].next}, ![s].next = @ + 1]
    /\ UNCHANGED <<netVars, decoded, processed, feed>>

ResumeAtNewest == Len(feed) + 1                      \* defect: starts over
Resume == Oldest

RecvLagged(s) ==
    /\ sub[s].on
    /\ sub[s].next < Oldest
    /\ sub' = [sub EXCEPT ![s].missed = @ + Resume - sub[s].next, ![s].next = Resume]
    /\ UNCHANGED <<netVars, decoded, processed, feed>>

Consume(s) == Recv(s) \/ RecvLagged(s)

Next ==
    \/ \E c \in Conns :
         \/ \E size \in Sizes : HandOver(c, size)
         \/ Close(c) \/ Arrive(c) \/ TearDown(c) \/ Decode(c) \/ Process(c)
    \/ \E s \in Subs : Subscribe(s) \/ Unsubscribe(s) \/ Consume(s)

\* A connection that stays up carries what was written to it, the runtime polls
\* the reading tasks, and a consumer goes on reading.  Nobody has to send.
Spec ==
    /\ Init
    /\ [][Next]_vars
    /\ \A c \in Conns : WF_vars(Arrive(c)) /\ WF_vars(Decode(c)) /\ WF_vars(Process(c))
    /\ \A s \in Subs : WF_vars(Consume(s))

-----------------------------------------------------------------------------
\* However the bytes are cut, the feed has a connection's frames in the order they
\* were sent, none twice and all of the right size: the first wrong length ends the
\* connection and nothing after it is accepted.  While somebody subscribes, no
\* frame in between is left out.
FailStop ==
    /\ \A c \in Conns : \A n \in 1..decoded[c] : sent[c][n] = FrameSize
    /\ \A j, k \in 1..Len(feed) :
         j < k /\ feed[j].conn = feed[k].conn =>
             /\ feed[j].rank < feed[k].rank
             /\ (\E s \in Subs : sub[s].on /\ sub[s].start < j) =>
                   \A n \in feed[j].rank..feed[k].rank :
                       \E i \in j..k : feed[i] = [feed[k] EXCEPT !.rank = n]
    /\ \A k \in 1..Len(feed) : feed[k].rank <= decoded[feed[k].conn]

\* A decoder never turns against a peer that agrees on the frame size, up to and
\* including a frame size equal to max_frame_size.
AgreeingPeersStayUp == \A c \in Conns : remote[c] = FrameSize => link[c] # "torn"

\* What a subscriber is handed and what it is told it missed make up the feed since
\* it subscribed; only frames with Capacity newer ones behind them are missed.
FeedAccounted ==
    \A s \in Subs : sub[s].on =>
        LET passed == sub[s].start + 1 .. sub[s].next - 1
            lost == passed \ sub[s].got
        IN  /\ sub[s].got \subseteq passed
            /\ Cardinality(lost) = sub[s].missed
            /\ \A k \in lost : k + Capacity <= Len(feed)

\* A frame that an agreeing peer's scheduler has handed to the connection (its
\* unicast_fast returned Ok), whatever the payload and however the bytes are cut,
\* comes up in the feed of everyone who stays subscribed while the connection stays
\* up, there to be read or reported missed.
EveryFramePasses ==
    \A c \in Conns, n \in 1..MaxSent, s \in Subs :
        /\ remote[c] = FrameSize
        /\ processed[c] < n /\ n <= handed[c]
        /\ [](link[c] = "up" /\ sub[s].on)
        ~> \E k \in sub[s].start + 1 .. sub[s].next - 1 : feed[k] = [conn |-> c, rank |-> n]
=============================================================================
