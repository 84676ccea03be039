---------------------------- MODULE ErrorControl ----------------------------
(***************************************************************************)
(* ErrorControl (OERRCTRL.cpp, OERRCTRL.h): every peer broadcasts its      *)
(* command packets over ENet's unsequenced datagrams and makes the         *)
(* broadcast reliable with a send queue of MAX_QUEUE frames, one           *)
(* acknowledgement flag per frame and peer, retransmission, and a receive  *)
(* window of MAX_QUEUE/2 frames per sender.  Messages are handed up in the *)
(* order they arrive; ordering is left to the layer above.                 *)
(*                                                                         *)
(* One call of yield() handles any number of datagrams.  A step of this    *)
(* module is a call that handles at most one: a call that handles several  *)
(* is that many steps in a row (the timers of re_transmit not being due in *)
(* all but the last), and a call that finds a lost player and a datagram   *)
(* is Yield followed by a receipt.                                         *)
(*                                                                         *)
(* A message is named by its ordinal, the number of messages its sender    *)
(* broadcast before it; the code only ever sees the ordinal modulo         *)
(* MAX_QUEUE, the frame id.                                                *)
(***************************************************************************)
EXTENDS Integers, Sequences

CONSTANTS Peers,          \* the human players of the game
          MAX_QUEUE,      \* frame ids, and slots of the send queue (18)
          MAX_RECV_QUEUE, \* slots of the receive queue (72); one stays empty
          Lifetime,       \* a datagram about a frame is gone once its sender
                          \* has sent Lifetime later frames
          MaxSend         \* bound: messages each peer broadcasts

\* MAX_QUEUE is 18 in the code; what matters is that it is even and at least 4.
\* Lifetime is all that is assumed of the network, and what any sliding window
\* over cyclic ids has to assume.
ASSUME ECAssumption ==
  /\ MAX_QUEUE \in Nat /\ MAX_QUEUE >= 4
  /\ MAX_QUEUE = 2 * (MAX_QUEUE \div 2)
  /\ MAX_RECV_QUEUE \in Nat \ {0}
  /\ Lifetime \in Nat /\ Lifetime <= MAX_QUEUE - MAX_QUEUE \div 2
  /\ MaxSend \in [Peers -> Nat]

FrameIds == 0 .. MAX_QUEUE - 1
Window   == MAX_QUEUE \div 2

\* n carries the ordinal for the history variables; no handler reads it.
Datagrams == [kind : {"SEND", "ACKNOW", "NEGACK"}, src : Peers, dst : Peers,
              frame_id : FrameIds, n : Nat]

VARIABLES
  send_head, send_tail,  \* of each peer's send queue
  ack_flag,              \* ack_flag[p][f]: the peers that acknowledged f
  dp_id,                 \* dp_id[p]: the peers p has a nonzero dp_id for
  wait_to_receive,       \* wait_to_receive[p][q]: lowest frame p misses of q
  recv_flag,             \* recv_flag[p][q]: the frame ids flagged received
  receive_queue,         \* messages received and not yet polled
  link,                  \* link[p]: peers p's transport has a connection to
  net,                   \* datagrams in flight
  sent,                  \* history: messages broadcast by p
  freed,                 \* history: messages p took off its send queue
  base,                  \* history: ordinal of wait_to_receive[p][q]
  got                    \* history: ordinals p accepted from q

sendVars == <<send_head, send_tail, ack_flag, sent, freed>>
recvVars == <<wait_to_receive, recv_flag, receive_queue, base, got>>
vars == <<sendVars, recvVars, dp_id, link, net>>

-----------------------------------------------------------------------------
(* Frame ids *)

\* The frame id of the message with ordinal n.
FrameId(n) == n % MAX_QUEUE

\* k times inc_frame_id
Advance_NoWrap(f, k) == f + k
Advance(f, k) == FrameId(f + k)

IsBetween(low, t, high) ==
  IF low <= high THEN low <= t /\ t < high ELSE low <= t \/ t < high

\* Frames in the send queue; send_queue_space() is MAX_QUEUE-1 less these.
Queued(h, t) == IF t >= h THEN t - h ELSE MAX_QUEUE - (h - t)
SendQueueSpace_OffByOne(p) == MAX_QUEUE - Queued(send_head[p], send_tail[p])
SendQueueSpace(p) == MAX_QUEUE - 1 - Queued(send_head[p], send_tail[p])
Outstanding(h, t) == {f \in FrameIds : IsBetween(h, f, t)}

AreAllAcked(acks, f, alive) == alive \subseteq acks[f]

ClearAck_Forgotten(acks, f) == acks
ClearAck(acks, f) == [acks EXCEPT ![f] = {}]

ClearsAcked_OneFrame(k, h, t, acks, alive) ==
  k = IF h # t /\ AreAllAcked(acks, h, alive) THEN 1 ELSE 0

\* k is the number of frames clear_acked_frame takes off the send queue.
ClearsAcked(k, h, t, acks, alive) ==
  /\ k <= Queued(h, t)
  /\ \A i \in 0 .. k - 1 : AreAllAcked(acks, Advance(h, i), alive)
  /\ k < Queued(h, t) => ~AreAllAcked(acks, Advance(h, k), alive)

IsWaitingReceive_AnyInWindow(p, q, f) ==
  IsBetween(wait_to_receive[p][q], f, Advance(wait_to_receive[p][q], Window))
IsWaitingReceive_ShortWindow(p, q, f) ==
  /\ IsBetween(wait_to_receive[p][q], f, Advance(wait_to_receive[p][q], Window - 1))
  /\ f \notin recv_flag[p][q]

IsWaitingReceive(p, q, f) ==
  /\ IsBetween(wait_to_receive[p][q], f, Advance(wait_to_receive[p][q], Window))
  /\ f \notin recv_flag[p][q]

\* The flags cleared while wait_to_receive moves k frames on from w: at each,
\* the one before it.
ClearedBehind_None(w, k) == {}
ClearedBehind(w, k) == {Advance(w, i + MAX_QUEUE - 1) : i \in 0 .. k - 1}

IsRecvFull(p) == Len(receive_queue[p]) = MAX_RECV_QUEUE - 1

-----------------------------------------------------------------------------
(* The transport *)

Datagram(kind, p, q, f, n) ==
  [kind |-> kind, src |-> p, dst |-> q, frame_id |-> f, n |-> n]

\* The peer whose frame a datagram carries or acknowledges.
Owner(m) == IF m.kind = "SEND" THEN m.src ELSE m.dst

\* What is left in flight once p has broadcast total messages.
Unexpired(p, total) == {m \in net : Owner(m) = p => total - m.n <= Lifetime}

\* A datagram p can receive: its peer is connected and was not found lost.
Arrives(p, m) ==
  /\ m.dst = p
  /\ m.src \in dp_id[p]
  /\ dp_id[p] \subseteq link[p]

-----------------------------------------------------------------------------
Init ==
  /\ send_head = [p \in Peers |-> 0]
  /\ send_tail = [p \in Peers |-> 0]
  /\ ack_flag = [p \in Peers |-> [f \in FrameIds |-> {}]]
  /\ dp_id = [p \in Peers |-> Peers \ {p}]
  /\ wait_to_receive = [p \in Peers |-> [q \in Peers |-> 0]]
  /\ recv_flag = [p \in Peers |-> [q \in Peers |-> {}]]
  /\ receive_queue = [p \in Peers |-> <<>>]
  /\ link = [p \in Peers |-> Peers \ {p}]
  /\ net = {}
  /\ sent = [p \in Peers |-> 0]
  /\ freed = [p \in Peers |-> 0]
  /\ base = [p \in Peers |-> [q \in Peers |-> 0]]
  /\ got = [p \in Peers |-> [q \in Peers |-> {}]]

\* send(0, ...): a broadcast.  The calls that return early (nobody connected,
\* or less than half of the queue free) change nothing.  A datagram the
\* transport refuses is one that Lose takes at once.
Send(p) ==
  LET f == send_tail[p] IN
  /\ sent[p] < MaxSend[p]
  /\ dp_id[p] # {}
  /\ SendQueueSpace(p) >= Window
  /\ send_tail' = [send_tail EXCEPT ![p] = Advance(f, 1)]
  /\ ack_flag' = [ack_flag EXCEPT ![p] = ClearAck(@, f)]
  /\ sent' = [sent EXCEPT ![p] = @ + 1]
  /\ net' = Unexpired(p, sent[p] + 1)
              \cup {Datagram("SEND", p, q, f, sent[p]) : q \in link[p]}
  /\ UNCHANGED <<send_head, freed, recvVars, dp_id, link>>

Retransmitted_ToAcked(p, due, h, n, acks, alive) ==
  {Datagram("SEND", p, x.to, x.f, n + Queued(h, x.f)) :
     x \in {y \in [to : alive \cap link[p], f : due] : y.to \in acks[y.f]}}

\* re_transmit of the due frames, to every peer still counted that has not
\* acknowledged them.  The ordinal of frame f follows from its place in the
\* queue that starts with ordinal n at frame id h.
Retransmitted(p, due, h, n, acks, alive) ==
  {Datagram("SEND", p, x.to, x.f, n + Queued(h, x.f)) :
     x \in {y \in [to : alive \cap link[p], f : due] : y.to \notin acks[y.f]}}

\* The end of every yield(): clear_acked_frame(); re_transmit().  Which
\* frames have timed out is left open.  reply is what the call sent before.
EndOfYield(p, acks, alive, reply) ==
  \E k \in 0 .. MAX_QUEUE :
    LET h == Advance(send_head[p], k) IN
    /\ ClearsAcked(k, send_head[p], send_tail[p], acks, alive)
    /\ send_head' = [send_head EXCEPT ![p] = h]
    /\ freed' = [freed EXCEPT ![p] = @ + k]
    /\ \E due \in SUBSET Outstanding(h, send_tail[p]) :
         net' = net \cup reply
                  \cup Retransmitted(p, due, h, freed[p] + k, acks, alive)
    /\ UNCHANGED <<send_tail, sent>>

\* yield() without a datagram: set_player_lost for whoever the transport has
\* lost, then the end of yield().
Yield(p) ==
  /\ dp_id' = [dp_id EXCEPT ![p] = @ \cap link[p]]
  /\ EndOfYield(p, ack_flag[p], dp_id[p] \cap link[p], {})
  /\ UNCHANGED <<ack_flag, recvVars, link>>

\* FIRST_SEND or RE_SEND of a frame that is waited for, with room in the
\* receive queue: flag it, acknowledge it, move wait_to_receive past the
\* flagged frames (clearing the flag behind each), queue it.
AcceptSend(p, m) ==
  LET q == m.src
      w == wait_to_receive[p][q]
      flags == recv_flag[p][q] \cup {m.frame_id}
  IN
  /\ m \in net /\ m.kind = "SEND" /\ Arrives(p, m)
  /\ IsWaitingReceive(p, q, m.frame_id)
  /\ ~IsRecvFull(p)
  /\ \E k \in 0 .. MAX_QUEUE :
       /\ \A i \in 0 .. k - 1 : Advance(w, i) \in flags
       /\ IF m.frame_id = w THEN Advance(w, k) \notin flags ELSE k = 0
       /\ wait_to_receive' = [wait_to_receive EXCEPT ![p][q] = Advance(w, k)]
       /\ base' = [base EXCEPT ![p][q] = @ + k]
       /\ recv_flag' = [recv_flag EXCEPT ![p][q] =
            flags \ ClearedBehind(w, k)]
  /\ receive_queue' = [receive_queue EXCEPT ![p] =
                         Append(@, [src |-> q, n |-> m.n])]
  /\ got' = [got EXCEPT ![p][q] = @ \cup {m.n}]
  /\ EndOfYield(p, ack_flag[p], dp_id[p],
                {Datagram("ACKNOW", p, q, m.frame_id, m.n)})
  /\ UNCHANGED <<ack_flag, dp_id, link>>

DropSend_Acknowledged(p, m) ==
  /\ m \in net /\ m.kind = "SEND" /\ Arrives(p, m)
  /\ IsWaitingReceive(p, m.src, m.frame_id)
  /\ IsRecvFull(p)
  /\ EndOfYield(p, ack_flag[p], dp_id[p],
                {Datagram("ACKNOW", p, m.src, m.frame_id, m.n)})
  /\ UNCHANGED <<ack_flag, recvVars, dp_id, link>>

\* The receive queue is full: the frame is dropped and not acknowledged.
DropSend(p, m) ==
  /\ m \in net /\ m.kind = "SEND" /\ Arrives(p, m)
  /\ IsWaitingReceive(p, m.src, m.frame_id)
  /\ IsRecvFull(p)
  /\ EndOfYield(p, ack_flag[p], dp_id[p], {})
  /\ UNCHANGED <<ack_flag, recvVars, dp_id, link>>

\* A frame that is not waited for is taken for a redundant one: discarded,
\* and acknowledged again.
ReAckSend(p, m) ==
  /\ m \in net /\ m.kind = "SEND" /\ Arrives(p, m)
  /\ ~IsWaitingReceive(p, m.src, m.frame_id)
  /\ EndOfYield(p, ack_flag[p], dp_id[p],
                {Datagram("ACKNOW", p, m.src, m.frame_id, m.n)})
  /\ UNCHANGED <<ack_flag, recvVars, dp_id, link>>

ReceiveAck(p, m) ==
  LET acks == IF IsBetween(send_head[p], m.frame_id, send_tail[p])
              THEN [ack_flag[p] EXCEPT ![m.frame_id] = @ \cup {m.src}]
              ELSE ack_flag[p]
  IN
  /\ m \in net /\ m.kind = "ACKNOW" /\ Arrives(p, m)
  /\ ack_flag' = [ack_flag EXCEPT ![p] = acks]
  /\ EndOfYield(p, acks, dp_id[p], {})
  /\ UNCHANGED <<recvVars, dp_id, link>>

\* Resend the frame asked for, whether or not it was acknowledged.
ReceiveNegack(p, m) ==
  LET h == send_head[p]
      f == m.frame_id
  IN
  /\ m \in net /\ m.kind = "NEGACK" /\ Arrives(p, m)
  /\ EndOfYield(p, ack_flag[p], dp_id[p],
       IF IsBetween(h, f, send_tail[p])
       THEN {Datagram("SEND", p, m.src, f, freed[p] + Queued(h, f))}
       ELSE {})
  /\ UNCHANGED <<ack_flag, recvVars, dp_id, link>>

\* A data frame whose CRC is wrong: ask for the lowest missing frame.  (A
\* short frame with a wrong CRC is ignored, as if it were lost.)
ReceiveCorrupted(p, m) ==
  /\ m \in net /\ m.kind = "SEND" /\ Arrives(p, m)
  /\ EndOfYield(p, ack_flag[p], dp_id[p],
       {Datagram("NEGACK", p, m.src, wait_to_receive[p][m.src], base[p][m.src])})
  /\ UNCHANGED <<ack_flag, recvVars, dp_id, link>>

\* receive() and de_recv_queue() by the layer above.
Poll(p) ==
  /\ receive_queue[p] # <<>>
  /\ receive_queue' = [receive_queue EXCEPT ![p] = Tail(@)]
  /\ UNCHANGED <<sendVars, wait_to_receive, recv_flag, base, got, dp_id, link, net>>

\* The network loses a datagram.  A receipt leaves the datagram in flight, so
\* it may also be received again: as a duplicate, or as an identical resend.
Lose(m) ==
  /\ m \in net
  /\ net' = net \ {m}
  /\ UNCHANGED <<sendVars, recvVars, dp_id, link>>

\* p's transport gives up on q; nothing from q reaches p any more.
TransportLost(p, q) ==
  /\ q \in link[p]
  /\ link' = [link EXCEPT ![p] = @ \ {q}]
  /\ net' = {m \in net : ~(m.src = q /\ m.dst = p)}
  /\ UNCHANGED <<sendVars, recvVars, dp_id>>

Receive(p, m) ==
  \/ AcceptSend(p, m) \/ DropSend(p, m) \/ ReAckSend(p, m)
  \/ ReceiveAck(p, m) \/ ReceiveNegack(p, m) \/ ReceiveCorrupted(p, m)

Next ==
  \/ \E p \in Peers : Send(p) \/ Yield(p) \/ Poll(p)
  \/ \E p \in Peers, m \in net : Receive(p, m)
  \/ \E m \in net : Lose(m)
  \/ \E p, q \in Peers : TransportLost(p, q)

Spec == Init /\ [][Next]_vars

-----------------------------------------------------------------------------
(* Safety *)

\* The type invariant.
TypeOK ==
  /\ send_head \in [Peers -> FrameIds]
  /\ send_tail \in [Peers -> FrameIds]
  /\ ack_flag \in [Peers -> [FrameIds -> SUBSET Peers]]
  /\ dp_id \in [Peers -> SUBSET Peers]
  /\ wait_to_receive \in [Peers -> [Peers -> FrameIds]]
  /\ recv_flag \in [Peers -> [Peers -> SUBSET FrameIds]]
  /\ receive_queue \in [Peers -> Seq([src : Peers, n : Nat])]
  /\ link \in [Peers -> SUBSET Peers]
  /\ net \subseteq Datagrams
  /\ sent \in [Peers -> Nat]
  /\ freed \in [Peers -> Nat]
  /\ base \in [Peers -> [Peers -> Nat]]
  /\ got \in [Peers -> [Peers -> SUBSET Nat]]

\* What a sender believes is true: a frame it took off its queue, or has an
\* acknowledgement flag for, was accepted by that peer (as long as the peer
\* still counts).  The flags are set by frame id, and the receiver
\* acknowledges every frame it does not wait for, so this needs the half-queue
\* limit of send() and the receive window of is_waiting_receive() to agree.
NoFalseAck ==
  \A p \in Peers : \A q \in dp_id[p] : \A n \in 0 .. sent[p] - 1 :
     (n < freed[p] \/ q \in ack_flag[p][FrameId(n)]) => n \in got[q][p]

\* Every outstanding frame of a sender is one its receivers have accepted, or
\* lies in their receive window: is_waiting_receive() never discards, and
\* acknowledges, a frame that was still needed.
WindowsAgree ==
  \A p \in Peers : \A q \in dp_id[p] :
     /\ freed[p] <= base[q][p]
     /\ base[q][p] <= sent[p]
     /\ sent[p] <= base[q][p] + Window

\* The receiver's cyclic bookkeeping designates the right messages:
\* wait_to_receive is the lowest one missing, and the flags are exactly the
\* later ones that arrived early, and the last of the run before.
ReceiverTracksGaps ==
  \A p, q \in Peers : LET b == base[p][q] IN
     /\ wait_to_receive[p][q] = FrameId(b)
     /\ 0 .. b - 1 \subseteq got[p][q]
     /\ b \notin got[p][q]
     /\ recv_flag[p][q] =
          {FrameId(n) : n \in {i \in got[p][q] : i >= b - 1}}

\* The send queue is never clogged by its head: a frame at the head still
\* waits for somebody who counts.  Losing the last peer that had not
\* acknowledged it frees it too.
HeadIsAwaited ==
  \A p \in Peers : send_head[p] # send_tail[p] =>
     \E q \in dp_id[p] : q \notin ack_flag[p][send_head[p]]

\* No message is handed up twice, whatever the network duplicates, delays or
\* the sender resends, and although frame ids are reused.
AtMostOnce ==
  [][\A p \in Peers : Len(receive_queue'[p]) > Len(receive_queue[p]) =>
       LET m == receive_queue'[p][Len(receive_queue'[p])] IN
       /\ m.n \notin got[p][m.src]
       /\ m.n < sent[m.src]]_vars

-----------------------------------------------------------------------------
(* Refinement *)

Cast == INSTANCE ReliableCast WITH Capacity <- MAX_RECV_QUEUE - 1,
                                   members <- dp_id

\* ErrorControl implements the reliable broadcast Remote is written against:
\* datagrams, frame ids, acknowledgements and timers are hidden; sending is
\* Broadcast, accepting a frame is Deliver, finding players lost is
\* LosePlayers, and everything else is a stutter.
ImplementsReliableCast == Cast!Spec

-----------------------------------------------------------------------------
(* Liveness *)

\* A datagram about the oldest frame its owner has outstanding.
HeadFrame(m) == m.n = freed[Owner(m)]

HeadReceived(p, q) ==
  \E m \in net : m.src = q /\ HeadFrame(m) /\ (AcceptSend(p, m) \/ ReAckSend(p, m))

HeadAcknowledged(p, q) ==
  \E m \in net : m.src = q /\ HeadFrame(m) /\ ReceiveAck(p, m)

\* A yield() in which the head frame has timed out for somebody.
ResendHead(p) ==
  /\ Yield(p)
  /\ send_head[p] # send_tail[p]
  /\ \A q \in dp_id'[p] \ ack_flag[p][send_head[p]] :
       Datagram("SEND", p, q, send_head[p], freed[p]) \in net'

\* yield() is called in every turn of the main loop and time passes, so lost
\* players are noticed and the head frame is resent until it is
\* acknowledged; what is received is polled.  The network may lose
\* datagrams, but not every one of a frame resent for ever.  A connection
\* that one side gave up is given up by the other (ENet's time-out).
Fairness ==
  \A p \in Peers :
    /\ WF_vars(Yield(p) /\ dp_id'[p] # dp_id[p])
    /\ WF_vars(ResendHead(p))
    /\ WF_vars(Poll(p))
    /\ \A q \in Peers \ {p} :
         /\ SF_vars(HeadReceived(p, q))
         /\ SF_vars(HeadAcknowledged(p, q))
         /\ WF_vars(p \notin link[q] /\ TransportLost(p, q))

FairSpec == Spec /\ Fairness

\* Every message leaves the send queue, whatever datagrams are lost and
\* whichever peers go: send() does not stay blocked by a half-full queue.
EventuallyFreed ==
  \A p \in Peers : \A n \in 0 .. MaxSend[p] - 1 : sent[p] > n ~> freed[p] > n

\* Every message reaches every peer, unless one loses the other.
EventuallyDelivered ==
  \A p \in Peers : \A q \in Peers \ {p} : \A n \in 0 .. MaxSend[p] - 1 :
    sent[p] > n ~> (n \in got[q][p] \/ q \notin link[p] \/ p \notin link[q])
=============================================================================
