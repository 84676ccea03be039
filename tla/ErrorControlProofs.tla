------------------------- MODULE ErrorControlProofs -------------------------
(***************************************************************************)
(* Safety of ErrorControl, proved for any number of peers and any          *)
(* MAX_QUEUE, MAX_RECV_QUEUE and Lifetime that satisfy ECAssumption.       *)
(***************************************************************************)
EXTENDS ErrorControl, TLAPS

-----------------------------------------------------------------------------
(* Frame ids are ordinals modulo MAX_QUEUE. *)

LEMMA WindowFacts ==
  /\ MAX_QUEUE \in Nat /\ Window \in Nat /\ Lifetime \in Nat
  /\ MAX_QUEUE = 2 * Window /\ Window >= 2 /\ Lifetime <= Window
BY ECAssumption DEF Window

LEMMA FrameIdType == \A n \in Int : FrameId(n) \in 0 .. MAX_QUEUE - 1
BY ECAssumption DEF FrameId

LEMMA Quotient ==
  ASSUME NEW n \in Int
  PROVE  \E q \in Int : n = MAX_QUEUE * q + FrameId(n)
<1>1. n \div MAX_QUEUE \in Int /\ n = MAX_QUEUE * (n \div MAX_QUEUE) + FrameId(n)
  BY ECAssumption DEF FrameId
<1> QED BY <1>1

LEMMA MultipleGap ==
  ASSUME NEW a \in Int, NEW b \in Int, a < b
  PROVE  MAX_QUEUE * a + MAX_QUEUE <= MAX_QUEUE * b
BY ECAssumption

\* A number in 0 .. MAX_QUEUE-1 that differs from n by a multiple of MAX_QUEUE
\* is its frame id.
LEMMA FrameIdUnique ==
  ASSUME NEW n \in Int, NEW q \in Int, NEW r \in 0 .. MAX_QUEUE - 1,
         n = MAX_QUEUE * q + r
  PROVE  FrameId(n) = r
<1>1. PICK p \in Int : n = MAX_QUEUE * p + FrameId(n)
  BY Quotient
<1>2. FrameId(n) \in 0 .. MAX_QUEUE - 1
  BY FrameIdType
<1>3. CASE p = q
  BY <1>1, <1>2, <1>3, ECAssumption
<1>4. CASE p < q
  <2>1. MAX_QUEUE * p + MAX_QUEUE <= MAX_QUEUE * q
    BY <1>4, MultipleGap
  <2> QED BY <1>1, <1>2, <2>1, ECAssumption
<1>5. CASE q < p
  <2>1. MAX_QUEUE * q + MAX_QUEUE <= MAX_QUEUE * p
    BY <1>5, MultipleGap
  <2> QED BY <1>1, <1>2, <2>1, ECAssumption
<1> QED BY <1>3, <1>4, <1>5

\* Less than a full turn apart, frame ids are at the same distance, up to one
\* wrap around.  All that follows uses only this of FrameId.
LEMMA FrameIdDistance ==
  ASSUME NEW a \in Int, NEW b \in Int, a <= b, b < a + MAX_QUEUE
  PROVE  FrameId(b) = IF FrameId(a) + (b - a) < MAX_QUEUE
                      THEN FrameId(a) + (b - a)
                      ELSE FrameId(a) + (b - a) - MAX_QUEUE
<1>1. PICK q \in Int : a = MAX_QUEUE * q + FrameId(a)
  BY Quotient
<1>2. FrameId(a) \in 0 .. MAX_QUEUE - 1
  BY FrameIdType
<1>3. CASE FrameId(a) + (b - a) < MAX_QUEUE
  <2>1. /\ FrameId(a) + (b - a) \in 0 .. MAX_QUEUE - 1
        /\ b = MAX_QUEUE * q + (FrameId(a) + (b - a))
    BY <1>1, <1>2, <1>3, ECAssumption
  <2> QED BY <1>3, <2>1, FrameIdUnique
<1>4. CASE ~(FrameId(a) + (b - a) < MAX_QUEUE)
  <2> DEFINE r == FrameId(a) + (b - a) - MAX_QUEUE
  <2>1. r \in 0 .. MAX_QUEUE - 1
    BY <1>2, <1>4, ECAssumption
  <2>2. MAX_QUEUE * (q + 1) = MAX_QUEUE * q + MAX_QUEUE
    BY ECAssumption
  <2>3. b = MAX_QUEUE * (q + 1) + r
    BY <1>1, <1>2, <2>2, ECAssumption
  <2>4. FrameId(b) = r
    <3> HIDE DEF r
    <3> QED BY <2>1, <2>3, FrameIdUnique
  <2> QED BY <1>4, <2>4
<1> QED BY <1>3, <1>4

LEMMA FrameIdInjective ==
  ASSUME NEW a \in Int, NEW b \in Int, a < b + MAX_QUEUE, b < a + MAX_QUEUE,
         FrameId(a) = FrameId(b)
  PROVE  a = b
<1>1. FrameId(a) \in 0 .. MAX_QUEUE - 1 /\ FrameId(b) \in 0 .. MAX_QUEUE - 1
  BY FrameIdType
<1>2. CASE a <= b
  <2>1. FrameId(b) = IF FrameId(a) + (b - a) < MAX_QUEUE
                     THEN FrameId(a) + (b - a) ELSE FrameId(a) + (b - a) - MAX_QUEUE
    BY <1>2, FrameIdDistance
  <2> QED BY <1>1, <1>2, <2>1, ECAssumption
<1>3. CASE b <= a
  <2>1. FrameId(a) = IF FrameId(b) + (a - b) < MAX_QUEUE
                     THEN FrameId(b) + (a - b) ELSE FrameId(b) + (a - b) - MAX_QUEUE
    BY <1>3, FrameIdDistance
  <2> QED BY <1>1, <1>3, <2>1, ECAssumption
<1> QED BY <1>2, <1>3, ECAssumption

LEMMA FrameIdPeriodic ==
  ASSUME NEW n \in Int
  PROVE  FrameId(n + MAX_QUEUE) = FrameId(n)
<1>1. PICK q \in Int : n = MAX_QUEUE * q + FrameId(n)
  BY Quotient
<1>2. MAX_QUEUE * (q + 1) = MAX_QUEUE * q + MAX_QUEUE
  BY ECAssumption
<1>3. FrameId(n) \in 0 .. MAX_QUEUE - 1
  BY FrameIdType
<1>4. n + MAX_QUEUE = MAX_QUEUE * (q + 1) + FrameId(n) /\ n + MAX_QUEUE \in Int
  BY <1>1, <1>2, <1>3, ECAssumption
<1> QED BY <1>3, <1>4, FrameIdUnique

LEMMA AdvanceFrameId ==
  ASSUME NEW a \in Int, NEW k \in Int
  PROVE  Advance(FrameId(a), k) = FrameId(a + k)
<1>1. PICK q \in Int : a = MAX_QUEUE * q + FrameId(a)
  BY Quotient
<1>2. FrameId(a) \in Int /\ FrameId(a + k) \in 0 .. MAX_QUEUE - 1
  BY FrameIdType, ECAssumption
<1>3. PICK p \in Int : a + k = MAX_QUEUE * p + FrameId(a + k)
  BY Quotient
<1>4. MAX_QUEUE * (p - q) = MAX_QUEUE * p - MAX_QUEUE * q
  BY ECAssumption
<1>5. FrameId(a) + k = MAX_QUEUE * (p - q) + FrameId(a + k)
  BY <1>1, <1>2, <1>3, <1>4, ECAssumption
<1> QED BY <1>2, <1>5, FrameIdUnique DEF Advance

\* is_between on frame ids decides the order of the ordinals.
LEMMA BetweenFrameIds ==
  ASSUME NEW a \in Int, NEW b \in Int, a <= b, b < a + MAX_QUEUE,
         NEW n \in Int, b - MAX_QUEUE <= n, n < a + MAX_QUEUE
  PROVE  IsBetween(FrameId(a), FrameId(n), FrameId(b)) <=> a <= n /\ n < b
<1>1. /\ FrameId(a) \in 0 .. MAX_QUEUE - 1
      /\ FrameId(b) \in 0 .. MAX_QUEUE - 1
      /\ FrameId(n) \in 0 .. MAX_QUEUE - 1
  BY FrameIdType
<1>2. FrameId(b) = IF FrameId(a) + (b - a) < MAX_QUEUE
                   THEN FrameId(a) + (b - a) ELSE FrameId(a) + (b - a) - MAX_QUEUE
  BY FrameIdDistance
<1>3. CASE a <= n
  <2>1. FrameId(n) = IF FrameId(a) + (n - a) < MAX_QUEUE
                     THEN FrameId(a) + (n - a) ELSE FrameId(a) + (n - a) - MAX_QUEUE
    BY <1>3, FrameIdDistance
  <2> QED BY <1>1, <1>2, <1>3, <2>1, ECAssumption DEF IsBetween
<1>4. CASE n < a
  <2>1. CASE n + MAX_QUEUE = b
    <3>1. FrameId(n) = FrameId(b)
      BY <2>1, FrameIdPeriodic
    <3> QED BY <1>1, <1>2, <1>4, <2>1, <3>1, ECAssumption DEF IsBetween
  <2>2. CASE n + MAX_QUEUE # b
    <3>1. /\ FrameId(a) = IF FrameId(n) + (a - n) < MAX_QUEUE
                          THEN FrameId(n) + (a - n) ELSE FrameId(n) + (a - n) - MAX_QUEUE
          /\ FrameId(b) = IF FrameId(n) + (b - n) < MAX_QUEUE
                          THEN FrameId(n) + (b - n) ELSE FrameId(n) + (b - n) - MAX_QUEUE
      BY <1>4, <2>2, FrameIdDistance, ECAssumption
    <3> QED BY <1>1, <1>2, <1>4, <2>2, <3>1, ECAssumption DEF IsBetween
  <2> QED BY <2>1, <2>2
<1> QED BY <1>3, <1>4

LEMMA QueuedFrameIds ==
  ASSUME NEW a \in Int, NEW b \in Int, a <= b, b < a + MAX_QUEUE
  PROVE  Queued(FrameId(a), FrameId(b)) = b - a
<1>1. /\ FrameId(a) \in 0 .. MAX_QUEUE - 1
      /\ FrameId(b) \in 0 .. MAX_QUEUE - 1
  BY FrameIdType
<1>2. FrameId(b) = IF FrameId(a) + (b - a) < MAX_QUEUE
                   THEN FrameId(a) + (b - a) ELSE FrameId(a) + (b - a) - MAX_QUEUE
  BY FrameIdDistance
<1> QED BY <1>1, <1>2, ECAssumption DEF Queued

\* The frame found in the queue that starts with ordinal a has the ordinal its
\* place says.
LEMMA OrdinalOfFrame ==
  ASSUME NEW a \in Int, NEW b \in Int, a <= b, b < a + MAX_QUEUE,
         NEW f \in FrameIds, IsBetween(FrameId(a), f, FrameId(b))
  PROVE  LET n == a + Queued(FrameId(a), f) IN
         n \in Int /\ a <= n /\ n < b /\ FrameId(n) = f
<1> DEFINE n == a + Queued(FrameId(a), f)
<1>1. /\ FrameId(a) \in 0 .. MAX_QUEUE - 1
      /\ FrameId(b) \in 0 .. MAX_QUEUE - 1
  BY FrameIdType
<1>2. FrameId(b) = IF FrameId(a) + (b - a) < MAX_QUEUE
                   THEN FrameId(a) + (b - a) ELSE FrameId(a) + (b - a) - MAX_QUEUE
  BY FrameIdDistance
<1>3. n \in Int /\ a <= n /\ n < b
  BY <1>1, <1>2, ECAssumption DEF Queued, IsBetween, FrameIds
<1>4. FrameId(n) = IF FrameId(a) + (n - a) < MAX_QUEUE
                   THEN FrameId(a) + (n - a) ELSE FrameId(a) + (n - a) - MAX_QUEUE
  <2> HIDE DEF n
  <2>1. n \in Int /\ a <= n /\ n < a + MAX_QUEUE
    BY <1>3, ECAssumption
  <2> QED BY <2>1, FrameIdDistance
<1>5. FrameId(n) = f
  BY <1>1, <1>4, ECAssumption DEF Queued, FrameIds
<1> QED BY <1>3, <1>5

-----------------------------------------------------------------------------
(* The inductive invariant.  It ties the cyclic ids of the code to the       *)
(* ordinals they stand for, at the sender, at each receiver and in flight.   *)

SenderInv ==
  \A p \in Peers :
    /\ link[p] \subseteq dp_id[p]
    /\ send_head[p] = FrameId(freed[p])
    /\ send_tail[p] = FrameId(sent[p])
    /\ freed[p] <= sent[p]
    /\ sent[p] <= freed[p] + Window

RecvType ==
  /\ wait_to_receive \in [Peers -> [Peers -> FrameIds]]
  /\ recv_flag \in [Peers -> [Peers -> SUBSET FrameIds]]
  /\ receive_queue \in [Peers -> Seq([src : Peers, n : Nat])]
  /\ base \in [Peers -> [Peers -> Nat]]
  /\ got \in [Peers -> [Peers -> SUBSET Nat]]

\* What p accepted from q lies below q's count and p's receive window.
GotInv ==
  \A p, q \in Peers : \A n \in got[p][q] :
    n < sent[q] /\ n < base[p][q] + Window

\* A datagram in flight carries the id of a recent frame of its owner; a data
\* frame is not beyond the receive window, an acknowledgement is honest.
Good(m) ==
  /\ m.kind # "NEGACK" =>
       /\ m.frame_id = FrameId(m.n)
       /\ m.n < sent[Owner(m)]
       /\ sent[Owner(m)] <= m.n + Window
  /\ m.kind = "SEND" => m.n < base[m.dst][m.src] + Window
  /\ m.kind = "ACKNOW" => m.n \in got[m.src][m.dst]

NetInv == \A m \in net : Good(m)

IInv == TypeOK /\ SenderInv /\ NoFalseAck /\ ReceiverTracksGaps /\ GotInv /\ NetInv

\* A sender's window and the receive windows at its receivers agree because
\* it frees only what they all accepted.
LEMMA SendWindow ==
  ASSUME IInv
  PROVE  WindowsAgree
<1> SUFFICES ASSUME NEW p \in Peers, NEW q \in dp_id[p]
             PROVE  /\ freed[p] <= base[q][p]
                    /\ base[q][p] <= sent[p]
                    /\ sent[p] <= base[q][p] + Window
  BY DEF WindowsAgree
<1>1. /\ q \in Peers /\ freed[p] \in Nat /\ sent[p] \in Nat /\ base[q][p] \in Nat
  BY DEF IInv, TypeOK
<1>2. base[q][p] \notin got[q][p] /\ 0 .. base[q][p] - 1 \subseteq got[q][p]
  BY <1>1 DEF IInv, ReceiverTracksGaps
<1>3. freed[p] <= base[q][p]
  <2> SUFFICES ASSUME base[q][p] < freed[p] PROVE FALSE
    BY <1>1
  <2>1. base[q][p] \in 0 .. sent[p] - 1
    BY <1>1 DEF IInv, SenderInv
  <2> QED BY <1>2, <2>1 DEF IInv, NoFalseAck
<1>4. base[q][p] <= sent[p]
  <2> SUFFICES ASSUME sent[p] < base[q][p] PROVE FALSE
    BY <1>1
  <2>1. base[q][p] - 1 \in got[q][p]
    BY <1>1, <1>2
  <2> QED BY <1>1, <2>1 DEF IInv, GotInv
<1>5. sent[p] <= base[q][p] + Window
  BY <1>1, <1>3, WindowFacts DEF IInv, SenderInv
<1> QED BY <1>3, <1>4, <1>5

\* What the end of yield() does to the send queue and to the network.
LEMMA EndOfYieldFacts ==
  ASSUME TypeOK, SenderInv, NEW p \in Peers,
         NEW acks \in [FrameIds -> SUBSET Peers],
         NEW alive \in SUBSET Peers, NEW reply,
         EndOfYield(p, acks, alive, reply)
  PROVE  /\ send_head' \in [Peers -> FrameIds] /\ freed' \in [Peers -> Nat]
         /\ \A r \in Peers \ {p} : send_head'[r] = send_head[r] /\ freed'[r] = freed[r]
         /\ send_head'[p] = FrameId(freed'[p])
         /\ freed[p] <= freed'[p] /\ freed'[p] <= sent[p]
         /\ \A n \in freed[p] .. freed'[p] - 1 : alive \subseteq acks[FrameId(n)]
         /\ \A m \in net' \ (net \cup reply) :
              /\ m \in Datagrams /\ m.kind = "SEND" /\ m.src = p
              /\ m.dst \in link[p] /\ m.frame_id = FrameId(m.n)
              /\ freed[p] <= m.n /\ m.n < sent[p]
         /\ send_tail' = send_tail /\ sent' = sent
<1> DEFINE a == freed[p]
           b == sent[p]
<1>1. /\ a \in Nat /\ b \in Nat /\ a <= b /\ b <= a + Window /\ b < a + MAX_QUEUE
      /\ send_head[p] = FrameId(a) /\ send_tail[p] = FrameId(b)
  BY WindowFacts DEF TypeOK, SenderInv
<1>2. PICK k \in 0 .. MAX_QUEUE :
        /\ ClearsAcked(k, send_head[p], send_tail[p], acks, alive)
        /\ send_head' = [send_head EXCEPT ![p] = Advance(send_head[p], k)]
        /\ freed' = [freed EXCEPT ![p] = @ + k]
        /\ \E due \in SUBSET Outstanding(Advance(send_head[p], k), send_tail[p]) :
             net' = net \cup reply \cup
               Retransmitted(p, due, Advance(send_head[p], k), freed[p] + k, acks, alive)
  BY DEF EndOfYield
<1>3. send_tail' = send_tail /\ sent' = sent
  BY DEF EndOfYield
<1>4. k \in Nat /\ k <= b - a
  BY <1>1, <1>2, QueuedFrameIds, WindowFacts DEF ClearsAcked
<1>5. ASSUME NEW i \in Int PROVE Advance(send_head[p], i) = FrameId(a + i)
  <2>1. a \in Int
    BY <1>1
  <2>2. Advance(FrameId(a), i) = FrameId(a + i)
    BY <2>1, AdvanceFrameId
  <2> QED BY <1>1, <2>2
<1>6. a + k \in Int /\ FrameId(a + k) \in FrameIds
  <2>1. a + k \in Int
    BY <1>1, <1>4
  <2> QED BY <2>1, FrameIdType DEF FrameIds
<1>7. /\ send_head' \in [Peers -> FrameIds] /\ freed' \in [Peers -> Nat]
      /\ \A r \in Peers \ {p} : send_head'[r] = send_head[r] /\ freed'[r] = freed[r]
      /\ freed'[p] = a + k /\ send_head'[p] = FrameId(a + k)
  <2>1. Advance(send_head[p], k) = FrameId(a + k)
    BY <1>4, <1>5
  <2>2. a + k \in Nat
    BY <1>1, <1>4
  <2> QED BY <1>2, <1>6, <2>1, <2>2 DEF TypeOK
<1>8. ASSUME NEW n \in freed[p] .. freed'[p] - 1
      PROVE  alive \subseteq acks[FrameId(n)]
  <2>1. n - a \in 0 .. k - 1 /\ n - a \in Int /\ a + (n - a) = n
    BY <1>1, <1>4, <1>7
  <2>2. alive \subseteq acks[Advance(send_head[p], n - a)]
    BY <1>2, <2>1 DEF ClearsAcked, AreAllAcked
  <2> QED BY <2>1, <2>2, <1>5
<1>9. ASSUME NEW m \in net' \ (net \cup reply)
      PROVE  /\ m \in Datagrams /\ m.kind = "SEND" /\ m.src = p
             /\ m.dst \in link[p] /\ m.frame_id = FrameId(m.n)
             /\ freed[p] <= m.n /\ m.n < sent[p]
  <2>0. PICK due \in SUBSET Outstanding(Advance(send_head[p], k), send_tail[p]) :
          net' = net \cup reply \cup
            Retransmitted(p, due, Advance(send_head[p], k), freed[p] + k, acks, alive)
    BY <1>2
  <2>1. m \in Retransmitted(p, due, FrameId(a + k), a + k, acks, alive)
    BY <2>0, <1>4, <1>5
  <2>2. PICK x \in [to : alive \cap link[p], f : due] :
          m = Datagram("SEND", p, x.to, x.f, (a + k) + Queued(FrameId(a + k), x.f))
    BY <2>1 DEF Retransmitted
  <2>3. x.f \in FrameIds /\ IsBetween(FrameId(a + k), x.f, FrameId(b))
    BY <2>2, <1>1, <1>4, <1>5 DEF Outstanding
  <2> DEFINE n == (a + k) + Queued(FrameId(a + k), x.f)
  <2>4. n \in Int /\ a + k <= n /\ n < b /\ FrameId(n) = x.f
    BY <1>1, <1>4, <1>6, <2>3, OrdinalOfFrame, WindowFacts
  <2> HIDE DEF n
  <2>5. m = [kind |-> "SEND", src |-> p, dst |-> x.to, frame_id |-> x.f, n |-> n]
    BY <2>2 DEF n, Datagram
  <2>6. n \in Nat /\ x.to \in link[p] /\ x.to \in Peers
    BY <1>1, <1>4, <2>4 DEF TypeOK
  <2> QED BY <1>1, <1>4, <2>3, <2>4, <2>5, <2>6 DEF Datagrams
<1> QED BY <1>1, <1>3, <1>4, <1>7, <1>8, <1>9

\* Any yield() preserves the invariant if what it received is accounted for:
\* what it accepted, the acknowledgement flags it set, what it replied.
LEMMA YieldStep ==
  ASSUME IInv, NEW p \in Peers,
         NEW acks \in [FrameIds -> SUBSET Peers],
         NEW alive \in SUBSET Peers, NEW reply,
         link[p] \subseteq alive, alive \subseteq dp_id[p],
         EndOfYield(p, acks, alive, reply),
         ack_flag' = [ack_flag EXCEPT ![p] = acks],
         dp_id' = [dp_id EXCEPT ![p] = alive],
         link' = link,
         \A q \in alive : \A n \in 0 .. sent[p] - 1 :
           q \in acks[FrameId(n)] => n \in got[q][p],
         RecvType', ReceiverTracksGaps', GotInv',
         \A r, t \in Peers : got[r][t] \subseteq got'[r][t] /\ base[r][t] <= base'[r][t],
         \A m \in reply : m \in Datagrams /\ Good(m)'
  PROVE  IInv'
<1>1. /\ send_head' \in [Peers -> FrameIds] /\ freed' \in [Peers -> Nat]
      /\ \A r \in Peers \ {p} : send_head'[r] = send_head[r] /\ freed'[r] = freed[r]
      /\ send_head'[p] = FrameId(freed'[p])
      /\ freed[p] <= freed'[p] /\ freed'[p] <= sent[p]
      /\ \A n \in freed[p] .. freed'[p] - 1 : alive \subseteq acks[FrameId(n)]
      /\ \A m \in net' \ (net \cup reply) :
           /\ m \in Datagrams /\ m.kind = "SEND" /\ m.src = p
           /\ m.dst \in link[p] /\ m.frame_id = FrameId(m.n)
           /\ freed[p] <= m.n /\ m.n < sent[p]
      /\ send_tail' = send_tail /\ sent' = sent
  BY EndOfYieldFacts DEF IInv
<1>6. /\ \A r \in Peers : sent[r] \in Nat /\ freed[r] \in Nat /\ freed'[r] \in Nat
      /\ \A r, t \in Peers : base[r][t] \in Nat /\ base'[r][t] \in Nat
  <2>1. freed' \in [Peers -> Nat]
    BY <1>1
  <2>2. base' \in [Peers -> [Peers -> Nat]]
    BY DEF RecvType
  <2>3. /\ sent \in [Peers -> Nat] /\ freed \in [Peers -> Nat]
        /\ base \in [Peers -> [Peers -> Nat]]
    BY DEF IInv, TypeOK
  <2>4. \A r \in Peers : sent[r] \in Nat /\ freed[r] \in Nat /\ freed'[r] \in Nat
    BY <2>1, <2>3
  <2>5. \A r, t \in Peers : base[r][t] \in Nat /\ base'[r][t] \in Nat
    BY <2>2, <2>3
  <2> QED BY <2>4, <2>5
<1>2. TypeOK'
  <2>1. net' \subseteq Datagrams
    BY <1>1 DEF IInv, TypeOK
  <2> QED BY <1>1, <2>1 DEF IInv, TypeOK, RecvType
<1>3. SenderInv'
  <2> SUFFICES ASSUME NEW r \in Peers
               PROVE  /\ link[r] \subseteq dp_id'[r]
                      /\ send_head'[r] = FrameId(freed'[r])
                      /\ send_tail[r] = FrameId(sent[r])
                      /\ freed'[r] <= sent[r]
                      /\ sent[r] <= freed'[r] + Window
    BY <1>1 DEF SenderInv
  <2>1. /\ freed[r] \in Nat /\ freed'[r] \in Nat /\ sent[r] \in Nat
        /\ link[r] \subseteq dp_id[r] /\ send_head[r] = FrameId(freed[r])
        /\ send_tail[r] = FrameId(sent[r])
        /\ freed[r] <= sent[r] /\ sent[r] <= freed[r] + Window
    BY <1>1 DEF IInv, TypeOK, SenderInv
  <2>2. dp_id'[r] = IF r = p THEN alive ELSE dp_id[r]
    BY DEF IInv, TypeOK
  <2>3. CASE r = p
    BY <1>1, <2>1, <2>2, <2>3, WindowFacts
  <2>4. CASE r # p
    BY <1>1, <2>1, <2>2, <2>4
  <2> QED BY <2>3, <2>4
<1>4. NoFalseAck'
  <2> SUFFICES ASSUME NEW r \in Peers, NEW q \in dp_id'[r], NEW n \in 0 .. sent[r] - 1,
                      n < freed'[r] \/ q \in ack_flag'[r][FrameId(n)]
               PROVE  n \in got'[q][r]
    BY <1>1 DEF NoFalseAck
  <2>1. /\ dp_id'[r] = IF r = p THEN alive ELSE dp_id[r]
        /\ ack_flag'[r] = IF r = p THEN acks ELSE ack_flag[r]
    BY DEF IInv, TypeOK
  <2>2. q \in dp_id[r] /\ q \in Peers
    BY <2>1 DEF IInv, TypeOK
  <2>3. n \in got[q][r]
    <3>1. CASE r # p
      BY <1>1, <2>1, <2>2, <3>1 DEF IInv, NoFalseAck
    <3>2. CASE r = p /\ n < freed[p]
      BY <2>2, <3>2 DEF IInv, NoFalseAck
    <3>3. CASE r = p /\ ~(n < freed[p])
      <4>1. q \in alive
        BY <2>1, <3>3
      <4>2. q \in acks[FrameId(n)]
        <5>1. CASE n < freed'[p]
          <6>1. n \in freed[p] .. freed'[p] - 1
            BY <1>6, <3>3, <5>1
          <6> QED BY <1>1, <4>1, <6>1
        <5>2. CASE ~(n < freed'[p])
          BY <2>1, <3>3, <5>2
        <5> QED BY <5>1, <5>2
      <4> QED BY <3>3, <4>1, <4>2
    <3> QED BY <3>1, <3>2, <3>3
  <2> QED BY <2>2, <2>3
<1>5. NetInv'
  <2> SUFFICES ASSUME NEW m \in net' PROVE Good(m)'
    BY DEF NetInv
  <2>1. CASE m \in net
    <3>1. m \in Datagrams /\ Good(m)
      BY <2>1 DEF IInv, TypeOK, NetInv
    <3>2. m.src \in Peers /\ m.dst \in Peers /\ m.n \in Nat
      BY <3>1 DEF Datagrams
    <3>3. /\ got[m.src][m.dst] \subseteq got'[m.src][m.dst]
          /\ base[m.dst][m.src] <= base'[m.dst][m.src]
          /\ base[m.dst][m.src] \in Nat /\ base'[m.dst][m.src] \in Nat
      BY <3>2, <1>6
    <3> QED BY <1>1, <3>1, <3>2, <3>3, WindowFacts DEF Good, Owner
  <2>2. CASE m \in reply
    BY <2>2
  <2>3. CASE m \notin net \cup reply
    <3>1. /\ m \in Datagrams /\ m.kind = "SEND" /\ m.src = p
          /\ m.dst \in link[p] /\ m.frame_id = FrameId(m.n)
          /\ freed[p] <= m.n /\ m.n < sent[p]
      BY <1>1, <2>3
    <3>2. m.dst \in dp_id[p] /\ m.dst \in Peers /\ m.n \in Nat
      BY <3>1 DEF IInv, SenderInv, Datagrams
    <3>3. sent[p] <= base[m.dst][p] + Window /\ sent[p] <= freed[p] + Window
      BY <3>2, SendWindow DEF WindowsAgree, IInv, SenderInv
    <3>4. /\ base[m.dst][p] <= base'[m.dst][p]
          /\ base[m.dst][p] \in Nat /\ base'[m.dst][p] \in Nat
          /\ sent[p] \in Nat /\ freed[p] \in Nat
      BY <3>2, <1>6
    <3>5. Owner(m) = p
      BY <3>1 DEF Owner
    <3> QED BY <1>1, <3>1, <3>2, <3>3, <3>4, <3>5, WindowFacts DEF Good, Owner
  <2> QED BY <2>1, <2>2, <2>3
<1> QED BY <1>2, <1>3, <1>4, <1>5 DEF IInv

\* A yield() that accepts no message.
LEMMA QuietYield ==
  ASSUME IInv, NEW p \in Peers,
         NEW acks \in [FrameIds -> SUBSET Peers],
         NEW alive \in SUBSET Peers, NEW reply,
         link[p] \subseteq alive, alive \subseteq dp_id[p],
         EndOfYield(p, acks, alive, reply),
         ack_flag' = [ack_flag EXCEPT ![p] = acks],
         dp_id' = [dp_id EXCEPT ![p] = alive],
         UNCHANGED <<link, recvVars>>,
         \A q \in alive : \A n \in 0 .. sent[p] - 1 :
           q \in acks[FrameId(n)] => n \in got[q][p],
         \A m \in reply : m \in Datagrams /\ Good(m)
  PROVE  IInv'
<1>1. /\ wait_to_receive' = wait_to_receive /\ recv_flag' = recv_flag
      /\ receive_queue' = receive_queue /\ base' = base /\ got' = got
      /\ link' = link /\ sent' = sent
  BY DEF recvVars, EndOfYield
<1>2. RecvType' /\ ReceiverTracksGaps' /\ GotInv'
  <2>1. RecvType'
    BY <1>1 DEF IInv, TypeOK, RecvType
  <2>2. ReceiverTracksGaps'
    BY <1>1 DEF IInv, ReceiverTracksGaps
  <2>3. GotInv'
    BY <1>1 DEF IInv, GotInv
  <2> QED BY <2>1, <2>2, <2>3
<1>3. \A m \in reply : m \in Datagrams /\ Good(m)'
  BY <1>1 DEF Good, Owner
<1>4. \A r, t \in Peers : got[r][t] \subseteq got'[r][t] /\ base[r][t] <= base'[r][t]
  BY <1>1 DEF IInv, TypeOK
<1> QED BY <1>1, <1>2, <1>3, <1>4, YieldStep

\* The flags a peer already has satisfy what YieldStep asks of them.
LEMMA OldFlags ==
  ASSUME IInv, NEW p \in Peers
  PROVE  /\ ack_flag[p] \in [FrameIds -> SUBSET Peers]
         /\ dp_id[p] \in SUBSET Peers /\ link[p] \subseteq dp_id[p]
         /\ \A q \in dp_id[p] : \A n \in 0 .. sent[p] - 1 :
              q \in ack_flag[p][FrameId(n)] => n \in got[q][p]
         /\ ack_flag = [ack_flag EXCEPT ![p] = ack_flag[p]]
         /\ dp_id = [dp_id EXCEPT ![p] = dp_id[p]]
BY DEF IInv, TypeOK, SenderInv, NoFalseAck

\* A data frame that arrives belongs to the receive window or was accepted.
LEMMA ArrivingSend ==
  ASSUME IInv, NEW p \in Peers, NEW m \in net, m.kind = "SEND", m.dst = p
  PROVE  LET q == m.src
             b == base[p][q]
         IN /\ q \in Peers /\ b \in Nat /\ m.n \in Nat /\ m.n < b + Window
            /\ m.frame_id = FrameId(m.n) /\ m.frame_id \in FrameIds
            /\ m.n < sent[q] /\ sent[q] <= m.n + Window
            /\ IF IsWaitingReceive(p, q, m.frame_id)
               THEN b <= m.n /\ m.n \notin got[p][q]
               ELSE m.n \in got[p][q]
<1> DEFINE q == m.src
           b == base[p][q]
<1>1. /\ m \in Datagrams /\ Good(m) /\ Owner(m) = q
      /\ m.frame_id = FrameId(m.n) /\ m.n < sent[q] /\ sent[q] <= m.n + Window
      /\ m.n < b + Window
  BY DEF IInv, TypeOK, NetInv, Good, Owner
<1>2. /\ q \in Peers /\ m.n \in Nat /\ m.frame_id \in FrameIds
      /\ b \in Nat /\ sent[q] \in Nat /\ got[p][q] \subseteq Nat
  BY <1>1 DEF Datagrams, IInv, TypeOK
<1>3. /\ wait_to_receive[p][q] = FrameId(b)
      /\ 0 .. b - 1 \subseteq got[p][q] /\ b \notin got[p][q]
      /\ recv_flag[p][q] = {FrameId(n) : n \in {i \in got[p][q] : i >= b - 1}}
  BY <1>2 DEF IInv, ReceiverTracksGaps
<1>4. \A n \in got[p][q] : n < sent[q] /\ n < b + Window
  BY <1>2 DEF IInv, GotInv
<1>5. b <= sent[q]
  <2> SUFFICES ASSUME sent[q] < b PROVE FALSE
    BY <1>2
  <2>1. b - 1 \in got[p][q]
    BY <1>2, <1>3
  <2> QED BY <1>2, <1>4, <2>1
<1>6. IsBetween(FrameId(b), m.frame_id, Advance(FrameId(b), Window)) <=> b <= m.n
  <2>1. Advance(FrameId(b), Window) = FrameId(b + Window)
    <3>1. b \in Int /\ Window \in Int
      BY <1>2, WindowFacts
    <3> HIDE DEF b
    <3> QED BY <3>1, AdvanceFrameId
  <2>2. /\ b \in Int /\ b + Window \in Int /\ m.n \in Int
        /\ b <= b + Window /\ b + Window < b + MAX_QUEUE
        /\ b + Window - MAX_QUEUE <= m.n /\ m.n < b + MAX_QUEUE
    BY <1>1, <1>2, <1>5, WindowFacts
  <2>3. IsBetween(FrameId(b), FrameId(m.n), FrameId(b + Window)) <=> b <= m.n /\ m.n < b + Window
    <3> DEFINE c == b + Window
               n == m.n
    <3>1. /\ b \in Int /\ c \in Int /\ n \in Int
          /\ b <= c /\ c < b + MAX_QUEUE /\ c - MAX_QUEUE <= n /\ n < b + MAX_QUEUE
          /\ n < c
      BY <2>2, <1>1, <1>2, WindowFacts
    <3> HIDE DEF b, c, n
    <3>2. IsBetween(FrameId(b), FrameId(n), FrameId(c)) <=> b <= n /\ n < c
      BY <3>1, BetweenFrameIds
    <3> QED BY <3>2 DEF c, n
  <2> QED BY <1>1, <2>1, <2>3
<1>7. CASE IsWaitingReceive(p, q, m.frame_id)
  <2>1. b <= m.n
    BY <1>3, <1>6, <1>7 DEF IsWaitingReceive
  <2>2. m.n \notin got[p][q]
    BY <1>1, <1>2, <1>3, <1>7, <2>1 DEF IsWaitingReceive
  <2> QED BY <1>1, <1>2, <1>7, <2>1, <2>2
<1>8. CASE ~IsWaitingReceive(p, q, m.frame_id)
  <2>1. CASE b <= m.n
    <3>1. PICK n \in got[p][q] : n >= b - 1 /\ FrameId(n) = FrameId(m.n)
      BY <1>1, <1>3, <1>6, <1>8, <2>1 DEF IsWaitingReceive
    <3>2. n \in Int /\ m.n \in Int /\ n < m.n + MAX_QUEUE /\ m.n < n + MAX_QUEUE
      BY <1>1, <1>2, <1>4, <2>1, <3>1, WindowFacts
    <3>3. n = m.n
      BY <3>1, <3>2, FrameIdInjective
    <3> QED BY <1>1, <1>2, <1>8, <3>3
  <2>2. CASE m.n < b
    <3>1. m.n \in 0 .. b - 1
      BY <1>2, <2>2
    <3> QED BY <1>1, <1>2, <1>3, <1>8, <3>1
  <2> QED BY <1>2, <2>1, <2>2
<1> QED BY <1>7, <1>8

-----------------------------------------------------------------------------
(* Each action preserves the invariant. *)

LEMMA AcceptSendStep ==
  ASSUME IInv, NEW p \in Peers, NEW m \in net, AcceptSend(p, m)
  PROVE  IInv'
<1> DEFINE q == m.src
           b == base[p][q]
           flags == recv_flag[p][q] \cup {m.frame_id}
           G == got[p][q] \cup {m.n}
<1>1. /\ q \in Peers /\ b \in Nat /\ m.n \in Nat /\ m.n < b + Window
      /\ m.frame_id = FrameId(m.n) /\ m.frame_id \in FrameIds
      /\ m.n < sent[q] /\ sent[q] <= m.n + Window
      /\ b <= m.n /\ m.n \notin got[p][q]
      /\ m.kind = "SEND" /\ m.dst = p
  BY ArrivingSend DEF AcceptSend, Arrives
<1>2. PICK k \in 0 .. MAX_QUEUE :
        /\ \A i \in 0 .. k - 1 : Advance(FrameId(b), i) \in flags
        /\ IF m.frame_id = FrameId(b) THEN Advance(FrameId(b), k) \notin flags ELSE k = 0
        /\ wait_to_receive' = [wait_to_receive EXCEPT ![p][q] = Advance(FrameId(b), k)]
        /\ base' = [base EXCEPT ![p][q] = @ + k]
        /\ recv_flag' = [recv_flag EXCEPT ![p][q] = flags \ ClearedBehind(FrameId(b), k)]
  <2>1. wait_to_receive[p][q] = FrameId(b)
    BY <1>1 DEF IInv, ReceiverTracksGaps
  <2> QED BY <2>1 DEF AcceptSend
<1>3. /\ receive_queue' = [receive_queue EXCEPT ![p] = Append(@, [src |-> q, n |-> m.n])]
      /\ got' = [got EXCEPT ![p][q] = @ \cup {m.n}]
      /\ EndOfYield(p, ack_flag[p], dp_id[p], {Datagram("ACKNOW", p, q, m.frame_id, m.n)})
      /\ ack_flag' = ack_flag /\ dp_id' = dp_id /\ link' = link
  BY DEF AcceptSend
<1>4. /\ 0 .. b - 1 \subseteq got[p][q] /\ b \notin got[p][q]
      /\ recv_flag[p][q] = {FrameId(n) : n \in {i \in got[p][q] : i >= b - 1}}
  BY <1>1 DEF IInv, ReceiverTracksGaps
<1>5. /\ G \subseteq Nat
      /\ \A n \in G : n < sent[q] /\ n < b + Window
  BY <1>1 DEF IInv, TypeOK, GotInv
<1>6. flags = {FrameId(n) : n \in {i \in G : i >= b - 1}}
  BY <1>1, <1>4
<1>7. ASSUME NEW i \in Int PROVE Advance(FrameId(b), i) = FrameId(b + i)
  <2>1. b \in Int
    BY <1>1
  <2> HIDE DEF b
  <2> QED BY <2>1, AdvanceFrameId
\* A flagged id within a turn of base stands for a message accepted.
<1>8. ASSUME NEW i \in 0 .. Window, FrameId(b + i) \in flags
      PROVE  b + i \in G
  <2>1. PICK n \in G : n >= b - 1 /\ FrameId(n) = FrameId(b + i)
    BY <1>6, <1>8
  <2>2. /\ n \in Int /\ b + i \in Int
        /\ n < (b + i) + MAX_QUEUE /\ b + i < n + MAX_QUEUE
    BY <1>1, <1>5, <2>1, WindowFacts
  <2> DEFINE c == b + i
  <2> HIDE DEF c, b
  <2>3. n = c
    BY <2>1, <2>2, FrameIdInjective DEF c
  <2> QED BY <2>3 DEF c
<1>9. k \in Nat /\ k <= Window
  <2> SUFFICES ASSUME k > Window PROVE FALSE
    BY WindowFacts
  <2>1. Window \in 0 .. k - 1 /\ Window \in 0 .. Window
    BY WindowFacts
  <2>2. FrameId(b + Window) \in flags
    BY <1>2, <1>7, <2>1
  <2>3. b + Window \in G
    BY <1>8, <2>1, <2>2
  <2> QED BY <1>1, <1>5, <2>3, WindowFacts
<1>10. 0 .. (b + k) - 1 \subseteq G
  <2> SUFFICES ASSUME NEW n \in 0 .. (b + k) - 1, n >= b PROVE n \in G
    BY <1>1, <1>4, <1>9
  <2>1. n - b \in 0 .. k - 1 /\ n - b \in 0 .. Window /\ b + (n - b) = n
    BY <1>1, <1>9, WindowFacts
  <2>2. FrameId(b + (n - b)) \in flags
    BY <1>2, <1>7, <2>1
  <2> QED BY <1>8, <2>1, <2>2
<1>11. b + k \notin G
  <2>1. CASE m.frame_id = FrameId(b)
    <3>1. FrameId(b + k) \notin flags
      BY <1>2, <1>7, <1>9, <2>1
    <3> QED BY <1>1, <1>6, <1>9, <3>1
  <2>2. CASE m.frame_id # FrameId(b)
    <3>1. k = 0 /\ m.n # b
      BY <1>1, <1>2, <2>2
    <3> QED BY <1>1, <1>4, <3>1
  <2> QED BY <2>1, <2>2
<1>12. flags \ ClearedBehind(FrameId(b), k) = {FrameId(n) : n \in {i \in G : i >= (b + k) - 1}}
  <2>1. ASSUME NEW i \in 0 .. k - 1
        PROVE  Advance(FrameId(b), i + MAX_QUEUE - 1) = FrameId(b + i - 1)
    <3>1. Advance(FrameId(b), i + MAX_QUEUE - 1) = FrameId(b + (i + MAX_QUEUE - 1))
      BY <1>7, WindowFacts
    <3>2. b + i - 1 \in Int /\ b + (i + MAX_QUEUE - 1) = (b + i - 1) + MAX_QUEUE
      BY <1>1, WindowFacts
    <3> QED BY <3>1, <3>2, FrameIdPeriodic
  <2>2. ClearedBehind(FrameId(b), k) = {FrameId(b + i - 1) : i \in 0 .. k - 1}
    BY <2>1 DEF ClearedBehind
  <2>3. ASSUME NEW n \in G, n >= b - 1
        PROVE  FrameId(n) \in {FrameId(b + i - 1) : i \in 0 .. k - 1} <=> n < (b + k) - 1
    <3>1. CASE n < (b + k) - 1
      <4>1. n - b + 1 \in 0 .. k - 1 /\ b + (n - b + 1) - 1 = n
        BY <1>1, <1>5, <1>9, <2>3, <3>1
      <4> QED BY <3>1, <4>1
    <3>2. CASE ~(n < (b + k) - 1)
      <4>1. ASSUME NEW i \in 0 .. k - 1, FrameId(n) = FrameId(b + i - 1)
            PROVE  FALSE
        <5> DEFINE c == b + i - 1
        <5>1. /\ n \in Int /\ c \in Int /\ n < c + MAX_QUEUE /\ c < n + MAX_QUEUE /\ n # c
          BY <1>1, <1>5, <1>9, <2>3, <3>2, WindowFacts
        <5> HIDE DEF c
        <5>2. FrameId(n) = FrameId(c)
          BY <4>1 DEF c
        <5> QED BY <5>1, <5>2, FrameIdInjective
      <4> QED BY <3>2, <4>1
    <3> QED BY <3>1, <3>2
  <2>4. \A n \in G : n \in Int
    BY <1>5
  <2> QED BY <1>1, <1>6, <1>9, <2>2, <2>3, <2>4
<1>13. /\ base'[p][q] = b + k /\ wait_to_receive'[p][q] = FrameId(b + k)
       /\ got'[p][q] = G
       /\ recv_flag'[p][q] = {FrameId(n) : n \in {i \in G : i >= (b + k) - 1}}
  <2>1. Advance(FrameId(b), k) = FrameId(b + k)
    BY <1>7, <1>9
  <2>2. /\ base'[p][q] = b + k /\ got'[p][q] = G
        /\ wait_to_receive'[p][q] = Advance(FrameId(b), k)
        /\ recv_flag'[p][q] = flags \ ClearedBehind(FrameId(b), k)
    BY <1>1, <1>2, <1>3 DEF IInv, TypeOK
  <2> QED BY <2>1, <2>2, <1>12
<1>14. \A r, t \in Peers : r # p \/ t # q =>
         /\ base'[r][t] = base[r][t] /\ wait_to_receive'[r][t] = wait_to_receive[r][t]
         /\ got'[r][t] = got[r][t] /\ recv_flag'[r][t] = recv_flag[r][t]
  BY <1>2, <1>3 DEF IInv, TypeOK
<1>15. RecvType'
  <2>0. b + k \in Nat /\ b + k \in Int
    BY <1>1, <1>9
  <2>1. FrameId(b + k) \in FrameIds /\ flags \subseteq FrameIds
    <3>1. FrameId(b + k) \in FrameIds
      BY <2>0, FrameIdType DEF FrameIds
    <3>2. recv_flag[p][q] \subseteq FrameIds
      BY <1>1 DEF IInv, TypeOK
    <3> QED BY <1>1, <3>1, <3>2
  <2>2. receive_queue' \in [Peers -> Seq([src : Peers, n : Nat])]
    BY <1>1, <1>3 DEF IInv, TypeOK
  <2>3. Advance(FrameId(b), k) \in FrameIds
    BY <1>7, <1>9, <2>1
  <2>4. /\ wait_to_receive' \in [Peers -> [Peers -> FrameIds]]
        /\ recv_flag' \in [Peers -> [Peers -> SUBSET FrameIds]]
    BY <1>1, <1>2, <2>1, <2>3 DEF IInv, TypeOK
  <2>5. /\ base' \in [Peers -> [Peers -> Nat]]
        /\ got' \in [Peers -> [Peers -> SUBSET Nat]]
    BY <1>1, <1>2, <1>3, <1>9 DEF IInv, TypeOK
  <2> QED BY <2>2, <2>4, <2>5 DEF RecvType
<1>16. sent' = sent
  BY <1>3 DEF EndOfYield
<1>17. ReceiverTracksGaps'
  <2> SUFFICES ASSUME NEW r \in Peers, NEW t \in Peers
               PROVE  /\ wait_to_receive'[r][t] = FrameId(base'[r][t])
                      /\ 0 .. base'[r][t] - 1 \subseteq got'[r][t]
                      /\ base'[r][t] \notin got'[r][t]
                      /\ recv_flag'[r][t] =
                           {FrameId(n) : n \in {i \in got'[r][t] : i >= base'[r][t] - 1}}
    BY DEF ReceiverTracksGaps
  <2>1. CASE r = p /\ t = q
    BY <1>10, <1>11, <1>13, <2>1
  <2>2. CASE r # p \/ t # q
    BY <1>14, <2>2 DEF IInv, ReceiverTracksGaps
  <2> QED BY <2>1, <2>2
<1>18. GotInv'
  <2> SUFFICES ASSUME NEW r \in Peers, NEW t \in Peers, NEW n \in got'[r][t]
               PROVE  n < sent[t] /\ n < base'[r][t] + Window
    BY <1>16 DEF GotInv
  <2>1. CASE r = p /\ t = q
    BY <1>1, <1>5, <1>9, <1>13, <2>1, WindowFacts
  <2>2. CASE r # p \/ t # q
    BY <1>14, <2>2 DEF IInv, GotInv
  <2> QED BY <2>1, <2>2
<1>19. \A r, t \in Peers : got[r][t] \subseteq got'[r][t] /\ base[r][t] <= base'[r][t]
  <2> SUFFICES ASSUME NEW r \in Peers, NEW t \in Peers
               PROVE  got[r][t] \subseteq got'[r][t] /\ base[r][t] <= base'[r][t]
    OBVIOUS
  <2>1. base[r][t] \in Nat
    BY DEF IInv, TypeOK
  <2>2. CASE r = p /\ t = q
    BY <1>1, <1>9, <1>13, <2>2
  <2>3. CASE r # p \/ t # q
    BY <1>14, <2>1, <2>3
  <2> QED BY <2>2, <2>3
<1>20. \A d \in {Datagram("ACKNOW", p, q, m.frame_id, m.n)} : d \in Datagrams /\ Good(d)'
  BY <1>1, <1>13, <1>16 DEF Datagram, Datagrams, Good, Owner
<1> HIDE DEF q
<1> QED BY <1>3, <1>15, <1>17, <1>18, <1>19, <1>20, OldFlags, YieldStep

LEMMA DropSendStep ==
  ASSUME IInv, NEW p \in Peers, NEW m \in net, DropSend(p, m)
  PROVE  IInv'
<1>1. /\ EndOfYield(p, ack_flag[p], dp_id[p], {})
      /\ ack_flag' = ack_flag /\ dp_id' = dp_id /\ UNCHANGED <<link, recvVars>>
  BY DEF DropSend
<1> QED BY <1>1, OldFlags, QuietYield

LEMMA ReAckSendStep ==
  ASSUME IInv, NEW p \in Peers, NEW m \in net, ReAckSend(p, m)
  PROVE  IInv'
<1> DEFINE d == Datagram("ACKNOW", p, m.src, m.frame_id, m.n)
<1>1. /\ EndOfYield(p, ack_flag[p], dp_id[p], {d})
      /\ ack_flag' = ack_flag /\ dp_id' = dp_id /\ UNCHANGED <<link, recvVars>>
      /\ m.kind = "SEND" /\ m.dst = p /\ ~IsWaitingReceive(p, m.src, m.frame_id)
  BY DEF ReAckSend, Arrives
<1>2. /\ m.src \in Peers /\ m.n \in Nat /\ m.frame_id = FrameId(m.n)
      /\ m.frame_id \in FrameIds /\ m.n < sent[m.src] /\ sent[m.src] <= m.n + Window
      /\ m.n \in got[p][m.src]
  BY <1>1, ArrivingSend
<1>3. d \in Datagrams /\ Good(d)
  BY <1>2 DEF Datagram, Datagrams, Good, Owner
<1> HIDE DEF d
<1> QED BY <1>1, <1>3, OldFlags, QuietYield

LEMMA ReceiveAckStep ==
  ASSUME IInv, NEW p \in Peers, NEW m \in net, ReceiveAck(p, m)
  PROVE  IInv'
<1> DEFINE acks == IF IsBetween(send_head[p], m.frame_id, send_tail[p])
                   THEN [ack_flag[p] EXCEPT ![m.frame_id] = @ \cup {m.src}]
                   ELSE ack_flag[p]
<1>1. /\ EndOfYield(p, acks, dp_id[p], {})
      /\ ack_flag' = [ack_flag EXCEPT ![p] = acks]
      /\ dp_id' = dp_id /\ UNCHANGED <<link, recvVars>>
      /\ m.kind = "ACKNOW" /\ m.dst = p
  BY DEF ReceiveAck, Arrives
<1>2. m \in Datagrams /\ Good(m) /\ Owner(m) = p
  BY <1>1 DEF IInv, TypeOK, NetInv, Owner
<1>3. /\ m.src \in Peers /\ m.n \in Nat /\ m.frame_id \in FrameIds
      /\ m.frame_id = FrameId(m.n) /\ m.n < sent[p] /\ sent[p] <= m.n + Window
      /\ m.n \in got[m.src][p] /\ sent[p] \in Nat
  BY <1>1, <1>2 DEF Datagrams, Good, IInv, TypeOK
<1>4. acks \in [FrameIds -> SUBSET Peers]
  BY <1>3 DEF IInv, TypeOK
<1>5. ASSUME NEW q \in dp_id[p], NEW n \in 0 .. sent[p] - 1, q \in acks[FrameId(n)]
      PROVE  n \in got[q][p]
  <2>1. CASE n < freed[p] \/ q \in ack_flag[p][FrameId(n)]
    BY <2>1 DEF IInv, NoFalseAck
  <2>2. CASE ~(n < freed[p]) /\ q \notin ack_flag[p][FrameId(n)]
    <3>1. FrameId(n) = FrameId(m.n) /\ q = m.src
      <4>1. FrameId(n) \in FrameIds
        BY FrameIdType DEF FrameIds
      <4> QED BY <1>3, <1>5, <2>2, <4>1 DEF IInv, TypeOK
    <3>2. freed[p] \in Nat /\ sent[p] <= freed[p] + Window
      BY DEF IInv, TypeOK, SenderInv
    <3> DEFINE c == m.n
    <3>3. n \in Int /\ c \in Int /\ n < c + MAX_QUEUE /\ c < n + MAX_QUEUE
      BY <1>3, <2>2, <3>2, WindowFacts
    <3>4. FrameId(n) = FrameId(c) /\ c \in got[q][p]
      BY <1>3, <3>1
    <3> HIDE DEF c
    <3>5. n = c
      BY <3>3, <3>4, FrameIdInjective
    <3> QED BY <3>4, <3>5
  <2> QED BY <2>1, <2>2
<1>6. /\ dp_id[p] \in SUBSET Peers /\ link[p] \subseteq dp_id[p]
      /\ dp_id' = [dp_id EXCEPT ![p] = dp_id[p]]
  BY <1>1, OldFlags
<1>7. \A q \in dp_id[p] : \A n \in 0 .. sent[p] - 1 :
        q \in acks[FrameId(n)] => n \in got[q][p]
  BY <1>5
<1> DEFINE reply == {}
<1>8. /\ EndOfYield(p, acks, dp_id[p], reply)
      /\ \A d \in reply : d \in Datagrams /\ Good(d)
  BY <1>1
<1> HIDE DEF acks, reply
<1> QED BY <1>1, <1>4, <1>6, <1>7, <1>8, QuietYield

LEMMA ReceiveNegackStep ==
  ASSUME IInv, NEW p \in Peers, NEW m \in net, ReceiveNegack(p, m)
  PROVE  IInv'
<1> DEFINE f == m.frame_id
           reply == IF IsBetween(send_head[p], f, send_tail[p])
                    THEN {Datagram("SEND", p, m.src, f, freed[p] + Queued(send_head[p], f))}
                    ELSE {}
<1>1. /\ EndOfYield(p, ack_flag[p], dp_id[p], reply)
      /\ ack_flag' = ack_flag /\ dp_id' = dp_id /\ UNCHANGED <<link, recvVars>>
      /\ m.src \in dp_id[p]
  BY DEF ReceiveNegack, Arrives
<1>2. ASSUME NEW d \in reply PROVE d \in Datagrams /\ Good(d)
  <2> DEFINE a == freed[p]
             b == sent[p]
             n == a + Queued(FrameId(a), f)
  <2>1. /\ a \in Nat /\ b \in Nat /\ a <= b /\ b <= a + Window /\ b < a + MAX_QUEUE
        /\ send_head[p] = FrameId(a) /\ send_tail[p] = FrameId(b)
    BY WindowFacts DEF IInv, TypeOK, SenderInv
  <2>2. /\ f \in FrameIds /\ IsBetween(FrameId(a), f, FrameId(b))
        /\ d = Datagram("SEND", p, m.src, f, n)
    BY <1>2, <2>1 DEF IInv, TypeOK, Datagrams
  <2>3. n \in Int /\ a <= n /\ n < b /\ FrameId(n) = f
    <3> HIDE DEF f
    <3> QED BY <2>1, <2>2, OrdinalOfFrame
  <2>4. /\ m.src \in Peers /\ b <= base[m.src][p] + Window /\ base[m.src][p] \in Nat
    BY <1>1, SendWindow DEF WindowsAgree, IInv, TypeOK
  <2>5. n \in Nat /\ n < base[m.src][p] + Window /\ b <= n + Window
    BY <2>1, <2>3, <2>4, WindowFacts
  <2> HIDE DEF n
  <2> QED BY <2>1, <2>2, <2>3, <2>4, <2>5 DEF Datagram, Datagrams, Good, Owner
<1> HIDE DEF reply
<1> QED BY <1>1, <1>2, OldFlags, QuietYield

LEMMA ReceiveCorruptedStep ==
  ASSUME IInv, NEW p \in Peers, NEW m \in net, ReceiveCorrupted(p, m)
  PROVE  IInv'
<1> DEFINE d == Datagram("NEGACK", p, m.src, wait_to_receive[p][m.src], base[p][m.src])
<1>1. /\ EndOfYield(p, ack_flag[p], dp_id[p], {d})
      /\ ack_flag' = ack_flag /\ dp_id' = dp_id /\ UNCHANGED <<link, recvVars>>
      /\ m.src \in dp_id[p]
  BY DEF ReceiveCorrupted, Arrives
<1>2. d \in Datagrams /\ Good(d)
  <2>1. /\ m.src \in Peers /\ wait_to_receive[p][m.src] \in FrameIds
        /\ base[p][m.src] \in Nat
    BY <1>1 DEF IInv, TypeOK
  <2> QED BY <2>1 DEF Datagram, Datagrams, Good
<1> HIDE DEF d
<1> QED BY <1>1, <1>2, OldFlags, QuietYield

LEMMA PlainYieldStep ==
  ASSUME IInv, NEW p \in Peers, Yield(p)
  PROVE  IInv'
<1> DEFINE alive == dp_id[p] \cap link[p]
<1>1. /\ EndOfYield(p, ack_flag[p], alive, {})
      /\ dp_id' = [dp_id EXCEPT ![p] = alive]
      /\ ack_flag' = ack_flag /\ UNCHANGED <<link, recvVars>>
  BY DEF Yield
<1>2. alive \in SUBSET Peers /\ link[p] \subseteq alive /\ alive \subseteq dp_id[p]
  BY OldFlags
<1>3. /\ ack_flag[p] \in [FrameIds -> SUBSET Peers]
      /\ ack_flag' = [ack_flag EXCEPT ![p] = ack_flag[p]]
      /\ \A q \in alive : \A n \in 0 .. sent[p] - 1 :
           q \in ack_flag[p][FrameId(n)] => n \in got[q][p]
  BY <1>1, OldFlags
<1> DEFINE acks == ack_flag[p]
           reply == {}
<1>4. /\ EndOfYield(p, acks, alive, reply)
      /\ \A d \in reply : d \in Datagrams /\ Good(d)
  BY <1>1
<1>5. /\ acks \in [FrameIds -> SUBSET Peers]
      /\ ack_flag' = [ack_flag EXCEPT ![p] = acks]
      /\ \A q \in alive : \A n \in 0 .. sent[p] - 1 :
           q \in acks[FrameId(n)] => n \in got[q][p]
  BY <1>3
<1> HIDE DEF alive, acks, reply
<1> QED BY <1>1, <1>2, <1>4, <1>5, QuietYield

LEMMA SendStep ==
  ASSUME IInv, NEW p \in Peers, Send(p)
  PROVE  IInv'
<1>0. PICK n \in Nat, f \in FrameIds : n = sent[p] /\ f = send_tail[p]
  BY DEF IInv, TypeOK
<1>1. /\ n \in Nat /\ freed[p] \in Nat /\ freed[p] <= n /\ n <= freed[p] + Window
      /\ send_head[p] = FrameId(freed[p]) /\ f = FrameId(n) /\ f \in FrameIds
      /\ link[p] \subseteq dp_id[p] /\ dp_id[p] \subseteq Peers
  BY <1>0 DEF IInv, TypeOK, SenderInv
<1>2. /\ send_tail' = [send_tail EXCEPT ![p] = Advance(f, 1)]
      /\ ack_flag' = [ack_flag EXCEPT ![p] = ClearAck(@, f)]
      /\ sent' = [sent EXCEPT ![p] = n + 1]
      /\ net' = Unexpired(p, n + 1) \cup {Datagram("SEND", p, q, f, n) : q \in link[p]}
      /\ SendQueueSpace(p) >= Window
      /\ send_head' = send_head /\ freed' = freed /\ dp_id' = dp_id /\ link' = link
      /\ wait_to_receive' = wait_to_receive /\ recv_flag' = recv_flag
      /\ receive_queue' = receive_queue /\ base' = base /\ got' = got
  BY <1>0 DEF Send, recvVars
<1>3. n + 1 <= freed[p] + Window
  <2>1. Queued(FrameId(freed[p]), FrameId(n)) = n - freed[p]
    BY <1>1, QueuedFrameIds, WindowFacts
  <2> QED BY <1>0, <1>1, <1>2, <2>1, WindowFacts DEF SendQueueSpace
<1>4. Advance(f, 1) = FrameId(n + 1) /\ FrameId(n + 1) \in FrameIds
  <2>1. n \in Int /\ n + 1 \in Int
    BY <1>1
  <2> QED BY <1>1, <2>1, AdvanceFrameId, FrameIdType DEF FrameIds
<1>5. /\ \A r \in Peers : sent'[r] = IF r = p THEN n + 1 ELSE sent[r]
      /\ \A r \in Peers : send_tail'[r] = IF r = p THEN FrameId(n + 1) ELSE send_tail[r]
      /\ \A r \in Peers : ack_flag'[r] =
           IF r = p THEN [ack_flag[p] EXCEPT ![f] = {}] ELSE ack_flag[r]
  BY <1>2, <1>4 DEF IInv, TypeOK, ClearAck
<1>6. ASSUME NEW m \in net'
      PROVE  \/ /\ m \in net
                /\ Owner(m) = p => (n + 1) - m.n <= Lifetime
             \/ \E q \in link[p] : m = Datagram("SEND", p, q, f, n)
  <2>1. m \in Unexpired(p, n + 1) \/ m \in {Datagram("SEND", p, q, f, n) : q \in link[p]}
    BY <1>2
  <2>2. ASSUME m \in Unexpired(p, n + 1)
        PROVE  m \in net /\ (Owner(m) = p => (n + 1) - m.n <= Lifetime)
    <3> DEFINE total == n + 1
    <3>1. m \in Unexpired(p, total)
      BY <2>2
    <3> HIDE DEF total
    <3>2. m \in net /\ (Owner(m) = p => total - m.n <= Lifetime)
      BY <3>1 DEF Unexpired
    <3> QED BY <3>2 DEF total
  <2> QED BY <2>1, <2>2
<1>7. ASSUME NEW q \in link[p]
      PROVE  /\ Datagram("SEND", p, q, f, n) \in Datagrams
             /\ Good(Datagram("SEND", p, q, f, n))'
  <2>1. q \in dp_id[p] /\ q \in Peers
    BY <1>1
  <2>2. base[q][p] \in Nat /\ n < base[q][p] + Window
    <3>1. freed[p] <= base[q][p] /\ base[q][p] \in Nat
      BY <2>1, SendWindow DEF WindowsAgree, IInv, TypeOK
    <3> QED BY <1>1, <1>3, <3>1, WindowFacts
  <2>3. sent'[p] = n + 1 /\ base' = base
    BY <1>2, <1>5
  <2> DEFINE d == [kind |-> "SEND", src |-> p, dst |-> q, frame_id |-> f, n |-> n]
  <2>4. d \in Datagrams
    BY <1>1, <2>1 DEF Datagrams
  <2>5. Owner(d) = p /\ Owner(d)' = p
    BY DEF Owner
  <2>6. Good(d)'
    BY <1>1, <2>2, <2>3, <2>5, WindowFacts DEF Good
  <2> QED BY <2>4, <2>6 DEF Datagram
<1>8. TypeOK'
  <2>1. net' \subseteq Datagrams
    BY <1>6, <1>7 DEF IInv, TypeOK
  <2>2. ack_flag' \in [Peers -> [FrameIds -> SUBSET Peers]]
    BY <1>1, <1>2 DEF IInv, TypeOK, ClearAck
  <2>3. sent' \in [Peers -> Nat] /\ send_tail' \in [Peers -> FrameIds]
    BY <1>1, <1>2, <1>4 DEF IInv, TypeOK
  <2> QED BY <1>2, <2>1, <2>2, <2>3 DEF IInv, TypeOK
<1>9. SenderInv'
  <2> SUFFICES ASSUME NEW r \in Peers
               PROVE  /\ link[r] \subseteq dp_id[r] /\ send_head[r] = FrameId(freed[r])
                      /\ send_tail'[r] = FrameId(sent'[r])
                      /\ freed[r] <= sent'[r] /\ sent'[r] <= freed[r] + Window
    BY <1>2 DEF SenderInv
  <2> QED BY <1>1, <1>3, <1>5, WindowFacts DEF IInv, SenderInv
<1>10. NoFalseAck'
  <2> SUFFICES ASSUME NEW r \in Peers, NEW q \in dp_id[r], NEW i \in 0 .. sent'[r] - 1,
                      i < freed[r] \/ q \in ack_flag'[r][FrameId(i)]
               PROVE  i \in got[q][r]
    BY <1>2 DEF NoFalseAck
  <2>1. CASE r # p
    BY <1>5, <2>1 DEF IInv, NoFalseAck
  <2>2. CASE r = p /\ i < freed[p]
    <3>1. i \in 0 .. sent[p] - 1
      BY <1>0, <1>1, <1>5, <2>2
    <3> QED BY <2>2, <3>1 DEF IInv, NoFalseAck
  <2>3. CASE r = p /\ ~(i < freed[p])
    <3>1. i \in 0 .. n /\ q \in ack_flag'[p][FrameId(i)]
      BY <1>1, <1>5, <2>3
    <3>2. FrameId(i) \in FrameIds
      BY <3>1, FrameIdType DEF FrameIds
    <3>3. ack_flag'[p][FrameId(i)] = IF FrameId(i) = f THEN {} ELSE ack_flag[p][FrameId(i)]
      BY <1>1, <1>5, <3>2, OldFlags
    <3>4. i # n
      BY <1>1, <3>1, <3>3
    <3>5. i \in 0 .. sent[p] - 1 /\ q \in ack_flag[p][FrameId(i)]
      BY <1>0, <1>1, <3>1, <3>3, <3>4
    <3> QED BY <2>3, <3>5 DEF IInv, NoFalseAck
  <2> QED BY <2>1, <2>2, <2>3
<1>11. ReceiverTracksGaps'
  BY <1>2 DEF IInv, ReceiverTracksGaps
<1>12. GotInv'
  <2> SUFFICES ASSUME NEW r \in Peers, NEW t \in Peers, NEW i \in got[r][t]
               PROVE  i < sent'[t] /\ i < base[r][t] + Window
    BY <1>2 DEF GotInv
  <2>1. i \in Nat /\ i < sent[t] /\ sent[t] \in Nat /\ i < base[r][t] + Window
    BY DEF IInv, TypeOK, GotInv
  <2> QED BY <1>0, <1>5, <2>1
<1>13. NetInv'
  <2> SUFFICES ASSUME NEW m \in net' PROVE Good(m)'
    BY DEF NetInv
  <2>1. CASE m \in net /\ (Owner(m) = p => (n + 1) - m.n <= Lifetime)
    <3>1. m \in Datagrams /\ Good(m) /\ Owner(m) \in Peers /\ m.n \in Nat
      BY <2>1 DEF IInv, TypeOK, NetInv, Datagrams, Owner
    <3>2. sent'[Owner(m)] = IF Owner(m) = p THEN n + 1 ELSE sent[Owner(m)]
      BY <1>5, <3>1
    <3>3. ASSUME m.kind # "NEGACK"
          PROVE  /\ m.frame_id = FrameId(m.n)
                 /\ m.n < sent'[Owner(m)]
                 /\ sent'[Owner(m)] <= m.n + Window
      <4>1. /\ m.frame_id = FrameId(m.n) /\ m.n < sent[Owner(m)]
            /\ sent[Owner(m)] <= m.n + Window
        BY <3>1, <3>3 DEF Good
      <4> QED BY <1>0, <1>1, <2>1, <3>1, <3>2, <4>1, WindowFacts
    <3>4. /\ m.kind = "SEND" => m.n < base'[m.dst][m.src] + Window
          /\ m.kind = "ACKNOW" => m.n \in got'[m.src][m.dst]
      BY <1>2, <3>1 DEF Good
    <3> QED BY <3>3, <3>4 DEF Good, Owner
  <2>2. CASE \E q \in link[p] : m = Datagram("SEND", p, q, f, n)
    BY <1>7, <2>2
  <2> QED BY <1>6, <2>1, <2>2
<1> QED BY <1>8, <1>9, <1>10, <1>11, <1>12, <1>13 DEF IInv

LEMMA PollStep ==
  ASSUME IInv, NEW p \in Peers, Poll(p)
  PROVE  IInv'
<1>1. /\ receive_queue[p] # <<>>
      /\ receive_queue' = [receive_queue EXCEPT ![p] = Tail(@)]
      /\ UNCHANGED <<send_head, send_tail, ack_flag, sent, freed, wait_to_receive,
                     recv_flag, base, got, dp_id, link, net>>
  BY DEF Poll, sendVars
<1>2. TypeOK'
  <2>1. receive_queue' \in [Peers -> Seq([src : Peers, n : Nat])]
    BY <1>1 DEF IInv, TypeOK
  <2> QED BY <1>1, <2>1 DEF IInv, TypeOK
<1>3. SenderInv' /\ NoFalseAck' /\ GotInv'
  BY <1>1 DEF IInv, SenderInv, NoFalseAck, GotInv
<1>4. ReceiverTracksGaps'
  BY <1>1 DEF IInv, ReceiverTracksGaps
<1>5. NetInv'
  BY <1>1 DEF IInv, NetInv, Good, Owner
<1> QED BY <1>2, <1>3, <1>4, <1>5 DEF IInv

\* Losing datagrams, or a connection, takes nothing but datagrams and links.
LEMMA NetShrinks ==
  ASSUME IInv, net' \subseteq net,
         link' \in [Peers -> SUBSET Peers],
         \A p \in Peers : link'[p] \subseteq link[p],
         UNCHANGED <<sendVars, recvVars, dp_id>>
  PROVE  IInv'
<1>1. UNCHANGED <<send_head, send_tail, ack_flag, sent, freed, wait_to_receive,
                  recv_flag, receive_queue, base, got, dp_id>>
  BY DEF sendVars, recvVars
<1>2. TypeOK'
  BY <1>1 DEF IInv, TypeOK
<1>3. SenderInv' /\ NoFalseAck' /\ GotInv'
  BY <1>1 DEF IInv, SenderInv, NoFalseAck, GotInv
<1>4. ReceiverTracksGaps'
  BY <1>1 DEF IInv, ReceiverTracksGaps
<1>5. NetInv'
  BY <1>1 DEF IInv, NetInv, Good, Owner
<1> QED BY <1>2, <1>3, <1>4, <1>5 DEF IInv

LEMMA LoseStep ==
  ASSUME IInv, NEW m \in net, Lose(m)
  PROVE  IInv'
<1>1. link \in [Peers -> SUBSET Peers]
  BY DEF IInv, TypeOK
<1> QED BY <1>1, NetShrinks DEF Lose

LEMMA TransportLostStep ==
  ASSUME IInv, NEW p \in Peers, NEW q \in Peers, TransportLost(p, q)
  PROVE  IInv'
<1>1. link \in [Peers -> SUBSET Peers]
  BY DEF IInv, TypeOK
<1>2. link' = [link EXCEPT ![p] = @ \ {q}]
  BY DEF TransportLost
<1>3. link' \in [Peers -> SUBSET Peers] /\ \A r \in Peers : link'[r] \subseteq link[r]
  BY <1>1, <1>2
<1>4. net' \subseteq net /\ UNCHANGED <<sendVars, recvVars, dp_id>>
  BY DEF TransportLost
<1> QED BY <1>3, <1>4, NetShrinks

-----------------------------------------------------------------------------
(* The theorems *)

LEMMA InitIInv == Init => IInv
<1> SUFFICES ASSUME Init PROVE IInv
  OBVIOUS
<1>1. FrameId(0) = 0 /\ 0 \in FrameIds
  <2>1. 0 = MAX_QUEUE * 0 + 0 /\ 0 \in 0 .. MAX_QUEUE - 1
    BY ECAssumption
  <2> QED BY <2>1, FrameIdUnique DEF FrameIds
<1>2. TypeOK
  BY <1>1 DEF Init, TypeOK
<1>3. SenderInv
  <2>1. Window \in Nat
    BY WindowFacts
  <2> SUFFICES ASSUME NEW p \in Peers
               PROVE  /\ link[p] \subseteq dp_id[p]
                      /\ send_head[p] = FrameId(freed[p])
                      /\ send_tail[p] = FrameId(sent[p])
                      /\ freed[p] <= sent[p]
                      /\ sent[p] <= freed[p] + Window
    BY DEF SenderInv
  <2>2. send_head[p] = 0 /\ send_tail[p] = 0 /\ freed[p] = 0 /\ sent[p] = 0 /\ link[p] = dp_id[p]
    BY DEF Init
  <2> QED BY <1>1, <2>1, <2>2
<1>4. NoFalseAck
  BY DEF Init, NoFalseAck
<1>5. ReceiverTracksGaps
  BY <1>1 DEF Init, ReceiverTracksGaps
<1>6. GotInv /\ NetInv
  BY DEF Init, GotInv, NetInv
<1> QED BY <1>2, <1>3, <1>4, <1>5, <1>6 DEF IInv

LEMMA NextIInv == IInv /\ [Next]_vars => IInv'
<1> SUFFICES ASSUME IInv, [Next]_vars PROVE IInv'
  OBVIOUS
<1>1. ASSUME NEW p \in Peers, Send(p) PROVE IInv'
  BY <1>1, SendStep
<1>2. ASSUME NEW p \in Peers, Yield(p) PROVE IInv'
  BY <1>2, PlainYieldStep
<1>3. ASSUME NEW p \in Peers, Poll(p) PROVE IInv'
  BY <1>3, PollStep
<1>4. ASSUME NEW p \in Peers, NEW m \in net, Receive(p, m) PROVE IInv'
  BY <1>4, AcceptSendStep, DropSendStep, ReAckSendStep, ReceiveAckStep,
     ReceiveNegackStep, ReceiveCorruptedStep DEF Receive
<1>5. ASSUME NEW m \in net, Lose(m) PROVE IInv'
  BY <1>5, LoseStep
<1>6. ASSUME NEW p \in Peers, NEW q \in Peers, TransportLost(p, q) PROVE IInv'
  BY <1>6, TransportLostStep
<1>7. CASE UNCHANGED vars
  <2>1. /\ UNCHANGED <<sendVars, recvVars, dp_id>> /\ net' = net /\ link' = link
    BY <1>7 DEF vars
  <2>2. link \in [Peers -> SUBSET Peers]
    BY DEF IInv, TypeOK
  <2> QED BY <2>1, <2>2, NetShrinks
<1> QED BY <1>1, <1>2, <1>3, <1>4, <1>5, <1>6, <1>7 DEF Next

\* The invariant on which everything else rests holds in every reachable state.
THEOREM InductiveInvariant == Spec => []IInv
BY InitIInv, NextIInv, PTL DEF Spec

\* Every state of the error control is well typed: ids stay below MAX_QUEUE.
THEOREM TypeCorrect == Spec => []TypeOK
<1>1. IInv => TypeOK
  BY DEF IInv
<1> QED BY <1>1, InductiveInvariant, PTL

\* A frame that ErrorControl takes for acknowledged was accepted: the cyclic
\* ids, the half-queue limit and the receive window never make up a false
\* acknowledgement.
THEOREM AcknowledgementsAreHonest == Spec => []NoFalseAck
<1>1. IInv => NoFalseAck
  BY DEF IInv
<1> QED BY <1>1, InductiveInvariant, PTL

\* The frames a sender has outstanding are within the receive windows of all
\* the peers it counts.
THEOREM WindowsAlwaysAgree == Spec => []WindowsAgree
<1>1. IInv => WindowsAgree
  BY SendWindow
<1> QED BY <1>1, InductiveInvariant, PTL

\* wait_to_receive and recv_flag designate exactly the missing messages.
THEOREM ReceiversTrackGaps == Spec => []ReceiverTracksGaps
<1>1. IInv => ReceiverTracksGaps
  BY DEF IInv
<1> QED BY <1>1, InductiveInvariant, PTL

-----------------------------------------------------------------------------
(* The head of the send queue is awaited. *)

\* clear_acked_frame() stops at a frame somebody has yet to acknowledge, or
\* has emptied the queue.
LEMMA EndOfYieldAwaits ==
  ASSUME TypeOK, SenderInv, NEW p \in Peers,
         NEW acks \in [FrameIds -> SUBSET Peers],
         NEW alive \in SUBSET Peers, NEW reply,
         EndOfYield(p, acks, alive, reply),
         send_head'[p] # send_tail'[p]
  PROVE  \E q \in alive : q \notin acks[send_head'[p]]
<1> DEFINE a == freed[p]
           b == sent[p]
<1>1. /\ a \in Nat /\ b \in Nat /\ a <= b /\ b < a + MAX_QUEUE
      /\ send_head[p] = FrameId(a) /\ send_tail[p] = FrameId(b)
  BY WindowFacts DEF TypeOK, SenderInv
<1>2. PICK k \in 0 .. MAX_QUEUE :
        /\ ClearsAcked(k, send_head[p], send_tail[p], acks, alive)
        /\ send_head' = [send_head EXCEPT ![p] = Advance(send_head[p], k)]
  BY DEF EndOfYield
<1>3. send_tail' = send_tail /\ send_head'[p] = Advance(send_head[p], k)
  BY <1>2 DEF EndOfYield, TypeOK
<1>4. Queued(send_head[p], send_tail[p]) = b - a
  BY <1>1, QueuedFrameIds
<1>5. k # b - a
  <2> SUFFICES ASSUME k = b - a PROVE FALSE
    OBVIOUS
  <2>1. a \in Int /\ k \in Int /\ a + k = b
    BY <1>1
  <2>2. Advance(FrameId(a), k) = FrameId(b)
    <3> HIDE DEF a, b
    <3> QED BY <2>1, AdvanceFrameId
  <2> QED BY <1>1, <1>3, <2>2
<1>6. k < b - a
  BY <1>1, <1>2, <1>4, <1>5, WindowFacts DEF ClearsAcked
<1>7. ~(alive \subseteq acks[Advance(send_head[p], k)])
  BY <1>2, <1>4, <1>6 DEF ClearsAcked, AreAllAcked
<1> QED BY <1>3, <1>7

\* The conjunct of HeadIsAwaited about one peer.
Awaited(p) == send_head[p] # send_tail[p] =>
                \E q \in dp_id[p] : q \notin ack_flag[p][send_head[p]]

\* Every yield() re-establishes it, for the peer that calls it.
LEMMA YieldAwaits ==
  ASSUME IInv, HeadIsAwaited, NEW p \in Peers,
         NEW acks \in [FrameIds -> SUBSET Peers],
         NEW alive \in SUBSET Peers, NEW reply,
         EndOfYield(p, acks, alive, reply),
         ack_flag' = [ack_flag EXCEPT ![p] = acks],
         dp_id' = [dp_id EXCEPT ![p] = alive]
  PROVE  HeadIsAwaited'
<1>1. TypeOK /\ SenderInv
  BY DEF IInv
<1>2. /\ \A r \in Peers \ {p} : send_head'[r] = send_head[r]
      /\ send_tail' = send_tail
  BY <1>1, EndOfYieldFacts
<1>3. ack_flag'[p] = acks /\ dp_id'[p] = alive
  BY <1>1 DEF TypeOK
<1>4. Awaited(p)'
  BY <1>1, <1>3, EndOfYieldAwaits DEF Awaited
<1>5. ASSUME NEW r \in Peers \ {p} PROVE Awaited(r)'
  <2>1. ack_flag'[r] = ack_flag[r] /\ dp_id'[r] = dp_id[r]
    BY <1>1 DEF TypeOK
  <2> QED BY <1>2, <2>1 DEF HeadIsAwaited, Awaited
<1> QED BY <1>4, <1>5 DEF HeadIsAwaited, Awaited

\* A frame is queued with nobody's acknowledgement, and the head keeps its own.
LEMMA SendAwaits ==
  ASSUME IInv, HeadIsAwaited, NEW p \in Peers, Send(p)
  PROVE  HeadIsAwaited'
<1>1. TypeOK
  BY DEF IInv
<1>2. /\ dp_id[p] # {} /\ send_head' = send_head /\ dp_id' = dp_id
      /\ ack_flag' = [ack_flag EXCEPT ![p] = ClearAck(@, send_tail[p])]
      /\ send_tail' = [send_tail EXCEPT ![p] = Advance(send_tail[p], 1)]
  BY DEF Send
<1>3. Awaited(p)'
  <2>1. ack_flag'[p] = [ack_flag[p] EXCEPT ![send_tail[p]] = {}]
    BY <1>1, <1>2 DEF TypeOK, ClearAck
  <2>2. ack_flag[p] \in [FrameIds -> SUBSET Peers] /\ send_tail[p] \in FrameIds
    BY <1>1 DEF TypeOK
  <2>3. CASE send_head[p] = send_tail[p]
    BY <1>2, <2>1, <2>2, <2>3 DEF Awaited
  <2>4. CASE send_head[p] # send_tail[p]
    <3>1. PICK q \in dp_id[p] : q \notin ack_flag[p][send_head[p]]
      BY <2>4 DEF HeadIsAwaited
    <3>2. send_head[p] \in FrameIds
      BY <1>1 DEF TypeOK
    <3>3. ack_flag'[p][send_head[p]] = ack_flag[p][send_head[p]]
      BY <2>1, <2>2, <2>4, <3>2
    <3> QED BY <1>2, <3>1, <3>3 DEF Awaited
  <2> QED BY <2>3, <2>4
<1>4. ASSUME NEW r \in Peers \ {p} PROVE Awaited(r)'
  <2>1. ack_flag'[r] = ack_flag[r] /\ send_tail'[r] = send_tail[r]
    BY <1>1, <1>2 DEF TypeOK
  <2> QED BY <1>2, <2>1 DEF HeadIsAwaited, Awaited
<1> QED BY <1>3, <1>4 DEF HeadIsAwaited, Awaited

LEMMA ReceiveAwaits ==
  ASSUME IInv, HeadIsAwaited, NEW p \in Peers, NEW m \in net, Receive(p, m)
  PROVE  HeadIsAwaited'
<1>1. /\ ack_flag[p] \in [FrameIds -> SUBSET Peers]
      /\ dp_id[p] \in SUBSET Peers
      /\ ack_flag = [ack_flag EXCEPT ![p] = ack_flag[p]]
      /\ dp_id = [dp_id EXCEPT ![p] = dp_id[p]]
  BY OldFlags
<1>2. ASSUME NEW reply, EndOfYield(p, ack_flag[p], dp_id[p], reply),
             ack_flag' = ack_flag, dp_id' = dp_id
      PROVE  HeadIsAwaited'
  BY <1>1, <1>2, YieldAwaits
<1>3. CASE ReceiveAck(p, m)
  <2> DEFINE acks == IF IsBetween(send_head[p], m.frame_id, send_tail[p])
                     THEN [ack_flag[p] EXCEPT ![m.frame_id] = @ \cup {m.src}]
                     ELSE ack_flag[p]
  <2>1. /\ ack_flag' = [ack_flag EXCEPT ![p] = acks] /\ dp_id' = dp_id
        /\ EndOfYield(p, acks, dp_id[p], {})
    BY <1>3 DEF ReceiveAck
  <2>2. m.src \in Peers
    BY DEF IInv, TypeOK, Datagrams
  <2>3. acks \in [FrameIds -> SUBSET Peers]
    BY <1>1, <2>2
  <2> HIDE DEF acks
  <2> QED BY <1>1, <2>1, <2>3, YieldAwaits
<1>4. CASE AcceptSend(p, m) \/ DropSend(p, m) \/ ReAckSend(p, m)
  BY <1>2, <1>4 DEF AcceptSend, DropSend, ReAckSend
<1>5. CASE ReceiveNegack(p, m) \/ ReceiveCorrupted(p, m)
  BY <1>2, <1>5 DEF ReceiveNegack, ReceiveCorrupted
<1> QED BY <1>3, <1>4, <1>5 DEF Receive

LEMMA NextAwaits ==
  ASSUME IInv, HeadIsAwaited, [Next]_vars
  PROVE  HeadIsAwaited'
<1>1. ASSUME UNCHANGED <<sendVars, dp_id>> PROVE HeadIsAwaited'
  BY <1>1 DEF HeadIsAwaited, sendVars
<1>2. ASSUME NEW p \in Peers, Yield(p) PROVE HeadIsAwaited'
  <2>1. /\ ack_flag[p] \in [FrameIds -> SUBSET Peers]
        /\ dp_id[p] \in SUBSET Peers
        /\ ack_flag = [ack_flag EXCEPT ![p] = ack_flag[p]]
    BY OldFlags
  <2>2. /\ dp_id' = [dp_id EXCEPT ![p] = dp_id[p] \cap link[p]]
        /\ EndOfYield(p, ack_flag[p], dp_id[p] \cap link[p], {})
        /\ ack_flag' = ack_flag
    BY <1>2 DEF Yield
  <2> QED BY <2>1, <2>2, YieldAwaits
<1>3. ASSUME NEW p \in Peers, Poll(p) PROVE HeadIsAwaited'
  BY <1>1, <1>3 DEF Poll
<1>4. ASSUME NEW m \in net, Lose(m) PROVE HeadIsAwaited'
  BY <1>1, <1>4 DEF Lose
<1>5. ASSUME NEW p \in Peers, NEW q \in Peers, TransportLost(p, q)
      PROVE  HeadIsAwaited'
  BY <1>1, <1>5 DEF TransportLost
<1>6. CASE UNCHANGED vars
  BY <1>1, <1>6 DEF vars
<1> QED BY <1>2, <1>3, <1>4, <1>5, <1>6, SendAwaits, ReceiveAwaits DEF Next

\* A sender is never left with a queue whose head everybody has acknowledged,
\* in whatever order acknowledgements and losses of players come: every
\* outstanding frame waits for a peer that still counts.
THEOREM HeadAlwaysAwaited == Spec => []HeadIsAwaited
<1>1. Init => HeadIsAwaited
  BY DEF Init, HeadIsAwaited
<1>2. IInv /\ HeadIsAwaited /\ [Next]_vars => HeadIsAwaited'
  BY NextAwaits
<1> QED BY <1>1, <1>2, InductiveInvariant, PTL DEF Spec

-----------------------------------------------------------------------------
(* ErrorControl implements ReliableCast. *)

\* The receive queue never holds more than it has slots for.
QueueInv == \A p \in Peers : Len(receive_queue[p]) <= MAX_RECV_QUEUE - 1

LEMMA InitQueueInv == Init => QueueInv
<1> SUFFICES ASSUME Init, NEW p \in Peers
             PROVE  Len(receive_queue[p]) <= MAX_RECV_QUEUE - 1
  BY DEF QueueInv
<1>1. receive_queue[p] = <<>>
  BY DEF Init
<1>2. Len(receive_queue[p]) = 0
  BY <1>1
<1> QED BY <1>2, ECAssumption

LEMMA NextQueueInv ==
  ASSUME IInv, QueueInv, [Next]_vars
  PROVE  QueueInv'
<1>0. receive_queue \in [Peers -> Seq([src : Peers, n : Nat])]
  BY DEF IInv, TypeOK
<1>1. ASSUME receive_queue' = receive_queue PROVE QueueInv'
  BY <1>1 DEF QueueInv
<1>2. ASSUME NEW p \in Peers, Poll(p) PROVE QueueInv'
  <2>1. /\ receive_queue[p] # <<>> /\ receive_queue[p] \in Seq([src : Peers, n : Nat])
        /\ receive_queue' = [receive_queue EXCEPT ![p] = Tail(@)]
    BY <1>0, <1>2 DEF Poll
  <2>2. Len(Tail(receive_queue[p])) <= Len(receive_queue[p])
    BY <2>1
  <2>3. Len(Tail(receive_queue[p])) \in Nat /\ Len(receive_queue[p]) \in Nat
    BY <2>1
  <2>4. Len(Tail(receive_queue[p])) <= MAX_RECV_QUEUE - 1
    BY <2>2, <2>3, ECAssumption DEF QueueInv
  <2> QED BY <1>0, <2>1, <2>4 DEF QueueInv
<1>3. ASSUME NEW p \in Peers, NEW m \in net, AcceptSend(p, m) PROVE QueueInv'
  <2>1. /\ receive_queue[p] \in Seq([src : Peers, n : Nat])
        /\ receive_queue' = [receive_queue EXCEPT ![p] =
                               Append(@, [src |-> m.src, n |-> m.n])]
        /\ Len(receive_queue[p]) # MAX_RECV_QUEUE - 1
        /\ m.src \in Peers /\ m.n \in Nat
    BY <1>0, <1>3 DEF AcceptSend, IsRecvFull, IInv, TypeOK, Datagrams
  <2> DEFINE d == [src |-> m.src, n |-> m.n]
  <2>2. d \in [src : Peers, n : Nat]
    BY <2>1
  <2>3. Len(Append(receive_queue[p], d)) = Len(receive_queue[p]) + 1
        /\ Len(receive_queue[p]) \in Nat
    BY <2>1, <2>2
  <2>4. Len(Append(receive_queue[p], d)) <= MAX_RECV_QUEUE - 1
    BY <2>1, <2>3, ECAssumption DEF QueueInv
  <2> HIDE DEF d
  <2>5. receive_queue' = [receive_queue EXCEPT ![p] = Append(@, d)]
    BY <2>1 DEF d
  <2> QED BY <1>0, <2>4, <2>5 DEF QueueInv
<1>4. ASSUME NEW p \in Peers, Send(p) \/ Yield(p) PROVE QueueInv'
  BY <1>1, <1>4 DEF Send, Yield, recvVars
<1>5. ASSUME NEW p \in Peers, NEW m \in net, Receive(p, m) PROVE QueueInv'
  BY <1>1, <1>3, <1>5 DEF Receive, DropSend, ReAckSend, ReceiveAck, ReceiveNegack,
     ReceiveCorrupted, recvVars
<1>6. ASSUME NEW m \in net, Lose(m) PROVE QueueInv'
  BY <1>1, <1>6 DEF Lose, recvVars
<1>7. ASSUME NEW p \in Peers, NEW q \in Peers, TransportLost(p, q) PROVE QueueInv'
  BY <1>1, <1>7 DEF TransportLost, recvVars
<1>8. CASE UNCHANGED vars
  BY <1>1, <1>8 DEF vars, recvVars
<1> QED BY <1>2, <1>4, <1>5, <1>6, <1>7, <1>8 DEF Next

LEMMA CastInvariant == Spec => [](IInv /\ QueueInv)
<1>1. Init => IInv /\ QueueInv
  BY InitIInv, InitQueueInv
<1>2. IInv /\ QueueInv /\ [Next]_vars => (IInv /\ QueueInv)'
  BY NextIInv, NextQueueInv
<1> QED BY <1>1, <1>2, PTL DEF Spec

\* An accepted message is one its sender broadcast, was not accepted before,
\* and none a window or more before it is missing.
LEMMA AcceptIsDeliver ==
  ASSUME IInv, QueueInv, NEW p \in Peers, NEW m \in net, AcceptSend(p, m)
  PROVE  /\ m.src \in Peers /\ m.src \in dp_id[p]
         /\ m.n \in 0 .. sent[m.src] - 1 /\ m.n \notin got[p][m.src]
         /\ 0 .. m.n - Window \subseteq got[p][m.src]
         /\ Len(receive_queue[p]) < MAX_RECV_QUEUE - 1
         /\ got' = [got EXCEPT ![p][m.src] = @ \cup {m.n}]
         /\ receive_queue' = [receive_queue EXCEPT ![p] =
                                Append(@, [src |-> m.src, n |-> m.n])]
         /\ sent' = sent /\ dp_id' = dp_id
<1>1. /\ m.src \in Peers /\ m.n \in Nat /\ base[p][m.src] \in Nat
      /\ m.n < base[p][m.src] + Window /\ m.n < sent[m.src] /\ m.n \notin got[p][m.src]
  BY ArrivingSend DEF AcceptSend, Arrives
<1>2. 0 .. base[p][m.src] - 1 \subseteq got[p][m.src]
  BY <1>1 DEF IInv, ReceiverTracksGaps
<1>3. 0 .. m.n - Window \subseteq 0 .. base[p][m.src] - 1
  BY <1>1, WindowFacts
<1>4. sent[m.src] \in Nat
  BY <1>1 DEF IInv, TypeOK
<1>5. Len(receive_queue[p]) < MAX_RECV_QUEUE - 1
  <2>1. Len(receive_queue[p]) # MAX_RECV_QUEUE - 1
    BY DEF AcceptSend, IsRecvFull
  <2>2. Len(receive_queue[p]) \in Nat /\ Len(receive_queue[p]) <= MAX_RECV_QUEUE - 1
    BY DEF IInv, TypeOK, QueueInv
  <2> QED BY <2>1, <2>2, ECAssumption
<1> QED BY <1>1, <1>2, <1>3, <1>4, <1>5 DEF AcceptSend, Arrives, EndOfYield

\* Every step of ErrorControl is a step of the reliable broadcast or changes
\* nothing of it.
LEMMA StepRefines ==
  ASSUME IInv, QueueInv, [Next]_vars
  PROVE  [Cast!Next]_Cast!vars
<1>1. ASSUME NEW p \in Peers, Send(p) PROVE Cast!Broadcast(p)
  <2>1. /\ sent[p] < MaxSend[p] /\ dp_id[p] # {}
        /\ sent' = [sent EXCEPT ![p] = @ + 1]
        /\ UNCHANGED <<got, receive_queue, dp_id>>
    BY <1>1 DEF Send, recvVars
  <2>2. /\ sent[p] \in Nat /\ freed[p] \in Nat /\ sent[p] + 1 <= freed[p] + Window
    <3>1. /\ sent[p] \in Nat /\ freed[p] \in Nat /\ freed[p] <= sent[p]
          /\ sent[p] <= freed[p] + Window
          /\ send_head[p] = FrameId(freed[p]) /\ send_tail[p] = FrameId(sent[p])
      BY DEF IInv, TypeOK, SenderInv
    <3>2. Queued(FrameId(freed[p]), FrameId(sent[p])) = sent[p] - freed[p]
      BY <3>1, QueuedFrameIds, WindowFacts
    <3>3. SendQueueSpace(p) >= Window
      BY <1>1 DEF Send
    <3> QED BY <3>1, <3>2, <3>3, WindowFacts DEF SendQueueSpace
  <2>3. ASSUME NEW q \in dp_id[p] PROVE 0 .. sent[p] - Window \subseteq got[q][p]
    <3>1. /\ freed[p] <= base[q][p] /\ base[q][p] \in Nat /\ q \in Peers
      BY SendWindow DEF WindowsAgree, IInv, TypeOK
    <3>2. 0 .. base[q][p] - 1 \subseteq got[q][p]
      BY <3>1 DEF IInv, ReceiverTracksGaps
    <3>3. 0 .. sent[p] - Window \subseteq 0 .. base[q][p] - 1
      BY <2>2, <3>1, WindowFacts
    <3> QED BY <3>2, <3>3
  <2> QED BY <2>1, <2>3 DEF Cast!Broadcast
<1>2. ASSUME NEW p \in Peers, NEW m \in net, AcceptSend(p, m)
      PROVE  \E q \in Peers : \E n \in 0 .. sent[q] - 1 : Cast!Deliver(p, q, n)
  <2>1. /\ m.src \in Peers /\ m.src \in dp_id[p]
        /\ m.n \in 0 .. sent[m.src] - 1 /\ m.n \notin got[p][m.src]
        /\ 0 .. m.n - Window \subseteq got[p][m.src]
        /\ Len(receive_queue[p]) < MAX_RECV_QUEUE - 1
        /\ got' = [got EXCEPT ![p][m.src] = @ \cup {m.n}]
        /\ receive_queue' = [receive_queue EXCEPT ![p] =
                               Append(@, [src |-> m.src, n |-> m.n])]
        /\ sent' = sent /\ dp_id' = dp_id
    BY <1>2, AcceptIsDeliver
  <2>2. Cast!Deliver(p, m.src, m.n)
    BY <2>1 DEF Cast!Deliver
  <2> QED BY <2>1, <2>2
<1>3. ASSUME NEW p \in Peers, Yield(p) PROVE Cast!LosePlayers(p)
  BY <1>3 DEF Yield, EndOfYield, recvVars, Cast!LosePlayers
<1>4. ASSUME NEW p \in Peers, Poll(p) PROVE Cast!Poll(p)
  BY <1>4 DEF Poll, sendVars, Cast!Poll
<1>5. ASSUME NEW p \in Peers, NEW m \in net, Receive(p, m), ~AcceptSend(p, m)
      PROVE  UNCHANGED Cast!vars
  BY <1>5 DEF Receive, DropSend, ReAckSend, ReceiveAck, ReceiveNegack,
     ReceiveCorrupted, EndOfYield, recvVars, Cast!vars
<1>6. ASSUME NEW m \in net, Lose(m) PROVE UNCHANGED Cast!vars
  BY <1>6 DEF Lose, sendVars, recvVars, Cast!vars
<1>7. ASSUME NEW p \in Peers, NEW q \in Peers, TransportLost(p, q) PROVE UNCHANGED Cast!vars
  BY <1>7 DEF TransportLost, sendVars, recvVars, Cast!vars
<1>8. ASSUME UNCHANGED vars PROVE UNCHANGED Cast!vars
  BY <1>8 DEF vars, sendVars, recvVars, Cast!vars
<1> QED BY <1>1, <1>2, <1>3, <1>4, <1>5, <1>6, <1>7, <1>8 DEF Next, Cast!Next

\* The error control implements the reliable broadcast: whatever the network
\* loses, repeats, delays or garbles, the layer above sees messages delivered
\* at most once each, and none overtakes Window others.
THEOREM ErrorControlImplements == Spec => ImplementsReliableCast
<1>1. Init => Cast!Init
  BY DEF Init, Cast!Init
<1>2. IInv /\ QueueInv /\ [Next]_vars => [Cast!Next]_Cast!vars
  BY StepRefines
<1> QED BY <1>1, <1>2, CastInvariant, PTL DEF Spec, ImplementsReliableCast, Cast!Spec

\* Nothing is handed up twice, or that its sender did not broadcast.
THEOREM HandedUpAtMostOnce == Spec => AtMostOnce
<1>1. ASSUME IInv, QueueInv, [Next]_vars, NEW p \in Peers,
             Len(receive_queue'[p]) > Len(receive_queue[p])
      PROVE  LET m == receive_queue'[p][Len(receive_queue'[p])] IN
             m.n \notin got[p][m.src] /\ m.n < sent[m.src]
  <2>0. /\ receive_queue \in [Peers -> Seq([src : Peers, n : Nat])]
        /\ Len(receive_queue[p]) \in Nat
    <3>1. receive_queue \in [Peers -> Seq([src : Peers, n : Nat])]
      BY <1>1 DEF IInv, TypeOK
    <3>2. receive_queue[p] \in Seq([src : Peers, n : Nat])
      BY <3>1
    <3>3. Len(receive_queue[p]) \in Nat
      BY <3>2
    <3> QED BY <3>1, <3>3
  <2>1. ~(receive_queue' = receive_queue)
    BY <1>1, <2>0
  <2>2. ASSUME NEW r \in Peers, Poll(r) PROVE FALSE
    <3>1. /\ receive_queue' = [receive_queue EXCEPT ![r] = Tail(@)]
          /\ receive_queue[r] # <<>>
      BY <2>2 DEF Poll
    <3>2. p = r
      BY <1>1, <2>0, <3>1
    <3>3. receive_queue'[p] = Tail(receive_queue[p])
      BY <2>0, <3>1, <3>2
    <3>4. Len(Tail(receive_queue[p])) = Len(receive_queue[p]) - 1
      BY <2>0, <3>1, <3>2
    <3> QED BY <1>1, <2>0, <3>3, <3>4
  <2>3. PICK r \in Peers, d \in net : AcceptSend(r, d)
    BY <1>1, <2>1, <2>2 DEF Next, vars, Send, Yield, Receive, DropSend, ReAckSend,
       ReceiveAck, ReceiveNegack, ReceiveCorrupted, Lose, TransportLost, recvVars
  <2>4. /\ d.src \in Peers /\ d.n \in 0 .. sent[d.src] - 1 /\ d.n \notin got[r][d.src]
        /\ receive_queue' = [receive_queue EXCEPT ![r] =
                               Append(@, [src |-> d.src, n |-> d.n])]
    BY <1>1, <2>3, AcceptIsDeliver
  <2>5. p = r
    BY <1>1, <2>0, <2>4
  <2>6. PICK e \in [src : Peers, n : Nat] : e.src = d.src /\ e.n = d.n
          /\ receive_queue'[p] = Append(receive_queue[p], e)
    <3> DEFINE e == [src |-> d.src, n |-> d.n]
    <3>1. e \in [src : Peers, n : Nat]
      BY <2>4
    <3>2. receive_queue'[p] = Append(receive_queue[p], e)
      BY <2>0, <2>4, <2>5
    <3> QED BY <3>1, <3>2
  <2>7. receive_queue'[p][Len(receive_queue'[p])] = e
    <3>1. receive_queue[p] \in Seq([src : Peers, n : Nat])
      BY <2>0
    <3> QED BY <2>6, <3>1
  <2>8. sent[d.src] \in Nat
    BY <1>1, <2>4 DEF IInv, TypeOK
  <2> QED BY <2>4, <2>5, <2>6, <2>7, <2>8
<1>2. IInv /\ QueueInv /\ [Next]_vars =>
        [\A p \in Peers : Len(receive_queue'[p]) > Len(receive_queue[p]) =>
           LET m == receive_queue'[p][Len(receive_queue'[p])] IN
           /\ m.n \notin got[p][m.src]
           /\ m.n < sent[m.src]]_vars
  BY <1>1
<1> QED BY <1>2, CastInvariant, PTL DEF Spec, AtMostOnce
=============================================================================
