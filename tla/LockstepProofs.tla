--------------------------- MODULE LockstepProofs ---------------------------
(***************************************************************************)
(* The lockstep when every player sends in every frame, proved for any     *)
(* number of players, delay, number of receive queues and bounds on the    *)
(* frames and commands: peers execute the same commands in the same frame, *)
(* a player sends one queue per frame, with RECEIVE_QUEUE_BACKUP as the    *)
(* code computes it no queue is discarded, the lockstep implements         *)
(* FrameCast, and a player's commands are executed once each and in the    *)
(* order given.  ErrorControl's Window and Capacity play no part in it.    *)
(***************************************************************************)
EXTENDS Lockstep, TLAPS, WellFoundedInduction, SequenceTheorems

-----------------------------------------------------------------------------
(* The invariant.  It ties what a peer holds and executed of a nation to     *)
(* what that nation broadcast: the queue with tag f is the one of ordinal    *)
(* f - process_frame_delay.                                                  *)

Queues == [nation : Nations, tag : Nat, cmds : Seq(Nat), after : Seq(Nat)]

\* What is executed in a frame: a queue of each nation taken for human.
Orders == UNION {[S -> Seq(Nat)] : S \in SUBSET Nations}

TypeInv ==
  /\ frame_count \in [Nations -> Nat \ {0}]
  /\ send_queue \in [Nations -> Queues]
  /\ remote_send_success_flag \in [Nations -> BOOLEAN]
  /\ receive_queue \in [Nations -> [Slots -> Seq(Queues)]]
  /\ next_frame_ready \in [Nations -> SUBSET Nations]
  /\ ai \in [Nations -> SUBSET Nations]
  /\ broadcast \in [Nations -> Seq(Queues)]
  /\ recv_queue \in [Nations -> Seq([src : Nations, n : Nat])]
  /\ members \in [Nations -> SUBSET Nations]
  /\ issued \in [Nations -> Nat]
  /\ executed \in [Nations -> Seq(Orders)]

\* The queue being filled is that of the frame, or of the next one once this
\* frame's has been broadcast.
SendInv ==
  \A p \in Nations :
    /\ send_queue[p].nation = p
    /\ send_queue[p].tag = frame_count[p] + process_frame_delay
                             + (IF p \in next_frame_ready[p] THEN 1 ELSE 0)
    /\ ~remote_send_success_flag[p] => p \notin next_frame_ready[p]

\* p broadcasts for every frame, until it is alone.
BroadcastInv ==
  \A p \in Nations :
    /\ \A i \in 1 .. Len(broadcast[p]) :
         /\ broadcast[p][i].nation = p
         /\ broadcast[p][i].tag = process_frame_delay + i
    /\ Len(broadcast[p]) < send_queue[p].tag - process_frame_delay
    /\ members[p] # {} => Len(broadcast[p]) = send_queue[p].tag - process_frame_delay - 1

\* The messages not polled yet are broadcasts of others.
PendingInv ==
  \A p \in Nations :
    /\ p \notin members[p] /\ p \notin ai[p]
    /\ \A i \in 1 .. Len(recv_queue[p]) :
         /\ recv_queue[p][i].src # p
         /\ recv_queue[p][i].n < Len(broadcast[recv_queue[p][i].src])

\* cmds is what p has to execute of nation n in frame f, by the broadcasts bc.
Matches(bc, p, n, f, cmds) ==
  LET o == f - process_frame_delay IN
  /\ o <= 0 => cmds = <<>>
  /\ o \in 1 .. Len(bc[n]) => cmds = bc[n][o].cmds
  /\ n # p /\ o > 0 => o \in 1 .. Len(bc[n])

\* A queue of p's own that is being broadcast again is still as it was.
OwnQueue(p, q) ==
  q.nation = p =>
    \/ q.tag < send_queue[p].tag
    \/ /\ q.tag = send_queue[p].tag /\ q.cmds = send_queue[p].cmds
       /\ ~remote_send_success_flag[p]

\* q is in its place in p's receive queue i.
QueueRight(p, i, q) ==
  /\ q.tag = frame_count[p] + i
  /\ Matches(broadcast, p, q.nation, q.tag, q.cmds)
  /\ OwnQueue(p, q)

SlotsInv ==
  \A p \in Nations : \A i \in Slots : \A j \in 1 .. Len(receive_queue[p][i]) :
    QueueRight(p, i, receive_queue[p][i][j])

Holds(slots, i, n) == \E j \in 1 .. Len(slots[i]) : slots[i][j].nation = n

\* p holds its own queues for the next frames, and a queue of everyone it
\* knows to be ready.
ReadyInv ==
  \A p \in Nations :
    /\ \A n \in next_frame_ready[p] : Holds(receive_queue[p], 0, n)
    /\ \A i \in 0 .. process_frame_delay - 1 : Holds(receive_queue[p], i, p)
    /\ p \in next_frame_ready[p] \/ ~remote_send_success_flag[p]
         => Holds(receive_queue[p], process_frame_delay, p)

ExecutedInv ==
  \A p \in Nations :
    /\ Len(executed[p]) = frame_count[p] - 1
    /\ \A f \in 1 .. Len(executed[p]) : \A n \in DOMAIN executed[p][f] :
         Matches(broadcast, p, n, f, executed[p][f][n])

LInv == /\ TypeInv /\ SendInv /\ BroadcastInv /\ PendingInv
        /\ SlotsInv /\ ReadyInv /\ ExecutedInv

-----------------------------------------------------------------------------
(* Lemmas on the operators *)

\* With one queue per frame, every frame is one to send for.
LEMMA EveryFrame ==
  ASSUME alternating_send_rate = 1, NEW n \in Int, NEW f \in Int
  PROVE  has_send_frame(n, f) /\ next_send_frame(n, f) = f
<1>1. (f + n) % 1 = 0
  OBVIOUS
<1> QED BY <1>1 DEF has_send_frame, next_send_frame

LEMMA Delay ==
  /\ process_frame_delay \in Nat /\ process_frame_delay >= 1
  /\ Nations \subseteq Nat /\ Slots \subseteq Nat
  /\ \A i \in 0 .. process_frame_delay : i \in Slots
  /\ \A i \in Slots : i < RECEIVE_QUEUE_BACKUP
  /\ \A i \in Nat : i < RECEIVE_QUEUE_BACKUP => i \in Slots
BY LockstepAssumption DEF Nations, Slots

\* The ordinal of the queue with tag f.
LEMMA Ordinal ==
  ASSUME NEW f \in Nat, NEW d \in Nat, NEW n \in Nat, f = d + (n + 1)
  PROVE  f > d /\ f - d - 1 = n
OBVIOUS

LEMMA Least ==
  ASSUME NEW S \in SUBSET Nat, S # {}
  PROVE  \E i \in S : \A j \in S : i <= j
<1>1. PICK i \in S : \A j \in S : ~(<<j, i>> \in OpToRel(<, Nat))
  BY NatLessThanWellFounded, WFMin
<1>2. ASSUME NEW j \in S PROVE i <= j
  <2>1. ~(j < i)
    BY <1>1 DEF OpToRel
  <2> QED BY <2>1
<1> QED BY <1>2

LEMMA Greatest ==
  ASSUME NEW S \in SUBSET Nations, S # {}
  PROVE  \E i \in S : \A j \in S : j <= i
<1> DEFINE T == {NationCount - i : i \in S}
<1>1. NationCount \in Nat /\ \A i \in S : i \in Nat /\ i <= NationCount
  BY LockstepAssumption DEF Nations
<1>2. T \in SUBSET Nat /\ T # {}
  BY <1>1
<1>3. PICK t \in T : \A u \in T : t <= u
  <2> HIDE DEF T
  <2> QED BY <1>2, Least
<1>4. PICK i \in S : t = NationCount - i
  OBVIOUS
<1>5. ASSUME NEW j \in S PROVE j <= i
  <2>1. NationCount - i <= NationCount - j
    BY <1>3, <1>4
  <2> QED BY <1>1, <2>1
<1> QED BY <1>5

\* What is executed of a nation is a queue of it, if there is one.
LEMMA ExecutedIsAQueue ==
  ASSUME NEW queues \in Seq(Queues), NEW n
  PROVE  /\ ExecutedOf(queues, n) \in Seq(Nat)
         /\ (\E j \in 1 .. Len(queues) : queues[j].nation = n) =>
              \E j \in 1 .. Len(queues) :
                queues[j].nation = n /\ ExecutedOf(queues, n) = queues[j].cmds
<1> DEFINE own == {i \in DOMAIN queues : queues[i].nation = n}
           first == CHOOSE i \in own : \A j \in own : i <= j
<1>1. DOMAIN queues = 1 .. Len(queues) /\ Len(queues) \in Nat
  OBVIOUS
<1>2. CASE own = {}
  <2>1. ExecutedOf(queues, n) = <<>>
    BY <1>2 DEF ExecutedOf
  <2> QED BY <1>1, <1>2, <2>1
<1>3. CASE own # {}
  <2>1. own \in SUBSET Nat
    BY <1>1
  <2>2. first \in own
    <3>1. \E i \in own : \A j \in own : i <= j
      <4> HIDE DEF own
      <4> QED BY <1>3, <2>1, Least
    <3> HIDE DEF own
    <3> QED BY <3>1
  <2>3. ExecutedOf(queues, n) = queues[first].cmds
    BY <1>3 DEF ExecutedOf
  <2>4. first \in 1 .. Len(queues) /\ queues[first].nation = n
    <3> HIDE DEF first
    <3> QED BY <1>1, <2>2
  <2>5. queues[first].cmds \in Seq(Nat)
    <3> HIDE DEF first
    <3>1. queues[first] \in Queues
      BY <2>4
    <3> QED BY <3>1 DEF Queues
  <2> HIDE DEF first
  <2> QED BY <2>3, <2>4, <2>5
<1> QED BY <1>2, <1>3

\* A queue is filed behind those already there, where its tag says.
LEMMA FiledFacts ==
  ASSUME TypeInv, NEW p \in Nations, NEW q \in Queues
  PROVE  /\ Filed(p, q) \in [Slots -> Seq(Queues)]
         /\ \A i \in Slots : \A j \in 1 .. Len(Filed(p, q)[i]) :
              \/ /\ j \in 1 .. Len(receive_queue[p][i])
                 /\ Filed(p, q)[i][j] = receive_queue[p][i][j]
              \/ Filed(p, q)[i][j] = q /\ q.tag = frame_count[p] + i
         /\ \A i \in Slots : \A n :
              Holds(receive_queue[p], i, n) => Holds(Filed(p, q), i, n)
         /\ HasSlot(p, q.tag) => Holds(Filed(p, q), q.tag - frame_count[p], q.nation)
<1> DEFINE old == receive_queue[p]
           s == q.tag - frame_count[p]
           new == Append(old[s], q)
<1>1. /\ old \in [Slots -> Seq(Queues)] /\ frame_count[p] \in Nat /\ q.tag \in Nat
      /\ Slots \subseteq Nat
  BY Delay DEF TypeInv, Queues
<1>2. CASE ~HasSlot(p, q.tag)
  BY <1>1, <1>2 DEF Filed
<1>3. CASE HasSlot(p, q.tag)
  <2>1. s \in Slots /\ Filed(p, q) = [old EXCEPT ![s] = new]
    BY <1>3 DEF HasSlot, Filed
  <2>2. /\ old[s] \in Seq(Queues) /\ new \in Seq(Queues)
        /\ Len(new) = Len(old[s]) + 1 /\ Len(old[s]) \in Nat
        /\ new[Len(new)] = q
        /\ \A j \in 1 .. Len(old[s]) : new[j] = old[s][j]
    BY <1>1, <2>1
  <2>3. Filed(p, q)[s] = new /\ \A i \in Slots \ {s} : Filed(p, q)[i] = old[i]
    BY <1>1, <2>1
  <2>4. Filed(p, q) \in [Slots -> Seq(Queues)]
    BY <1>1, <2>1, <2>2
  <2>5. q.tag = frame_count[p] + s
    BY <1>1
  <2>6. ASSUME NEW i \in Slots, NEW j \in 1 .. Len(Filed(p, q)[i])
        PROVE  \/ j \in 1 .. Len(old[i]) /\ Filed(p, q)[i][j] = old[i][j]
               \/ Filed(p, q)[i][j] = q /\ q.tag = frame_count[p] + i
    <3> HIDE DEF s, new
    <3>1. CASE i = s
      <4>1. j = Len(new) \/ j \in 1 .. Len(old[s])
        BY <2>2, <2>3, <3>1
      <4> QED BY <2>2, <2>3, <2>5, <3>1, <4>1
    <3>2. CASE i # s
      BY <2>3, <3>2
    <3> QED BY <3>1, <3>2
  <2>7. ASSUME NEW i \in Slots, NEW n, Holds(old, i, n)
        PROVE  Holds(Filed(p, q), i, n)
    <3>1. PICK j \in 1 .. Len(old[i]) : old[i][j].nation = n
      BY <2>7 DEF Holds
    <3> HIDE DEF s, new
    <3>2. j \in 1 .. Len(Filed(p, q)[i]) /\ Filed(p, q)[i][j] = old[i][j]
      BY <2>2, <2>3, <3>1
    <3> QED BY <3>1, <3>2 DEF Holds
  <2>8. Holds(Filed(p, q), s, q.nation)
    <3>1. Len(new) \in 1 .. Len(new)
      BY <2>2
    <3> HIDE DEF s, new
    <3> QED BY <2>2, <2>3, <3>1 DEF Holds
  <2> QED BY <2>4, <2>6, <2>7, <2>8
<1> QED BY <1>2, <1>3

-----------------------------------------------------------------------------
(* Initial states, and the actions that change no frame *)

LEMMA InitLInv ==
  ASSUME alternating_send_rate = 1, Init
  PROVE  LInv
<1>1. /\ frame_count = [p \in Nations |-> 1]
      /\ next_frame_ready = [p \in Nations |-> {}]
      /\ ai = [p \in Nations |-> {}]
      /\ broadcast = [p \in Nations |-> <<>>]
      /\ recv_queue = [p \in Nations |-> <<>>]
      /\ members = [p \in Nations |-> Nations \ {p}]
      /\ executed = [p \in Nations |-> <<>>]
      /\ issued = [p \in Nations |-> 0]
      /\ remote_send_success_flag = [p \in Nations |-> TRUE]
  BY DEF Init, Cast!Init
<1>2. ASSUME NEW p \in Nations
      PROVE  /\ send_queue[p] \in Queues
             /\ send_queue[p].nation = p
             /\ send_queue[p].tag = 1 + process_frame_delay
  <2>1. send_queue[p] = [nation |-> p, tag |-> next_send_frame(p, 1 + process_frame_delay),
                         cmds |-> <<>>, after |-> <<>>]
    BY DEF Init, init_send_queue, Queue
  <2>2. p \in Int /\ 1 + process_frame_delay \in Int
    BY Delay
  <2>3. next_send_frame(p, 1 + process_frame_delay) = 1 + process_frame_delay
    BY <2>2, EveryFrame
  <2> QED BY <2>1, <2>3, Delay DEF Queues
<1>3. ASSUME NEW p \in Nations, NEW i \in Slots
      PROVE  receive_queue[p][i] = IF i < process_frame_delay
               THEN [n \in Nations |-> [nation |-> n, tag |-> i + 1,
                                        cmds |-> <<>>, after |-> <<>>]] ELSE <<>>
  BY DEF Init, Queue
<1>4. ASSUME NEW p \in Nations, NEW i \in Slots
      PROVE  /\ receive_queue[p][i] \in Seq(Queues)
             /\ i < process_frame_delay => Len(receive_queue[p][i]) = NationCount
             /\ \A j \in 1 .. Len(receive_queue[p][i]) :
                  /\ i < process_frame_delay
                  /\ receive_queue[p][i][j] = [nation |-> j, tag |-> i + 1,
                                               cmds |-> <<>>, after |-> <<>>]
  <2>1. CASE i < process_frame_delay
    <3>1. receive_queue[p][i] = [n \in 1 .. NationCount |->
             [nation |-> n, tag |-> i + 1, cmds |-> <<>>, after |-> <<>>]]
      BY <1>3, <2>1 DEF Nations
    <3>2. ASSUME NEW n \in 1 .. NationCount
          PROVE  [nation |-> n, tag |-> i + 1, cmds |-> <<>>, after |-> <<>>] \in Queues
      BY Delay DEF Queues, Nations
    <3>3. NationCount \in Nat
      BY LockstepAssumption
    <3>4. receive_queue[p][i] \in [1 .. NationCount -> Queues]
      BY <3>1, <3>2
    <3>5. receive_queue[p][i] \in Seq(Queues) /\ Len(receive_queue[p][i]) = NationCount
      BY <3>3, <3>4
    <3>6. \A j \in 1 .. NationCount : receive_queue[p][i][j] =
             [nation |-> j, tag |-> i + 1, cmds |-> <<>>, after |-> <<>>]
      BY <3>1
    <3> QED BY <2>1, <3>5, <3>6
  <2>2. CASE ~(i < process_frame_delay)
    <3>1. receive_queue[p][i] = <<>>
      BY <1>3, <2>2
    <3>2. receive_queue[p][i] \in Seq(Queues) /\ Len(receive_queue[p][i]) = 0
      BY <3>1
    <3> QED BY <2>2, <3>2
  <2> QED BY <2>1, <2>2
<1>5. TypeInv
  <2>1. send_queue \in [Nations -> Queues]
    BY <1>2 DEF Init
  <2>2. receive_queue \in [Nations -> [Slots -> Seq(Queues)]]
    <3>1. receive_queue = [p \in Nations |-> [i \in Slots |-> receive_queue[p][i]]]
      BY DEF Init
    <3> QED BY <1>4, <3>1
  <2> QED BY <1>1, <2>1, <2>2 DEF TypeInv
<1>6. SendInv
  BY <1>1, <1>2, Delay DEF SendInv
<1>7. BroadcastInv
  BY <1>1, <1>2, Delay DEF BroadcastInv
<1>8. PendingInv
  BY <1>1 DEF PendingInv
<1>9. SlotsInv
  <2> SUFFICES ASSUME NEW p \in Nations, NEW i \in Slots,
                      NEW j \in 1 .. Len(receive_queue[p][i])
               PROVE  QueueRight(p, i, receive_queue[p][i][j])
    BY DEF SlotsInv
  <2>1. /\ i < process_frame_delay
        /\ receive_queue[p][i][j] = [nation |-> j, tag |-> i + 1,
                                     cmds |-> <<>>, after |-> <<>>]
    BY <1>4
  <2>2. i + 1 \in Nat /\ (i + 1) - process_frame_delay <= 0
    BY <2>1, Delay
  <2>3. Matches(broadcast, p, j, i + 1, <<>>)
    BY <2>2, Delay DEF Matches
  <2>4. i + 1 < send_queue[p].tag /\ frame_count[p] = 1
    BY <1>1, <1>2, <2>1, Delay
  <2> QED BY <2>1, <2>3, <2>4, Delay DEF QueueRight, OwnQueue
<1>10. ReadyInv
  <2> SUFFICES ASSUME NEW p \in Nations, NEW i \in 0 .. process_frame_delay - 1
               PROVE  Holds(receive_queue[p], i, p)
    BY <1>1 DEF ReadyInv
  <2>1. i \in Slots /\ i < process_frame_delay
    BY Delay
  <2>2. p \in 1 .. Len(receive_queue[p][i])
    BY <1>4, <2>1 DEF Nations
  <2>3. receive_queue[p][i][p].nation = p
    <3>1. receive_queue[p][i][p] = [nation |-> p, tag |-> i + 1,
                                    cmds |-> <<>>, after |-> <<>>]
      BY <1>4, <2>1, <2>2
    <3> QED BY <3>1
  <2> QED BY <2>2, <2>3 DEF Holds
<1>11. ExecutedInv
  BY <1>1 DEF ExecutedInv
<1> QED BY <1>5, <1>6, <1>7, <1>8, <1>9, <1>10, <1>11 DEF LInv

\* What the invariant says depends on these variables only.
LEMMA Untouched ==
  ASSUME LInv,
         UNCHANGED <<frame_count, send_queue, remote_send_success_flag, receive_queue,
                     next_frame_ready, ai, broadcast, executed>>
  PROVE  /\ SendInv' /\ SlotsInv' /\ ReadyInv' /\ ExecutedInv'
         /\ UNCHANGED members => BroadcastInv'
<1>1. SendInv' /\ ReadyInv' /\ ExecutedInv' /\ (UNCHANGED members => BroadcastInv')
  BY DEF LInv, SendInv, ReadyInv, ExecutedInv, BroadcastInv
<1>2. SlotsInv'
  BY DEF LInv, SlotsInv, QueueRight, OwnQueue
<1> QED BY <1>1, <1>2

LEMMA IssueStep ==
  ASSUME LInv, NEW p \in Nations, Issue(p)
  PROVE  LInv'
<1> DEFINE c == issued[p] + 1
<1>1. c \in Nat /\ send_queue[p] \in Queues
  BY DEF LInv, TypeInv
<1>2. /\ UNCHANGED <<remote_send_success_flag, broadcast, receive_queue, recv_queue, members,
                     frame_count, next_frame_ready, ai, executed>>
      /\ issued' \in [Nations -> Nat]
  <2>1. issued' = [issued EXCEPT ![p] = c]
    BY DEF Issue
  <2>2. issued' \in [Nations -> Nat]
    BY <1>1, <2>1 DEF LInv, TypeInv
  <2> QED BY <2>2 DEF Issue, frameVars
<1>3. /\ send_queue' \in [Nations -> Queues]
      /\ \A r \in Nations : /\ send_queue'[r].nation = send_queue[r].nation
                            /\ send_queue'[r].tag = send_queue[r].tag
                            /\ ~remote_send_success_flag[r] =>
                                 send_queue'[r].cmds = send_queue[r].cmds
  <2>0. send_queue \in [Nations -> Queues]
    BY DEF LInv, TypeInv
  <2> HIDE DEF c
  <2>1. CASE remote_send_success_flag[p]
    <3> DEFINE new == [send_queue[p] EXCEPT !.cmds = Append(@, c)]
    <3>1. send_queue' = [send_queue EXCEPT ![p] = new]
      BY <2>1 DEF Issue, c
    <3>2. Append(send_queue[p].cmds, c) \in Seq(Nat)
      BY <1>1 DEF Queues
    <3>3. /\ new \in Queues
          /\ new.nation = send_queue[p].nation /\ new.tag = send_queue[p].tag
      BY <1>1, <3>2 DEF Queues
    <3> HIDE DEF new
    <3> QED BY <2>0, <2>1, <3>1, <3>3
  <2>2. CASE ~remote_send_success_flag[p]
    <3> DEFINE new == [send_queue[p] EXCEPT !.after = Append(@, c)]
    <3>1. send_queue' = [send_queue EXCEPT ![p] = new]
      BY <2>2 DEF Issue, c
    <3>2. Append(send_queue[p].after, c) \in Seq(Nat)
      BY <1>1 DEF Queues
    <3>3. /\ new \in Queues
          /\ new.nation = send_queue[p].nation /\ new.tag = send_queue[p].tag
          /\ new.cmds = send_queue[p].cmds
      BY <1>1, <3>2 DEF Queues
    <3> HIDE DEF new
    <3> QED BY <2>0, <3>1, <3>3
  <2> QED BY <2>1, <2>2
<1>4. TypeInv'
  BY <1>2, <1>3 DEF LInv, TypeInv
<1>5. SendInv'
  BY <1>2, <1>3 DEF LInv, SendInv
<1>6. BroadcastInv'
  BY <1>2, <1>3 DEF LInv, BroadcastInv
<1>7. PendingInv' /\ ReadyInv' /\ ExecutedInv'
  BY <1>2 DEF LInv, PendingInv, ReadyInv, ExecutedInv
<1>8. SlotsInv'
  BY <1>2, <1>3 DEF LInv, SlotsInv, QueueRight, OwnQueue
<1> QED BY <1>4, <1>5, <1>6, <1>7, <1>8 DEF LInv

LEMMA AcceptStep ==
  ASSUME LInv, NEW p \in Nations, NEW q \in Nations, NEW n \in 0 .. Sent[q] - 1,
         Accept(p, q, n)
  PROVE  LInv'
<1> DEFINE m == [src |-> q, n |-> n]
<1>1. /\ UNCHANGED <<queueVars, frameVars, receive_queue, issued, members>>
      /\ q \in members[p]
      /\ recv_queue' = [recv_queue EXCEPT ![p] = Append(@, m)]
  BY DEF Accept, Cast!Deliver
<1>2. n \in Nat /\ n < Len(broadcast[q]) /\ q # p /\ m \in [src : Nations, n : Nat]
  <2>1. Sent[q] = Len(broadcast[q]) /\ Len(broadcast[q]) \in Nat
    BY DEF Sent, LInv, TypeInv
  <2>2. n \in Nat /\ n < Len(broadcast[q])
    BY <2>1
  <2> QED BY <1>1, <2>2 DEF LInv, PendingInv
<1>3. /\ recv_queue[p] \in Seq([src : Nations, n : Nat])
      /\ recv_queue \in [Nations -> Seq([src : Nations, n : Nat])]
  BY DEF LInv, TypeInv
<1>4. TypeInv'
  <2>1. Append(recv_queue[p], m) \in Seq([src : Nations, n : Nat])
    <3> HIDE DEF m
    <3> QED BY <1>2, <1>3
  <2>2. recv_queue' \in [Nations -> Seq([src : Nations, n : Nat])]
    <3> HIDE DEF m
    <3> QED BY <1>1, <1>3, <2>1
  <2> QED BY <1>1, <2>2 DEF LInv, TypeInv, queueVars, frameVars
<1>5. PendingInv'
  <2> SUFFICES ASSUME NEW r \in Nations, NEW i \in 1 .. Len(recv_queue'[r])
               PROVE  /\ recv_queue'[r][i].src # r
                      /\ recv_queue'[r][i].n < Len(broadcast[recv_queue'[r][i].src])
    BY <1>1 DEF PendingInv, LInv, queueVars, frameVars
  <2>1. CASE r = p /\ i = Len(recv_queue[p]) + 1
    <3>1. recv_queue'[r][i] = m
      <4> HIDE DEF m
      <4> QED BY <1>1, <1>2, <1>3, <2>1
    <3> QED BY <1>2, <2>1, <3>1
  <2>2. CASE ~(r = p /\ i = Len(recv_queue[p]) + 1)
    <3>1. i \in 1 .. Len(recv_queue[r]) /\ recv_queue'[r][i] = recv_queue[r][i]
      <4> HIDE DEF m
      <4>1. CASE r = p
        <5>1. recv_queue'[p] = Append(recv_queue[p], m)
          BY <1>1, <1>3
        <5>2. /\ Len(Append(recv_queue[p], m)) = Len(recv_queue[p]) + 1
              /\ \A j \in 1 .. Len(recv_queue[p]) :
                   Append(recv_queue[p], m)[j] = recv_queue[p][j]
              /\ Len(recv_queue[p]) \in Nat
          BY <1>2, <1>3
        <5>3. i \in 1 .. Len(recv_queue[p])
          BY <2>2, <4>1, <5>1, <5>2
        <5> QED BY <4>1, <5>1, <5>2, <5>3
      <4>2. CASE r # p
        BY <1>1, <1>3, <4>2
      <4> QED BY <4>1, <4>2
    <3> QED BY <3>1 DEF LInv, PendingInv
  <2> QED BY <2>1, <2>2
<1> QED BY <1>1, <1>4, <1>5, Untouched DEF LInv, queueVars, frameVars

LEMMA LosePlayersStep ==
  ASSUME LInv, NEW p \in Nations, LosePlayers(p)
  PROVE  LInv'
<1>1. PICK stay \in SUBSET members[p] : members' = [members EXCEPT ![p] = stay]
  BY DEF LosePlayers, Cast!LosePlayers
<1>2. UNCHANGED <<queueVars, frameVars, receive_queue, issued, recv_queue>>
  BY DEF LosePlayers, Cast!LosePlayers
<1>3. /\ members' \in [Nations -> SUBSET Nations]
      /\ \A r \in Nations : members'[r] \subseteq members[r]
  BY <1>1 DEF LInv, TypeInv
<1>4. TypeInv'
  BY <1>2, <1>3 DEF LInv, TypeInv, queueVars, frameVars
<1>5. BroadcastInv'
  BY <1>2, <1>3 DEF LInv, BroadcastInv, queueVars
<1>6. PendingInv'
  BY <1>2, <1>3 DEF LInv, PendingInv, queueVars, frameVars
<1> QED BY <1>2, <1>4, <1>5, <1>6, Untouched DEF LInv, queueVars, frameVars

LEMMA SeqElement ==
  ASSUME NEW S, NEW s \in Seq(S), NEW i \in 1 .. Len(s)
  PROVE  s[i] \in S
OBVIOUS

LEMMA HeadAndTail ==
  ASSUME NEW S, NEW s \in Seq(S), s # <<>>
  PROVE  /\ Head(s) \in S /\ Head(s) = s[1]
         /\ Len(s) \in Nat /\ Len(s) >= 1
         /\ Tail(s) \in Seq(S) /\ Len(Tail(s)) = Len(s) - 1
         /\ \A i \in 1 .. Len(s) - 1 : Tail(s)[i] = s[i + 1]
OBVIOUS

LEMMA PollMsgStep ==
  ASSUME LInv, NEW p \in Nations, PollMsg(p)
  PROVE  LInv'
<1> DEFINE m == Head(recv_queue[p])
           q == broadcast[m.src][m.n + 1]
<1>1. /\ UNCHANGED <<queueVars, frameVars, issued, members>>
      /\ recv_queue[p] # <<>>
      /\ recv_queue' = [recv_queue EXCEPT ![p] = Tail(@)]
      /\ receive_queue' = [receive_queue EXCEPT ![p] = Filed(p, q)]
  BY DEF PollMsg, Cast!Poll
<1>2. /\ recv_queue \in [Nations -> Seq([src : Nations, n : Nat])]
      /\ recv_queue[p] \in Seq([src : Nations, n : Nat])
  BY DEF LInv, TypeInv
<1>3. /\ m \in [src : Nations, n : Nat] /\ m = recv_queue[p][1]
      /\ Len(recv_queue[p]) \in Nat /\ Len(recv_queue[p]) >= 1
      /\ Tail(recv_queue[p]) \in Seq([src : Nations, n : Nat])
      /\ Len(Tail(recv_queue[p])) = Len(recv_queue[p]) - 1
      /\ \A i \in 1 .. Len(recv_queue[p]) - 1 : Tail(recv_queue[p])[i] = recv_queue[p][i + 1]
  BY <1>1, <1>2, HeadAndTail
<1>4. m.src # p /\ m.src \in Nations /\ m.n \in Nat /\ m.n < Len(broadcast[m.src])
  <2>1. 1 \in 1 .. Len(recv_queue[p])
    BY <1>3
  <2>2. m.src # p /\ m.n < Len(broadcast[m.src])
    BY <1>3, <2>1 DEF LInv, PendingInv
  <2> QED BY <1>3, <2>2
<1>5. /\ q \in Queues /\ q.nation = m.src
      /\ q.tag = process_frame_delay + (m.n + 1)
      /\ Matches(broadcast, p, q.nation, q.tag, q.cmds)
  <2> DEFINE o == m.n + 1
  <2>1. o \in 1 .. Len(broadcast[m.src]) /\ broadcast[m.src] \in Seq(Queues)
    <3> HIDE DEF m
    <3>1. broadcast[m.src] \in Seq(Queues)
      BY <1>4 DEF LInv, TypeInv
    <3>2. Len(broadcast[m.src]) \in Nat
      BY <3>1
    <3> QED BY <1>4, <3>1, <3>2
  <2>2. q \in Queues /\ q.nation = m.src /\ q.tag = process_frame_delay + o
    <3> HIDE DEF m
    <3> QED BY <1>4, <2>1 DEF LInv, BroadcastInv
  <2>3. q.tag - process_frame_delay = o /\ ~(o <= 0)
    BY <1>4, <2>2, Delay
  <2> QED BY <2>1, <2>2, <2>3 DEF Matches
<1> HIDE DEF q
<1>6. /\ Filed(p, q) \in [Slots -> Seq(Queues)]
      /\ \A i \in Slots : \A j \in 1 .. Len(Filed(p, q)[i]) :
           \/ /\ j \in 1 .. Len(receive_queue[p][i])
              /\ Filed(p, q)[i][j] = receive_queue[p][i][j]
           \/ Filed(p, q)[i][j] = q /\ q.tag = frame_count[p] + i
      /\ \A i \in Slots : \A n : Holds(receive_queue[p], i, n) => Holds(Filed(p, q), i, n)
  BY <1>5, FiledFacts DEF LInv
<1>7. /\ receive_queue' \in [Nations -> [Slots -> Seq(Queues)]]
      /\ receive_queue'[p] = Filed(p, q)
      /\ \A r \in Nations \ {p} : receive_queue'[r] = receive_queue[r]
  BY <1>1, <1>6 DEF LInv, TypeInv
<1>8. TypeInv'
  <2>1. recv_queue' \in [Nations -> Seq([src : Nations, n : Nat])]
    BY <1>1, <1>2, <1>3
  <2> QED BY <1>1, <1>7, <2>1 DEF LInv, TypeInv, queueVars, frameVars
<1>9. PendingInv'
  <2> SUFFICES ASSUME NEW r \in Nations, NEW i \in 1 .. Len(recv_queue'[r])
               PROVE  /\ recv_queue'[r][i].src # r
                      /\ recv_queue'[r][i].n < Len(broadcast[recv_queue'[r][i].src])
    BY <1>1 DEF PendingInv, LInv, queueVars, frameVars
  <2>1. CASE r = p
    <3>1. recv_queue'[p] = Tail(recv_queue[p])
      BY <1>1, <1>2
    <3>2. i \in 1 .. Len(recv_queue[p]) - 1 /\ recv_queue'[p][i] = recv_queue[p][i + 1]
      BY <1>3, <2>1, <3>1
    <3>3. i + 1 \in 1 .. Len(recv_queue[p])
      BY <1>3, <3>2
    <3> QED BY <2>1, <3>2, <3>3 DEF LInv, PendingInv
  <2>2. CASE r # p
    <3>1. recv_queue'[r] = recv_queue[r]
      BY <1>1, <1>2, <2>2
    <3> QED BY <3>1 DEF LInv, PendingInv
  <2> QED BY <2>1, <2>2
<1>10. SendInv' /\ BroadcastInv' /\ ExecutedInv'
  BY <1>1 DEF LInv, SendInv, BroadcastInv, ExecutedInv, queueVars, frameVars
<1>11. SlotsInv'
  <2> SUFFICES ASSUME NEW r \in Nations, NEW i \in Slots,
                      NEW j \in 1 .. Len(receive_queue'[r][i])
               PROVE  QueueRight(r, i, receive_queue'[r][i][j])
    BY <1>1 DEF SlotsInv, QueueRight, OwnQueue, queueVars, frameVars
  <2>1. CASE r = p /\ receive_queue'[r][i][j] = q /\ q.tag = frame_count[p] + i
    BY <1>4, <1>5, <2>1 DEF QueueRight, OwnQueue
  <2>2. CASE j \in 1 .. Len(receive_queue[r][i])
             /\ receive_queue'[r][i][j] = receive_queue[r][i][j]
    BY <2>2 DEF LInv, SlotsInv
  <2> QED BY <1>6, <1>7, <2>1, <2>2
<1>12. ReadyInv'
  <2>1. \A r \in Nations : \A i \in Slots : \A n :
          Holds(receive_queue[r], i, n) => Holds(receive_queue'[r], i, n)
    BY <1>6, <1>7
  <2>2. 0 \in Slots /\ process_frame_delay \in Slots
        /\ \A i \in 0 .. process_frame_delay - 1 : i \in Slots
    BY Delay
  <2> QED BY <1>1, <2>1, <2>2 DEF LInv, ReadyInv, queueVars, frameVars
<1> QED BY <1>8, <1>9, <1>10, <1>11, <1>12 DEF LInv

-----------------------------------------------------------------------------
(* is_mp_sync *)

\* Broadcasting the frame's queue: it is what everybody has to execute of p
\* for its tag, and changes nothing for any other tag or player.
LEMMA SendQueueFacts ==
  ASSUME alternating_send_rate = 1, LInv, NEW p \in Nations,
         p \notin next_frame_ready[p], SendQueue(p)
  PROVE  LET tag == frame_count[p] + process_frame_delay IN
         /\ send_queue' \in [Nations -> Queues]
         /\ send_queue'[p].nation = p /\ send_queue'[p].tag = tag + 1
         /\ \A r \in Nations \ {p} : send_queue'[r] = send_queue[r]
         /\ remote_send_success_flag' = [remote_send_success_flag EXCEPT ![p] = TRUE]
         /\ broadcast' \in [Nations -> Seq(Queues)]
         /\ \A n \in Nations : Len(broadcast[n]) <= Len(broadcast'[n])
         /\ UNCHANGED <<recv_queue, members>>
         /\ BroadcastInv'
         /\ \A r, n \in Nations : \A f \in Nat : \A c :
              Matches(broadcast, r, n, f, c) /\ (r = p /\ n = p => f < tag)
                => Matches(broadcast', r, n, f, c)
         /\ Matches(broadcast', p, p, tag, send_queue[p].cmds)
<1> DEFINE tag == frame_count[p] + process_frame_delay
           L == Len(broadcast[p])
<1>1. /\ frame_count[p] \in Nat /\ frame_count[p] >= 1 /\ tag \in Nat
      /\ send_queue[p] \in Queues /\ broadcast[p] \in Seq(Queues) /\ L \in Nat
  BY Delay DEF LInv, TypeInv
<1>2. send_queue[p].nation = p /\ send_queue[p].tag = tag
  BY <1>1, Delay DEF LInv, SendInv
<1>3. /\ \A i \in 1 .. L : /\ broadcast[p][i].nation = p
                           /\ broadcast[p][i].tag = process_frame_delay + i
      /\ L <= tag - process_frame_delay - 1
      /\ members[p] # {} => L = tag - process_frame_delay - 1
  BY SMTT(30), <1>1, <1>2, Delay DEF LInv, BroadcastInv
<1>4. /\ send_queue' = [send_queue EXCEPT ![p] = init_send_queue(p, frame_count[p] + 1)]
      /\ remote_send_success_flag' = [remote_send_success_flag EXCEPT ![p] = TRUE]
      /\ UNCHANGED <<recv_queue, members>>
  BY DEF SendQueue, Cast!Broadcast
<1>5. /\ init_send_queue(p, frame_count[p] + 1) \in Queues
      /\ init_send_queue(p, frame_count[p] + 1).nation = p
      /\ init_send_queue(p, frame_count[p] + 1).tag = tag + 1
  <2> DEFINE f == frame_count[p] + 1 + process_frame_delay
  <2>1. p \in Int /\ f \in Int
    BY <1>1, Delay
  <2>2. next_send_frame(p, f) = f
    <3> HIDE DEF f
    <3> QED BY <2>1, EveryFrame
  <2>3. init_send_queue(p, frame_count[p] + 1) =
          [nation |-> p, tag |-> f, cmds |-> <<>>, after |-> <<>>]
    BY <2>2 DEF init_send_queue, Queue
  <2>4. f = tag + 1 /\ f \in Nat
    BY <1>1, Delay
  <2>5. [nation |-> p, tag |-> f, cmds |-> <<>>, after |-> <<>>] \in Queues
    <3> HIDE DEF f
    <3>1. <<>> \in Seq(Nat)
      OBVIOUS
    <3> QED BY <2>4, <3>1 DEF Queues
  <2> HIDE DEF f
  <2> QED BY <2>3, <2>4, <2>5
<1>6. /\ send_queue' \in [Nations -> Queues]
      /\ send_queue'[p].nation = p /\ send_queue'[p].tag = tag + 1
      /\ \A r \in Nations \ {p} : send_queue'[r] = send_queue[r]
  BY <1>4, <1>5 DEF LInv, TypeInv
<1>7. CASE members[p] = {}
  <2>1. broadcast' = broadcast
    BY <1>7 DEF SendQueue
  <2>2. BroadcastInv'
    <3> SUFFICES ASSUME NEW r \in Nations
                 PROVE  Len(broadcast[r]) < send_queue'[r].tag - process_frame_delay
                        /\ (members[r] # {} => Len(broadcast[r]) =
                              send_queue'[r].tag - process_frame_delay - 1)
      BY <1>4, <2>1 DEF LInv, BroadcastInv
    <3>1. CASE r = p
      <4>1. L < (tag + 1) - process_frame_delay
        BY SMTT(30), <1>1, <1>3, Delay
      <4> QED BY <1>6, <1>7, <3>1, <4>1
    <3>2. CASE r # p
      BY <1>6, <3>2 DEF LInv, BroadcastInv
    <3> QED BY <3>1, <3>2
  <2>3. Matches(broadcast, p, p, tag, send_queue[p].cmds)
    <3>1. tag - process_frame_delay > L /\ tag - process_frame_delay >= 1
      BY <1>1, <1>3, Delay
    <3> QED BY <1>1, <3>1, Delay DEF Matches
  <2>4. \A n \in Nations : Len(broadcast[n]) <= Len(broadcast[n])
    BY DEF LInv, TypeInv
  <2> QED BY <1>4, <1>6, <2>1, <2>2, <2>3, <2>4 DEF LInv, TypeInv
<1>8. CASE members[p] # {}
  <2> DEFINE new == Append(broadcast[p], send_queue[p])
  <2>1. broadcast' = [broadcast EXCEPT ![p] = new]
    BY <1>8 DEF SendQueue
  <2>2. /\ new \in Seq(Queues) /\ Len(new) = L + 1 /\ new[L + 1] = send_queue[p]
        /\ \A i \in 1 .. L : new[i] = broadcast[p][i]
    BY <1>1
  <2> HIDE DEF new
  <2>3. /\ broadcast' \in [Nations -> Seq(Queues)] /\ broadcast'[p] = new
        /\ \A r \in Nations \ {p} : broadcast'[r] = broadcast[r]
    BY <2>1, <2>2 DEF LInv, TypeInv
  <2>4. L + 1 = tag - process_frame_delay
    BY <1>1, <1>3, <1>8, Delay
  <2>5. ASSUME NEW i \in 1 .. Len(new)
        PROVE  new[i].nation = p /\ new[i].tag = process_frame_delay + i
    <3>1. CASE i = L + 1
      <4>1. tag = process_frame_delay + (L + 1)
        BY <1>1, <2>4, Delay
      <4> HIDE DEF tag, L
      <4> QED BY <1>2, <2>2, <3>1, <4>1
    <3>2. CASE i # L + 1
      BY SMTT(30), <1>1, <1>3, <2>2, <3>2
    <3> QED BY <3>1, <3>2
  <2>6. BroadcastInv'
    <3> SUFFICES ASSUME NEW r \in Nations
                 PROVE  /\ \A i \in 1 .. Len(broadcast'[r]) :
                             /\ broadcast'[r][i].nation = r
                             /\ broadcast'[r][i].tag = process_frame_delay + i
                        /\ Len(broadcast'[r]) < send_queue'[r].tag - process_frame_delay
                        /\ members[r] # {} => Len(broadcast'[r]) =
                             send_queue'[r].tag - process_frame_delay - 1
      BY <1>4 DEF BroadcastInv
    <3>1. CASE r = p
      <4>1. /\ L + 1 < (tag + 1) - process_frame_delay
            /\ L + 1 = (tag + 1) - process_frame_delay - 1
        BY SMTT(30), <1>1, <2>4, Delay
      <4> HIDE DEF tag, L
      <4> QED BY <1>6, <2>2, <2>3, <2>5, <3>1, <4>1
    <3>2. CASE r # p
      <4>1. broadcast'[r] = broadcast[r] /\ send_queue'[r] = send_queue[r]
        BY <1>6, <2>3, <3>2
      <4> QED BY <4>1 DEF LInv, BroadcastInv
    <3> QED BY <3>1, <3>2
  <2>7. ASSUME NEW n \in Nations
        PROVE  Len(broadcast[n]) <= Len(broadcast'[n])
    <3>1. Len(broadcast[n]) \in Nat
      BY DEF LInv, TypeInv
    <3> QED BY <1>1, <2>2, <2>3, <3>1
  <2>8. ASSUME NEW r \in Nations, NEW n \in Nations, NEW f \in Nat, NEW c,
               Matches(broadcast, r, n, f, c), r = p /\ n = p => f < tag
        PROVE  Matches(broadcast', r, n, f, c)
    <3> DEFINE o == f - process_frame_delay
    <3>1. CASE n # p
      BY <2>3, <2>8, <3>1 DEF Matches
    <3>2. CASE n = p /\ o \in 1 .. L
      <4>1. o \in 1 .. Len(new) /\ new[o] = broadcast[p][o]
        BY <1>1, <2>2, <3>2
      <4>2. c = broadcast[p][o].cmds /\ ~(o <= 0)
        BY <2>8, <3>2, <1>1, Delay DEF Matches
      <4> QED BY <2>3, <3>2, <4>1, <4>2 DEF Matches
    <3>3. CASE n = p /\ o \notin 1 .. L
      <4>1. o \in Int
        BY Delay
      <4>2. o <= 0 \/ r = p
        BY <1>1, <2>8, <3>3, <4>1 DEF Matches
      <4>3. ~(o \in 1 .. Len(new))
        BY SMTT(30), <1>1, <2>2, <2>4, <2>8, <3>3, <4>1, <4>2, Delay
      <4> QED BY <2>3, <2>8, <3>3, <4>2, <4>3 DEF Matches
    <3> QED BY <3>1, <3>2, <3>3
  <2>9. Matches(broadcast', p, p, tag, send_queue[p].cmds)
    <3>1. tag - process_frame_delay = L + 1 /\ L + 1 \in 1 .. Len(new) /\ ~(L + 1 <= 0)
      BY <1>1, <2>2, <2>4
    <3> QED BY <2>2, <2>3, <3>1 DEF Matches
  <2> QED BY <1>4, <1>6, <2>3, <2>6, <2>7, <2>8, <2>9
<1> QED BY <1>7, <1>8

\* What the rest of is_mp_sync finds in the receive queues: the queues of the
\* frames to come, p's own for this frame and for all up to the delay, and
\* those of everyone known to be ready.
Prepared(bc, p, slots) ==
  /\ slots \in [Slots -> Seq(Queues)]
  /\ \A i \in Slots : \A j \in 1 .. Len(slots[i]) :
       LET q == slots[i][j] IN
       /\ q.tag = frame_count[p] + i
       /\ Matches(bc, p, q.nation, q.tag, q.cmds)
       /\ q.nation = p => q.tag <= frame_count[p] + process_frame_delay
  /\ \A n \in next_frame_ready[p] : Holds(slots, 0, n)
  /\ \A i \in 0 .. process_frame_delay : Holds(slots, i, p)

\* Everybody in ready has a queue for the frame.
LEMMA ReadyHold ==
  ASSUME TypeInv, NEW p \in Nations, NEW bc, NEW slots, Prepared(bc, p, slots)
  PROVE  LET ready == next_frame_ready[p] \cup Announced(slots) IN
         /\ ready \in SUBSET Nations /\ p \in ready
         /\ \A n \in ready : Holds(slots, 0, n)
<1>1. /\ 0 \in Slots /\ slots[0] \in Seq(Queues) /\ Holds(slots, 0, p)
      /\ next_frame_ready[p] \subseteq Nations
  BY Delay DEF Prepared, TypeInv
<1>2. DOMAIN slots[0] = 1 .. Len(slots[0])
  BY <1>1
<1>3. Announced(slots) = {slots[0][i].nation : i \in 1 .. Len(slots[0])}
  BY <1>2 DEF Announced
<1>4. Announced(slots) \subseteq Nations
  <2>1. \A i \in 1 .. Len(slots[0]) : slots[0][i] \in Queues
    BY <1>1
  <2> QED BY <1>3, <2>1 DEF Queues
<1>5. p \in Announced(slots) /\ \A n \in Announced(slots) : Holds(slots, 0, n)
  BY <1>1, <1>3 DEF Holds
<1> QED BY <1>1, <1>4, <1>5 DEF Prepared

\* p goes on to the next frame, or waits, and the invariant holds again.
LEMMA ProceedStep ==
  ASSUME alternating_send_rate = 1, LInv, NEW p \in Nations, NEW slots,
         Prepared(broadcast', p, slots), Proceed(p, slots),
         send_queue' \in [Nations -> Queues],
         send_queue'[p].nation = p,
         send_queue'[p].tag = frame_count[p] + process_frame_delay + 1,
         \A r \in Nations \ {p} : send_queue'[r] = send_queue[r],
         remote_send_success_flag' = [remote_send_success_flag EXCEPT ![p] = TRUE],
         broadcast' \in [Nations -> Seq(Queues)],
         \A n \in Nations : Len(broadcast[n]) <= Len(broadcast'[n]),
         UNCHANGED <<recv_queue, members, issued>>,
         BroadcastInv',
         \A r, n \in Nations : \A f \in Nat : \A c :
           Matches(broadcast, r, n, f, c)
           /\ (r = p /\ n = p => f < frame_count[p] + process_frame_delay)
             => Matches(broadcast', r, n, f, c)
  PROVE  LInv'
<1> DEFINE fc == frame_count[p]
           ready == next_frame_ready[p] \cup Announced(slots)
           orders == [n \in Humans(p) |-> ExecutedOf(slots[0], n)]
<1>0. TypeInv
  BY DEF LInv
<1>1. /\ ready \in SUBSET Nations /\ p \in ready
      /\ \A n \in ready : Holds(slots, 0, n)
  BY <1>0, ReadyHold
<1> HIDE DEF ready
<1>2. /\ fc \in Nat /\ fc >= 1 /\ 0 \in Slots
      /\ slots \in [Slots -> Seq(Queues)]
  <2>1. fc \in Nat \ {0}
    BY <1>0 DEF TypeInv
  <2>2. 0 \in Slots
    BY Delay
  <2>3. slots \in [Slots -> Seq(Queues)]
    BY DEF Prepared
  <2> QED BY <2>1, <2>2, <2>3
<1>3. /\ \A r \in Nations \ {p} : remote_send_success_flag'[r] = remote_send_success_flag[r]
      /\ remote_send_success_flag'[p] = TRUE
      /\ remote_send_success_flag' \in [Nations -> BOOLEAN]
  BY <1>0 DEF TypeInv
\* The two outcomes.
<1>4. \/ /\ frame_count' = frame_count /\ executed' = executed
         /\ next_frame_ready' = [next_frame_ready EXCEPT ![p] = ready]
         /\ receive_queue' = [receive_queue EXCEPT ![p] = slots]
         /\ \E n \in Nations \ {p} :
              ai' = ai \/ ai' = [ai EXCEPT ![p] = @ \cup {n}]
      \/ /\ frame_count' = [frame_count EXCEPT ![p] = @ + 1]
         /\ executed' = [executed EXCEPT ![p] = Append(@, orders)]
         /\ next_frame_ready' = [next_frame_ready EXCEPT ![p] = {}]
         /\ receive_queue' = [receive_queue EXCEPT ![p] = Shifted(slots)]
         /\ ai' = ai
         /\ \A n \in Humans(p) : n \in ready
  <2>1. CASE WaitForPlayers(p, slots)
    <3> DEFINE unready == Unready(p, ready)
               last == CHOOSE n \in unready : \A i \in unready : i <= n
    <3>1. /\ frame_count' = frame_count /\ executed' = executed
          /\ next_frame_ready' = [next_frame_ready EXCEPT ![p] = ready]
          /\ receive_queue' = [receive_queue EXCEPT ![p] = slots]
          /\ unready # {}
          /\ ai' = ai \/ ai' = [ai EXCEPT ![p] = @ \cup {last}]
      BY <2>1 DEF WaitForPlayers, ready
    <3>2. last \in unready
      <4>1. unready \in SUBSET Nations
        BY DEF Unready, Humans
      <4>2. \E n \in unready : \A i \in unready : i <= n
        <5> HIDE DEF unready
        <5> QED BY <3>1, <4>1, Greatest
      <4> HIDE DEF unready
      <4> QED BY <4>2
    <3>3. last \in Nations \ {p}
      <4> HIDE DEF last
      <4> QED BY <3>2 DEF Unready, Humans
    <3> HIDE DEF last, unready
    <3> QED BY <3>1, <3>3
  <2>2. CASE ProcessFrame(p, slots)
    <3>1. /\ Unready(p, ready) = {}
          /\ frame_count' = [frame_count EXCEPT ![p] = @ + 1]
          /\ executed' = [executed EXCEPT ![p] = Append(@, orders)]
          /\ next_frame_ready' = [next_frame_ready EXCEPT ![p] = {}]
          /\ receive_queue' = [receive_queue EXCEPT ![p] = Shifted(slots)]
          /\ ai' = ai
      BY <2>2 DEF ProcessFrame, ready
    <3>2. ASSUME NEW n \in Humans(p) PROVE n \in ready
      <4>1. CASE n = p
        BY <1>1, <4>1
      <4>2. CASE n # p
        <5>1. n \in Int /\ fc \in Int
          BY <1>2, Delay DEF Humans
        <5>2. has_send_frame(n, frame_count[p])
          BY <5>1, EveryFrame
        <5> QED BY <3>1, <4>2, <5>2 DEF Unready
      <4> QED BY <4>1, <4>2
    <3> QED BY <3>1, <3>2
  <2> QED BY <2>1, <2>2 DEF Proceed
\* Nothing changes for the others.
<1>5. \A r \in Nations \ {p} :
        /\ frame_count'[r] = frame_count[r] /\ executed'[r] = executed[r]
        /\ next_frame_ready'[r] = next_frame_ready[r] /\ ai'[r] = ai[r]
        /\ receive_queue'[r] = receive_queue[r]
  BY SMTT(30), <1>0, <1>4 DEF TypeInv
<1>6. p \notin ai'[p] /\ ai' \in [Nations -> SUBSET Nations]
  <2>1. p \notin ai[p] /\ ai \in [Nations -> SUBSET Nations]
    BY <1>0 DEF LInv, PendingInv, TypeInv
  <2>2. ai' = ai \/ \E n \in Nations \ {p} : ai' = [ai EXCEPT ![p] = @ \cup {n}]
    BY <1>4
  <2>3. ASSUME NEW n \in Nations \ {p}, ai' = [ai EXCEPT ![p] = @ \cup {n}]
        PROVE  p \notin ai'[p] /\ ai' \in [Nations -> SUBSET Nations]
    <3>1. ai'[p] = ai[p] \cup {n}
      BY <2>1, <2>3
    <3>2. ai[p] \cup {n} \in SUBSET Nations
      BY <2>1
    <3>3. ai' \in [Nations -> SUBSET Nations]
      BY <2>1, <2>3, <3>2
    <3> QED BY <2>1, <3>1, <3>3
  <2> QED BY <2>1, <2>2, <2>3
<1>7. PendingInv'
  <2> SUFFICES ASSUME NEW r \in Nations, NEW i \in 1 .. Len(recv_queue[r])
               PROVE  /\ recv_queue[r][i].src # r
                      /\ recv_queue[r][i].n < Len(broadcast'[recv_queue[r][i].src])
    BY <1>5, <1>6 DEF LInv, PendingInv
  <2> DEFINE m == recv_queue[r][i]
  <2>1. m \in [src : Nations, n : Nat]
    <3>1. recv_queue[r] \in Seq([src : Nations, n : Nat])
      BY <1>0 DEF TypeInv
    <3> QED BY <3>1, SeqElement
  <2>2. m.src # r /\ m.n < Len(broadcast[m.src])
    BY DEF LInv, PendingInv
  <2> HIDE DEF m
  <2>3. /\ m.src \in Nations /\ m.n \in Nat
        /\ Len(broadcast[m.src]) \in Nat /\ Len(broadcast'[m.src]) \in Nat
        /\ Len(broadcast[m.src]) <= Len(broadcast'[m.src])
    <3>1. m.src \in Nations /\ m.n \in Nat
      BY <2>1
    <3>2. broadcast[m.src] \in Seq(Queues) /\ broadcast'[m.src] \in Seq(Queues)
      BY <1>0, <3>1 DEF TypeInv
    <3> QED BY <3>1, <3>2
  <2> QED BY <2>2, <2>3 DEF m
\* The others' queues and executed orders are still right.
<1>8. ASSUME NEW r \in Nations \ {p}, NEW i \in Slots,
             NEW j \in 1 .. Len(receive_queue'[r][i])
      PROVE  QueueRight(r, i, receive_queue[r][i][j])'
  <2> DEFINE q == receive_queue[r][i][j]
  <2>0. receive_queue'[r] = receive_queue[r] /\ receive_queue[r][i] \in Seq(Queues)
    BY <1>0, <1>5 DEF TypeInv
  <2>1. /\ q \in Queues /\ q.tag = frame_count[r] + i
        /\ Matches(broadcast, r, q.nation, q.tag, q.cmds) /\ OwnQueue(r, q)
    BY <2>0 DEF LInv, SlotsInv, QueueRight
  <2>2. /\ frame_count'[r] = frame_count[r] /\ receive_queue'[r][i][j] = q
        /\ send_queue'[r] = send_queue[r]
        /\ remote_send_success_flag'[r] = remote_send_success_flag[r]
    BY <1>3, <1>5, <2>0
  <2>3. Matches(broadcast', r, q.nation, q.tag, q.cmds)
    <3> HIDE DEF q
    <3>1. q.nation \in Nations /\ q.tag \in Nat /\ r \in Nations /\ r # p
      BY <2>1 DEF Queues
    <3> QED BY <2>1, <3>1
  <2> HIDE DEF q
  <2> QED BY <2>1, <2>2, <2>3 DEF QueueRight, OwnQueue
<1>9. ASSUME NEW r \in Nations, NEW f \in 1 .. Len(executed[r]),
             NEW n \in DOMAIN executed[r][f]
      PROVE  /\ n \in Nations /\ f \in Nat
             /\ Matches(broadcast', r, n, f, executed[r][f][n])
  <2>1. /\ Len(executed[r]) = frame_count[r] - 1
        /\ Matches(broadcast, r, n, f, executed[r][f][n])
    BY DEF LInv, ExecutedInv
  <2>2. n \in Nations
    <3>1. executed[r][f] \in Orders
      BY <1>0 DEF TypeInv
    <3> QED BY <3>1 DEF Orders
  <2>3. r = p /\ n = p => f < frame_count[p] + process_frame_delay
    BY <1>2, <2>1, Delay
  <2>4. f \in Nat
    OBVIOUS
  <2> QED BY <2>1, <2>2, <2>3, <2>4
\* p waits.
<1>10. CASE /\ frame_count' = frame_count /\ executed' = executed
            /\ next_frame_ready' = [next_frame_ready EXCEPT ![p] = ready]
            /\ receive_queue' = [receive_queue EXCEPT ![p] = slots]
  <2>1. TypeInv'
    BY <1>0, <1>1, <1>2, <1>3, <1>6, <1>10 DEF TypeInv
  <2>2. next_frame_ready'[p] = ready /\ receive_queue'[p] = slots
    BY <1>0, <1>10 DEF TypeInv
  <2>3. SendInv'
    BY <1>1, <1>3, <1>5, <1>10, <2>2 DEF LInv, SendInv
  <2>4. SlotsInv'
    <3> SUFFICES ASSUME NEW r \in Nations, NEW i \in Slots,
                        NEW j \in 1 .. Len(receive_queue'[r][i])
                 PROVE  QueueRight(r, i, receive_queue[r][i][j])'
      BY DEF SlotsInv
    <3>1. CASE r = p
      <4> DEFINE q == slots[i][j]
      <4>1. /\ j \in 1 .. Len(slots[i]) /\ receive_queue'[r][i][j] = q
            /\ q.tag = fc + i /\ Matches(broadcast', p, q.nation, q.tag, q.cmds)
            /\ q.nation = p => q.tag <= fc + process_frame_delay
        BY <2>2, <3>1 DEF Prepared
      <4>2. q.nation = p => q.tag < send_queue'[p].tag
        <5>1. fc + i \in Nat
          BY SMTT(30), <1>2, Delay
        <5> HIDE DEF q
        <5> QED BY SMTT(30), <1>2, <4>1, <5>1, Delay
      <4> HIDE DEF q
      <4> QED BY <1>10, <3>1, <4>1, <4>2 DEF QueueRight, OwnQueue
    <3>2. CASE r # p
      BY <1>8, <3>2
    <3> QED BY <3>1, <3>2
  <2>5. ReadyInv'
    <3>1. ASSUME NEW r \in Nations \ {p}
          PROVE  /\ \A n \in next_frame_ready'[r] : Holds(receive_queue'[r], 0, n)
                 /\ \A i \in 0 .. process_frame_delay - 1 : Holds(receive_queue'[r], i, r)
                 /\ r \in next_frame_ready'[r] \/ ~remote_send_success_flag'[r]
                      => Holds(receive_queue'[r], process_frame_delay, r)
      BY <1>3, <1>5 DEF LInv, ReadyInv
    <3>2. \A i \in 0 .. process_frame_delay : Holds(slots, i, p)
      BY DEF Prepared
    <3>3. /\ \A n \in next_frame_ready'[p] : Holds(receive_queue'[p], 0, n)
          /\ \A i \in 0 .. process_frame_delay - 1 : Holds(receive_queue'[p], i, p)
          /\ Holds(receive_queue'[p], process_frame_delay, p)
      <4>1. \A i \in 0 .. process_frame_delay - 1 : i \in 0 .. process_frame_delay
        BY Delay
      <4>2. process_frame_delay \in 0 .. process_frame_delay
        BY Delay
      <4> QED BY <1>1, <2>2, <3>2, <4>1, <4>2
    <3> QED BY <3>1, <3>3 DEF ReadyInv
  <2>6. ExecutedInv'
    BY <1>9, <1>10 DEF LInv, ExecutedInv
  <2> QED BY <1>7, <2>1, <2>3, <2>4, <2>5, <2>6 DEF LInv
\* p simulates the frame.
<1>11. CASE /\ frame_count' = [frame_count EXCEPT ![p] = @ + 1]
            /\ executed' = [executed EXCEPT ![p] = Append(@, orders)]
            /\ next_frame_ready' = [next_frame_ready EXCEPT ![p] = {}]
            /\ receive_queue' = [receive_queue EXCEPT ![p] = Shifted(slots)]
            /\ \A n \in Humans(p) : n \in ready
  <2>1. /\ frame_count'[p] = fc + 1 /\ frame_count' \in [Nations -> Nat \ {0}]
        /\ next_frame_ready'[p] = {} /\ next_frame_ready' \in [Nations -> SUBSET Nations]
    BY <1>0, <1>2, <1>11 DEF TypeInv
  <2>2. \A i \in Slots : Shifted(slots)[i] = IF i + 1 \in Slots THEN slots[i + 1] ELSE <<>>
    BY DEF Shifted
  <2>3. /\ Shifted(slots) \in [Slots -> Seq(Queues)]
        /\ receive_queue'[p] = Shifted(slots)
        /\ receive_queue' \in [Nations -> [Slots -> Seq(Queues)]]
    <3>1. <<>> \in Seq(Queues)
      OBVIOUS
    <3>2. Shifted(slots) \in [Slots -> Seq(Queues)]
      BY <1>2, <3>1 DEF Shifted
    <3> QED BY <1>0, <1>11, <3>2 DEF TypeInv
  <2>4. /\ orders \in Orders
        /\ \A n \in Humans(p) : Matches(broadcast', p, n, fc, orders[n])
    <3>1. slots[0] \in Seq(Queues)
      BY <1>2
    <3>2. Humans(p) \in SUBSET Nations
      BY DEF Humans
    <3>3. orders \in [Humans(p) -> Seq(Nat)]
      BY <3>1, ExecutedIsAQueue
    <3>4. orders \in Orders
      <4> HIDE DEF orders
      <4> QED BY <3>2, <3>3 DEF Orders
    <3>5. ASSUME NEW n \in Humans(p)
          PROVE  Matches(broadcast', p, n, fc, orders[n])
      <4>1. \E j \in 1 .. Len(slots[0]) : slots[0][j].nation = n
        BY <1>1, <1>11 DEF Holds
      <4>2. PICK j \in 1 .. Len(slots[0]) :
              slots[0][j].nation = n /\ ExecutedOf(slots[0], n) = slots[0][j].cmds
        BY <3>1, <4>1, ExecutedIsAQueue
      <4>3. /\ Matches(broadcast', p, slots[0][j].nation, slots[0][j].tag, slots[0][j].cmds)
            /\ slots[0][j].tag = fc + 0
        BY <1>2 DEF Prepared
      <4>4. slots[0][j].tag = fc
        BY <1>2, <4>3
      <4> QED BY <4>2, <4>3, <4>4
    <3> QED BY <3>4, <3>5
  <2>5. DOMAIN orders = Humans(p)
    OBVIOUS
  <2> HIDE DEF orders
  <2>6. /\ executed \in [Nations -> Seq(Orders)] /\ executed[p] \in Seq(Orders)
        /\ Len(executed[p]) = fc - 1
    BY <1>0 DEF TypeInv, LInv, ExecutedInv
  <2>7. /\ Append(executed[p], orders) \in Seq(Orders)
        /\ Len(Append(executed[p], orders)) = fc
        /\ Append(executed[p], orders)[fc] = orders
        /\ \A f \in 1 .. fc - 1 : Append(executed[p], orders)[f] = executed[p][f]
    <3> HIDE DEF fc
    <3> QED BY <1>2, <2>4, <2>6
  <2>8. /\ executed' \in [Nations -> Seq(Orders)]
        /\ executed'[p] = Append(executed[p], orders)
    BY <1>11, <2>6, <2>7
  <2>9. TypeInv'
    BY <1>0, <1>3, <1>6, <2>1, <2>3, <2>8 DEF TypeInv
  <2>10. SendInv'
    <3>1. send_queue'[p].tag = (fc + 1) + process_frame_delay + 0
      BY <1>2, Delay
    <3>2. ASSUME NEW r \in Nations \ {p}
          PROVE  /\ send_queue'[r].nation = r
                 /\ send_queue'[r].tag = frame_count'[r] + process_frame_delay
                      + (IF r \in next_frame_ready'[r] THEN 1 ELSE 0)
                 /\ ~remote_send_success_flag'[r] => r \notin next_frame_ready'[r]
      BY <1>3, <1>5 DEF LInv, SendInv
    <3> QED BY <1>3, <2>1, <3>1, <3>2 DEF SendInv
  <2>11. SlotsInv'
    <3> SUFFICES ASSUME NEW r \in Nations, NEW i \in Slots,
                        NEW j \in 1 .. Len(receive_queue'[r][i])
                 PROVE  QueueRight(r, i, receive_queue[r][i][j])'
      BY DEF SlotsInv
    <3>1. CASE r = p /\ i + 1 \in Slots
      <4> DEFINE q == slots[i + 1][j]
      <4>1. j \in 1 .. Len(slots[i + 1]) /\ receive_queue'[r][i][j] = q
        BY <2>2, <2>3, <3>1
      <4>2. /\ q.tag = fc + (i + 1) /\ Matches(broadcast', p, q.nation, q.tag, q.cmds)
            /\ q.nation = p => q.tag <= fc + process_frame_delay
        BY <3>1, <4>1 DEF Prepared
      <4>0. fc + (i + 1) = (fc + 1) + i /\ fc + (i + 1) \in Nat
        <5>1. i \in Nat
          BY Delay
        <5> HIDE DEF fc
        <5> QED BY <1>2, <5>1
      <4> HIDE DEF q
      <4>3. q.tag = frame_count'[p] + i /\ q.tag \in Nat
        BY <2>1, <4>0, <4>2
      <4>4. q.nation = p => q.tag < send_queue'[p].tag
        BY SMTT(30), <1>2, <4>2, <4>3, Delay
      <4> QED BY <3>1, <4>1, <4>2, <4>3, <4>4 DEF QueueRight, OwnQueue
    <3>2. CASE r = p /\ i + 1 \notin Slots
      <4>1. receive_queue'[r][i] = <<>>
        BY <2>2, <2>3, <3>2
      <4> QED BY <4>1
    <3>3. CASE r # p
      BY <1>8, <3>3
    <3> QED BY <3>1, <3>2, <3>3
  <2>12. ReadyInv'
    <3>1. ASSUME NEW r \in Nations \ {p}
          PROVE  /\ \A n \in next_frame_ready'[r] : Holds(receive_queue'[r], 0, n)
                 /\ \A i \in 0 .. process_frame_delay - 1 : Holds(receive_queue'[r], i, r)
                 /\ r \in next_frame_ready'[r] \/ ~remote_send_success_flag'[r]
                      => Holds(receive_queue'[r], process_frame_delay, r)
      BY <1>3, <1>5 DEF LInv, ReadyInv
    <3>2. ASSUME NEW i \in 0 .. process_frame_delay - 1
          PROVE  Holds(Shifted(slots), i, p)
      <4>1. i \in Slots /\ i + 1 \in Slots /\ i + 1 \in 0 .. process_frame_delay
        BY Delay
      <4>2. Holds(slots, i + 1, p)
        BY <4>1 DEF Prepared
      <4>3. Shifted(slots)[i] = slots[i + 1]
        BY <2>2, <4>1
      <4> QED BY <4>2, <4>3 DEF Holds
    <3> QED BY <1>3, <2>1, <2>3, <3>1, <3>2 DEF ReadyInv
  <2>13. ExecutedInv'
    <3> SUFFICES ASSUME NEW r \in Nations
                 PROVE  /\ Len(executed'[r]) = frame_count'[r] - 1
                        /\ \A f \in 1 .. Len(executed'[r]) : \A n \in DOMAIN executed'[r][f] :
                             Matches(broadcast', r, n, f, executed'[r][f][n])
      BY DEF ExecutedInv
    <3>1. CASE r = p
      <4>1. Len(executed'[p]) = fc
        BY <2>7, <2>8
      <4>2. fc = frame_count'[p] - 1
        BY <1>2, <2>1
      <4>3. ASSUME NEW f \in 1 .. fc, NEW n \in DOMAIN executed'[p][f]
            PROVE  Matches(broadcast', p, n, f, executed'[p][f][n])
        <5>1. CASE f = fc
          <6>1. executed'[p][f] = orders
            BY <2>7, <2>8, <5>1
          <6> QED BY <2>4, <2>5, <4>3, <5>1, <6>1
        <5>2. CASE f # fc
          <6>1. f \in 1 .. fc - 1
            BY <1>2, <5>2
          <6>2. executed'[p][f] = executed[p][f] /\ f \in 1 .. Len(executed[p])
            BY <2>6, <2>7, <2>8, <6>1
          <6> QED BY <1>9, <4>3, <6>2
        <5> QED BY <5>1, <5>2
      <4> QED BY <3>1, <4>1, <4>2, <4>3
    <3>2. CASE r # p
      <4>1. executed'[r] = executed[r] /\ frame_count'[r] = frame_count[r]
        BY <1>5, <3>2
      <4> QED BY <1>9, <4>1 DEF LInv, ExecutedInv
    <3> QED BY <3>1, <3>2
  <2> QED BY <1>7, <2>9, <2>10, <2>11, <2>12, <2>13 DEF LInv
<1> QED BY <1>4, <1>10, <1>11

\* The queue for the frame is broadcast, for the first time or again, and then
\* p goes on with the receive queues that hold it.
LEMMA SendAndProceed ==
  ASSUME alternating_send_rate = 1, LInv, NEW p \in Nations, NEW slots,
         p \notin next_frame_ready[p], SendQueue(p), Proceed(p, slots),
         UNCHANGED issued,
         slots \in [Slots -> Seq(Queues)],
         \A i \in Slots : \A j \in 1 .. Len(slots[i]) :
           \/ /\ j \in 1 .. Len(receive_queue[p][i])
              /\ slots[i][j] = receive_queue[p][i][j]
           \/ slots[i][j] = send_queue[p] /\ send_queue[p].tag = frame_count[p] + i,
         \A i \in Slots : \A n : Holds(receive_queue[p], i, n) => Holds(slots, i, n),
         Holds(slots, process_frame_delay, p)
  PROVE  LInv'
<1> DEFINE tag == frame_count[p] + process_frame_delay
<1>1. /\ send_queue' \in [Nations -> Queues]
      /\ send_queue'[p].nation = p /\ send_queue'[p].tag = tag + 1
      /\ \A r \in Nations \ {p} : send_queue'[r] = send_queue[r]
      /\ remote_send_success_flag' = [remote_send_success_flag EXCEPT ![p] = TRUE]
      /\ broadcast' \in [Nations -> Seq(Queues)]
      /\ \A n \in Nations : Len(broadcast[n]) <= Len(broadcast'[n])
      /\ UNCHANGED <<recv_queue, members>>
      /\ BroadcastInv'
      /\ \A r, n \in Nations : \A f \in Nat : \A c :
           Matches(broadcast, r, n, f, c) /\ (r = p /\ n = p => f < tag)
             => Matches(broadcast', r, n, f, c)
      /\ Matches(broadcast', p, p, tag, send_queue[p].cmds)
  BY SendQueueFacts
<1>2. /\ send_queue[p].tag = tag /\ send_queue[p].nation = p
      /\ tag \in Nat /\ frame_count[p] \in Nat
  BY Delay DEF LInv, SendInv, TypeInv
<1>3. Prepared(broadcast', p, slots)
  <2>1. ASSUME NEW i \in Slots, NEW j \in 1 .. Len(slots[i])
        PROVE  LET q == slots[i][j] IN
               /\ q.tag = frame_count[p] + i
               /\ Matches(broadcast', p, q.nation, q.tag, q.cmds)
               /\ q.nation = p => q.tag <= tag
    <3>1. CASE slots[i][j] = send_queue[p] /\ send_queue[p].tag = frame_count[p] + i
      <4> HIDE DEF tag
      <4> QED BY <1>1, <1>2, <3>1
    <3>2. CASE /\ j \in 1 .. Len(receive_queue[p][i])
               /\ slots[i][j] = receive_queue[p][i][j]
      <4> DEFINE q == receive_queue[p][i][j]
      <4>1. QueueRight(p, i, q) /\ receive_queue[p][i] \in Seq(Queues)
        BY <3>2 DEF LInv, SlotsInv, TypeInv
      <4>2. q \in Queues
        BY <3>2, <4>1, SeqElement
      <4> HIDE DEF q, tag
      <4>3. /\ q.tag = frame_count[p] + i /\ q.tag \in Nat /\ q.nation \in Nations
            /\ Matches(broadcast, p, q.nation, q.tag, q.cmds)
            /\ q.nation = p => q.tag < tag \/ (q.tag = tag /\ q.cmds = send_queue[p].cmds)
        BY <1>2, <4>1, <4>2 DEF QueueRight, OwnQueue, Queues
      <4>4. CASE q.nation = p /\ q.tag = tag
        BY <1>1, <1>2, <3>2, <4>3, <4>4 DEF q
      <4>5. CASE ~(q.nation = p /\ q.tag = tag)
        <5>1. Matches(broadcast', p, q.nation, q.tag, q.cmds)
          BY <1>1, <4>3, <4>5
        <5>2. q.nation = p => q.tag <= tag
          BY <1>2, <4>3, <4>5
        <5> QED BY <3>2, <4>3, <5>1, <5>2 DEF q
      <4> QED BY <4>4, <4>5
    <3> QED BY <3>1, <3>2
  <2>2. \A n \in next_frame_ready[p] : Holds(slots, 0, n)
    BY Delay DEF LInv, ReadyInv
  <2>3. ASSUME NEW i \in 0 .. process_frame_delay PROVE Holds(slots, i, p)
    <3>1. CASE i = process_frame_delay
      BY <3>1
    <3>2. CASE i # process_frame_delay
      <4>1. i \in 0 .. process_frame_delay - 1 /\ i \in Slots
        BY <3>2, Delay
      <4> QED BY <4>1 DEF LInv, ReadyInv
    <3> QED BY <3>1, <3>2
  <2> QED BY <2>1, <2>2, <2>3 DEF Prepared
<1> QED BY <1>1, <1>3, ProceedStep

LEMMA SendRefusedStep ==
  ASSUME LInv, NEW p \in Nations, MustSend(p), SendRefused(p),
         receive_queue' = [receive_queue EXCEPT ![p] = Filed(p, send_queue[p])],
         UNCHANGED <<frameVars, issued>>
  PROVE  LInv'
<1> DEFINE q == send_queue[p]
<1>0. TypeInv
  BY DEF LInv
<1>1. /\ UNCHANGED <<send_queue, broadcast, recv_queue, members, frame_count,
                     next_frame_ready, ai, executed>>
      /\ remote_send_success_flag' = [remote_send_success_flag EXCEPT ![p] = FALSE]
  BY DEF SendRefused, frameVars
<1>2. /\ remote_send_success_flag' \in [Nations -> BOOLEAN]
      /\ remote_send_success_flag'[p] = FALSE
      /\ \A r \in Nations \ {p} : remote_send_success_flag'[r] = remote_send_success_flag[r]
      /\ remote_send_success_flag[p] /\ p \notin next_frame_ready[p]
  BY <1>0, <1>1 DEF TypeInv, MustSend
<1>3. /\ q \in Queues /\ q.nation = p /\ q.tag = frame_count[p] + process_frame_delay
      /\ frame_count[p] \in Nat /\ frame_count[p] >= 1
  BY <1>0, <1>2, Delay DEF LInv, SendInv, TypeInv
<1>4. q.tag - frame_count[p] = process_frame_delay /\ HasSlot(p, q.tag)
  <2>1. q.tag - frame_count[p] = process_frame_delay
    BY <1>3, Delay
  <2> QED BY <2>1, Delay DEF HasSlot
<1>5. /\ Filed(p, q) \in [Slots -> Seq(Queues)]
      /\ \A i \in Slots : \A j \in 1 .. Len(Filed(p, q)[i]) :
           \/ /\ j \in 1 .. Len(receive_queue[p][i])
              /\ Filed(p, q)[i][j] = receive_queue[p][i][j]
           \/ Filed(p, q)[i][j] = q /\ q.tag = frame_count[p] + i
      /\ \A i \in Slots : \A n : Holds(receive_queue[p], i, n) => Holds(Filed(p, q), i, n)
      /\ Holds(Filed(p, q), process_frame_delay, p)
  <2> HIDE DEF q
  <2> QED BY <1>0, <1>3, <1>4, FiledFacts
<1>6. /\ receive_queue' \in [Nations -> [Slots -> Seq(Queues)]]
      /\ receive_queue'[p] = Filed(p, q)
      /\ \A r \in Nations \ {p} : receive_queue'[r] = receive_queue[r]
  BY <1>0, <1>5 DEF TypeInv
<1>7. TypeInv'
  BY <1>0, <1>1, <1>2, <1>6 DEF TypeInv
<1>8. SendInv' /\ BroadcastInv' /\ PendingInv' /\ ExecutedInv'
  <2>1. SendInv'
    BY <1>1, <1>2 DEF LInv, SendInv
  <2>2. BroadcastInv' /\ PendingInv' /\ ExecutedInv'
    BY <1>1 DEF LInv, BroadcastInv, PendingInv, ExecutedInv
  <2> QED BY <2>1, <2>2
<1>9. Matches(broadcast, p, p, q.tag, q.cmds)
  <2> DEFINE o == q.tag - process_frame_delay
  <2>1. o = frame_count[p] /\ ~(o <= 0)
    BY <1>3, Delay
  <2>2. Len(broadcast[p]) < o /\ Len(broadcast[p]) \in Nat
    BY <1>0 DEF LInv, BroadcastInv, TypeInv
  <2>3. o \notin 1 .. Len(broadcast[p])
    BY <1>3, <2>1, <2>2
  <2> QED BY <2>1, <2>3 DEF Matches
<1>10. SlotsInv'
  <2> SUFFICES ASSUME NEW r \in Nations, NEW i \in Slots,
                      NEW j \in 1 .. Len(receive_queue'[r][i])
               PROVE  QueueRight(r, i, receive_queue[r][i][j])'
    BY DEF SlotsInv
  <2> DEFINE x == receive_queue[r][i][j]
  <2>1. CASE r = p /\ receive_queue'[r][i][j] = q /\ q.tag = frame_count[p] + i
    BY <1>1, <1>2, <1>3, <1>9, <2>1 DEF QueueRight, OwnQueue
  <2>2. CASE j \in 1 .. Len(receive_queue[r][i]) /\ receive_queue'[r][i][j] = x
    <3>1. QueueRight(r, i, x)
      BY <2>2 DEF LInv, SlotsInv
    <3> HIDE DEF x, q
    <3> QED BY <1>1, <1>2, <2>2, <3>1 DEF QueueRight, OwnQueue
  <2> QED BY <1>5, <1>6, <2>1, <2>2
<1>11. ReadyInv'
  <2> HIDE DEF q
  <2>1. \A r \in Nations : \A i \in Slots : \A n :
          Holds(receive_queue[r], i, n) => Holds(receive_queue'[r], i, n)
    BY <1>5, <1>6
  <2>2. 0 \in Slots /\ process_frame_delay \in Slots
        /\ \A i \in 0 .. process_frame_delay - 1 : i \in Slots
    BY Delay
  <2> QED BY <1>1, <1>2, <1>5, <1>6, <2>1, <2>2 DEF LInv, ReadyInv
<1> QED BY <1>7, <1>8, <1>10, <1>11 DEF LInv

LEMMA IsMpSyncStep ==
  ASSUME alternating_send_rate = 1, LInv, NEW p \in Nations, IsMpSync(p)
  PROVE  LInv'
<1>0. /\ TypeInv /\ UNCHANGED issued
      /\ receive_queue[p] \in [Slots -> Seq(Queues)] /\ frame_count[p] \in Nat
      /\ send_queue[p] \in Queues /\ send_queue[p].nation = p
  BY DEF LInv, TypeInv, SendInv, IsMpSync
<1>1. CASE MustSend(p) /\ SendQueue(p) /\ Proceed(p, Filed(p, send_queue[p]))
  <2>1. p \notin next_frame_ready[p]
    BY <1>1 DEF MustSend
  <2>2. send_queue[p].tag - frame_count[p] = process_frame_delay
    <3>1. send_queue[p].tag = frame_count[p] + process_frame_delay
      BY <1>0, <2>1, Delay DEF LInv, SendInv
    <3> QED BY <1>0, <3>1, Delay
  <2>3. HasSlot(p, send_queue[p].tag)
    BY <2>2, Delay DEF HasSlot
  <2>4. /\ Filed(p, send_queue[p]) \in [Slots -> Seq(Queues)]
        /\ \A i \in Slots : \A j \in 1 .. Len(Filed(p, send_queue[p])[i]) :
             \/ /\ j \in 1 .. Len(receive_queue[p][i])
                /\ Filed(p, send_queue[p])[i][j] = receive_queue[p][i][j]
             \/ /\ Filed(p, send_queue[p])[i][j] = send_queue[p]
                /\ send_queue[p].tag = frame_count[p] + i
        /\ \A i \in Slots : \A n :
             Holds(receive_queue[p], i, n) => Holds(Filed(p, send_queue[p]), i, n)
        /\ Holds(Filed(p, send_queue[p]), process_frame_delay, p)
    BY <1>0, <2>2, <2>3, FiledFacts
  <2> QED BY <1>0, <1>1, <2>1, <2>4, SendAndProceed
<1>2. CASE /\ MustSend(p) /\ SendRefused(p)
           /\ receive_queue' = [receive_queue EXCEPT ![p] = Filed(p, send_queue[p])]
           /\ UNCHANGED frameVars
  BY <1>0, <1>2, SendRefusedStep
<1>3. CASE ~remote_send_success_flag[p] /\ SendQueue(p) /\ Proceed(p, receive_queue[p])
  <2>1. p \notin next_frame_ready[p] /\ Holds(receive_queue[p], process_frame_delay, p)
    BY <1>3 DEF LInv, SendInv, ReadyInv
  <2> QED BY <1>0, <1>3, <2>1, SendAndProceed
<1>4. CASE /\ remote_send_success_flag[p] /\ ~MustSend(p)
           /\ Proceed(p, receive_queue[p])
           /\ UNCHANGED <<queueVars, got, recv_queue, members>>
  <2>1. p \in next_frame_ready[p]
    <3>1. p \in Int /\ frame_count[p] \in Int
      BY <1>0, Delay
    <3>2. has_send_frame(p, frame_count[p])
      BY <3>1, EveryFrame
    <3> QED BY <1>4, <3>2 DEF MustSend
  <2>2. send_queue[p].tag = frame_count[p] + process_frame_delay + 1
    BY <2>1 DEF LInv, SendInv
  <2>3. /\ broadcast' = broadcast /\ send_queue' = send_queue
        /\ remote_send_success_flag' = remote_send_success_flag
        /\ UNCHANGED <<recv_queue, members>>
    BY <1>4 DEF queueVars
  <2>4. Prepared(broadcast, p, receive_queue[p])
    <3>1. ASSUME NEW i \in Slots, NEW j \in 1 .. Len(receive_queue[p][i])
          PROVE  LET q == receive_queue[p][i][j] IN
                 /\ q.tag = frame_count[p] + i
                 /\ Matches(broadcast, p, q.nation, q.tag, q.cmds)
                 /\ q.nation = p => q.tag <= frame_count[p] + process_frame_delay
      <4> DEFINE q == receive_queue[p][i][j]
      <4>1. QueueRight(p, i, q)
        BY DEF LInv, SlotsInv
      <4>2. q \in Queues
        <5>1. receive_queue[p][i] \in Seq(Queues)
          BY <1>0
        <5> QED BY <5>1, SeqElement
      <4> HIDE DEF q
      <4>3. q.nation = p => q.tag < frame_count[p] + process_frame_delay + 1
        BY <1>4, <2>2, <4>1 DEF QueueRight, OwnQueue
      <4>4. q.nation = p => q.tag <= frame_count[p] + process_frame_delay
        <5>1. q.tag \in Nat
          BY <4>2 DEF Queues
        <5> QED BY <1>0, <4>3, <5>1, Delay
      <4> QED BY <4>1, <4>4 DEF QueueRight, q
    <3>2. \A i \in 0 .. process_frame_delay : Holds(receive_queue[p], i, p)
      BY <2>1, Delay DEF LInv, ReadyInv
    <3> QED BY <1>0, <3>1, <3>2 DEF Prepared, LInv, ReadyInv
  <2>5. BroadcastInv'
    BY <2>3 DEF LInv, BroadcastInv
  <2>6. /\ \A n \in Nations : Len(broadcast[n]) <= Len(broadcast'[n])
        /\ broadcast' \in [Nations -> Seq(Queues)]
        /\ send_queue' \in [Nations -> Queues]
        /\ remote_send_success_flag' = [remote_send_success_flag EXCEPT ![p] = TRUE]
    BY <1>0, <1>4, <2>3 DEF TypeInv
  <2> QED BY <1>0, <1>4, <2>2, <2>3, <2>4, <2>5, <2>6, ProceedStep
<1> QED BY <1>1, <1>2, <1>3, <1>4 DEF IsMpSync

LEMMA NextLInv ==
  ASSUME alternating_send_rate = 1, LInv, [Next]_vars
  PROVE  LInv'
<1>1. CASE UNCHANGED vars
  <2>1. /\ UNCHANGED <<frame_count, send_queue, remote_send_success_flag, receive_queue,
                       next_frame_ready, ai, broadcast, executed>>
        /\ UNCHANGED <<recv_queue, members, issued>>
    BY <1>1 DEF vars, queueVars, frameVars
  <2>2. TypeInv' /\ PendingInv'
    BY <2>1 DEF LInv, TypeInv, PendingInv
  <2> QED BY <2>1, <2>2, Untouched DEF LInv
<1>2. CASE Next
  BY <1>2, IssueStep, PollMsgStep, LosePlayersStep, IsMpSyncStep, AcceptStep DEF Next
<1> QED BY <1>1, <1>2

-----------------------------------------------------------------------------
(* What follows *)

\* The invariant of the lockstep, for any number of players and any delay.
THEOREM LockstepInvariant ==
  ASSUME alternating_send_rate = 1
  PROVE  Spec => []LInv
<1>1. Init => LInv
  BY InitLInv
<1>2. LInv /\ [Next]_vars => LInv'
  BY NextLInv
<1> QED BY <1>1, <1>2, PTL DEF Spec

\* When every player sends in every frame, two copies of the game never execute
\* different commands of a player in the same frame, whatever the order in
\* which queues come, whoever is lost and however often broadcasts are refused.
THEOREM CopiesAgree ==
  ASSUME alternating_send_rate = 1
  PROVE  Spec => []CommandsAgree
<1>1. LInv => CommandsAgree
  <2> SUFFICES ASSUME LInv, NEW p \in Nations, NEW q \in Nations,
                      NEW f \in (DOMAIN executed[p]) \cap (DOMAIN executed[q]),
                      NEW n \in (DOMAIN executed[p][f]) \cap (DOMAIN executed[q][f])
               PROVE  executed[p][f][n] = executed[q][f][n]
    BY DEF CommandsAgree
  <2>1. executed[p] \in Seq(Orders) /\ executed[q] \in Seq(Orders)
    BY DEF LInv, TypeInv
  <2>2. f \in 1 .. Len(executed[p]) /\ f \in 1 .. Len(executed[q])
    BY <2>1
  <2>3. /\ Matches(broadcast, p, n, f, executed[p][f][n])
        /\ Matches(broadcast, q, n, f, executed[q][f][n])
    BY <2>2 DEF LInv, ExecutedInv
  <2> DEFINE o == f - process_frame_delay
  <2>4. CASE o <= 0
    BY <2>3, <2>4 DEF Matches
  <2>5. CASE o \in 1 .. Len(broadcast[n])
    BY <2>3, <2>5 DEF Matches
  <2>6. CASE ~(o <= 0) /\ o \notin 1 .. Len(broadcast[n])
    <3>1. o > 0
      BY <2>2, <2>6, Delay
    <3> QED BY <2>3, <2>6, <3>1 DEF Matches
  <2> QED BY <2>4, <2>5, <2>6
<1> QED BY <1>1, LockstepInvariant, PTL

\* And no player broadcasts two queues for a frame.
THEOREM NoSecondQueue ==
  ASSUME alternating_send_rate = 1
  PROVE  Spec => []OneQueuePerFrame
<1>1. LInv => OneQueuePerFrame
  <2> SUFFICES ASSUME LInv, NEW p \in Nations, NEW i \in DOMAIN broadcast[p],
                      NEW j \in DOMAIN broadcast[p], i # j
               PROVE  broadcast[p][i].tag # broadcast[p][j].tag
    BY DEF OneQueuePerFrame
  <2>1. broadcast[p] \in Seq(Queues)
    BY DEF LInv, TypeInv
  <2>2. i \in 1 .. Len(broadcast[p]) /\ j \in 1 .. Len(broadcast[p])
    BY <2>1
  <2>3. /\ broadcast[p][i].tag = process_frame_delay + i
        /\ broadcast[p][j].tag = process_frame_delay + j
    BY <2>2 DEF LInv, BroadcastInv
  <2> QED BY <2>2, <2>3, Delay
<1> QED BY <1>1, LockstepInvariant, PTL

-----------------------------------------------------------------------------
(* Nothing is discarded.  The invariant says which messages p has taken in:  *)
(* those of its receive queues and of the frames it has simulated.           *)

TakenInv ==
  /\ got \in [Nations -> [Nations -> SUBSET Nat]]
  /\ \A p \in Nations : \A q \in Nations \ {p} : \A i \in Slots :
       Holds(receive_queue[p], i, q) /\ frame_count[p] + i > process_frame_delay
         => (frame_count[p] + i) - process_frame_delay - 1 \in got[p][q]
  /\ \A p \in Nations : \A q \in Humans(p) \ {p} :
       \A f \in process_frame_delay + 1 .. frame_count[p] - 1 :
         f - process_frame_delay - 1 \in got[p][q]

\* A message not polled yet is there once, and its frame is still to come,
\* unless the AI plays for its sender.
UnpolledInv ==
  \A p \in Nations : \A k \in 1 .. Len(recv_queue[p]) :
    LET m == recv_queue[p][k]
        tag == process_frame_delay + (m.n + 1)
    IN /\ m.n \in got[p][m.src]
       /\ \A l \in 1 .. Len(recv_queue[p]) : l # k => recv_queue[p][l] # m
       /\ tag >= frame_count[p] \/ m.src \in ai[p]
       /\ \A i \in Slots : frame_count[p] + i = tag => ~Holds(receive_queue[p], i, m.src)

\* Whom p takes for human it took for human in every frame before.
HumansInv ==
  \A p \in Nations : \A f \in 1 .. Len(executed[p]) :
    Humans(p) \subseteq DOMAIN executed[p][f]

DInv == TakenInv /\ UnpolledInv /\ HumansInv

\* What a call of is_mp_sync does to one peer.  Others are not touched, and a
\* nation it goes on without is one the AI plays for.
LEMMA IsMpSyncOutcome ==
  ASSUME alternating_send_rate = 1, LInv, NEW p \in Nations, IsMpSync(p)
  PROVE  /\ recv_queue[p] = <<>> /\ UNCHANGED <<recv_queue, got>>
         /\ ai[p] \subseteq ai'[p]
         /\ \A r \in Nations \ {p} :
              /\ frame_count'[r] = frame_count[r] /\ executed'[r] = executed[r]
              /\ receive_queue'[r] = receive_queue[r] /\ ai'[r] = ai[r]
         /\ \E slots \in [Slots -> Seq(Queues)] :
              /\ \A i \in Slots : \A n \in Nations \ {p} :
                   Holds(slots, i, n) => Holds(receive_queue[p], i, n)
              /\ \/ /\ frame_count'[p] = frame_count[p] /\ executed'[p] = executed[p]
                    /\ receive_queue'[p] = slots
                 \/ /\ frame_count'[p] = frame_count[p] + 1
                    /\ executed'[p] = Append(executed[p],
                         [n \in Humans(p) |-> ExecutedOf(slots[0], n)])
                    /\ receive_queue'[p] = Shifted(slots) /\ ai'[p] = ai[p]
                    /\ \A n \in Humans(p) \ {p} : Holds(slots, 0, n)
<1>0. /\ TypeInv /\ receive_queue[p] \in [Slots -> Seq(Queues)]
      /\ send_queue[p] \in Queues /\ send_queue[p].nation = p
      /\ frame_count[p] \in Nat
  BY DEF LInv, TypeInv, SendInv
<1>1. recv_queue[p] = <<>> /\ UNCHANGED <<recv_queue, got>>
  BY DEF IsMpSync, SendQueue, SendRefused, Cast!Broadcast
<1>2. PICK slots \in {receive_queue[p], Filed(p, send_queue[p])} :
        \/ Proceed(p, slots)
        \/ /\ receive_queue' = [receive_queue EXCEPT ![p] = slots]
           /\ UNCHANGED frameVars
  BY DEF IsMpSync
<1>3. /\ slots \in [Slots -> Seq(Queues)]
      /\ \A i \in Slots : \A n \in Nations \ {p} :
           Holds(slots, i, n) => Holds(receive_queue[p], i, n)
      /\ \A i \in Slots : \A n : Holds(receive_queue[p], i, n) => Holds(slots, i, n)
  <2>1. CASE slots = receive_queue[p]
    BY <1>0, <2>1
  <2>2. CASE slots = Filed(p, send_queue[p])
    <3>1. /\ slots \in [Slots -> Seq(Queues)]
          /\ \A i \in Slots : \A j \in 1 .. Len(slots[i]) :
               \/ /\ j \in 1 .. Len(receive_queue[p][i])
                  /\ slots[i][j] = receive_queue[p][i][j]
               \/ slots[i][j] = send_queue[p] /\ send_queue[p].tag = frame_count[p] + i
          /\ \A i \in Slots : \A n : Holds(receive_queue[p], i, n) => Holds(slots, i, n)
      <4> DEFINE q == send_queue[p]
      <4>1. q \in Queues /\ TypeInv /\ slots = Filed(p, q)
        BY <1>0, <2>2
      <4> HIDE DEF q
      <4>2. /\ Filed(p, q) \in [Slots -> Seq(Queues)]
            /\ \A i \in Slots : \A j \in 1 .. Len(Filed(p, q)[i]) :
                 \/ /\ j \in 1 .. Len(receive_queue[p][i])
                    /\ Filed(p, q)[i][j] = receive_queue[p][i][j]
                 \/ Filed(p, q)[i][j] = q /\ q.tag = frame_count[p] + i
            /\ \A i \in Slots : \A n :
                 Holds(receive_queue[p], i, n) => Holds(Filed(p, q), i, n)
        BY <4>1, FiledFacts
      <4> QED BY <4>1, <4>2 DEF q
    <3>2. ASSUME NEW i \in Slots, NEW n \in Nations \ {p}, Holds(slots, i, n)
          PROVE  Holds(receive_queue[p], i, n)
      <4>1. PICK j \in 1 .. Len(slots[i]) : slots[i][j].nation = n
        BY <3>2 DEF Holds
      <4>2. j \in 1 .. Len(receive_queue[p][i]) /\ slots[i][j] = receive_queue[p][i][j]
        BY <1>0, <3>1, <4>1
      <4> QED BY <4>1, <4>2 DEF Holds
    <3> QED BY <3>1, <3>2
  <2> QED BY <2>1, <2>2
<1>4. CASE /\ receive_queue' = [receive_queue EXCEPT ![p] = slots]
           /\ UNCHANGED frameVars
  BY <1>0, <1>1, <1>3, <1>4 DEF frameVars, TypeInv
<1>5. CASE WaitForPlayers(p, slots)
  <2>1. /\ frame_count' = frame_count /\ executed' = executed
        /\ receive_queue' = [receive_queue EXCEPT ![p] = slots]
        /\ \E n : ai' = ai \/ ai' = [ai EXCEPT ![p] = @ \cup {n}]
    BY <1>5 DEF WaitForPlayers
  <2>2. ai[p] \subseteq ai'[p] /\ \A r \in Nations \ {p} : ai'[r] = ai[r]
    BY <1>0, <2>1 DEF TypeInv
  <2>3. receive_queue'[p] = slots /\ \A r \in Nations \ {p} : receive_queue'[r] = receive_queue[r]
    BY <1>0, <2>1 DEF TypeInv
  <2> QED BY <1>1, <1>3, <2>1, <2>2, <2>3
<1>6. CASE ProcessFrame(p, slots)
  <2> DEFINE orders == [n \in Humans(p) |-> ExecutedOf(slots[0], n)]
  <2>1. /\ Unready(p, next_frame_ready[p] \cup Announced(slots)) = {}
        /\ executed' = [executed EXCEPT ![p] = Append(@, orders)]
        /\ receive_queue' = [receive_queue EXCEPT ![p] = Shifted(slots)]
        /\ frame_count' = [frame_count EXCEPT ![p] = @ + 1]
        /\ ai' = ai
    BY <1>6 DEF ProcessFrame
  <2>2. ASSUME NEW n \in Humans(p) \ {p} PROVE Holds(slots, 0, n)
    <3>1. n \in Int /\ frame_count[p] \in Int /\ 0 \in Slots
      BY <1>0, Delay DEF Humans
    <3>2. has_send_frame(n, frame_count[p])
      BY <3>1, EveryFrame
    <3>3. n \in next_frame_ready[p] \/ n \in Announced(slots)
      BY <2>1, <3>2 DEF Unready
    <3>4. CASE n \in next_frame_ready[p]
      BY <1>3, <3>1, <3>4 DEF LInv, ReadyInv
    <3>5. CASE n \in Announced(slots)
      <4>1. slots[0] \in Seq(Queues)
        BY <1>3, <3>1
      <4>2. DOMAIN slots[0] = 1 .. Len(slots[0])
        BY <4>1
      <4> QED BY <3>5, <4>2 DEF Announced, Holds
    <3> QED BY <3>3, <3>4, <3>5
  <2> HIDE DEF orders
  <2>3. /\ frame_count'[p] = frame_count[p] + 1
        /\ executed'[p] = Append(executed[p], orders)
        /\ receive_queue'[p] = Shifted(slots) /\ ai'[p] = ai[p]
        /\ \A r \in Nations \ {p} :
             /\ frame_count'[r] = frame_count[r] /\ executed'[r] = executed[r]
             /\ receive_queue'[r] = receive_queue[r] /\ ai'[r] = ai[r]
    BY <1>0, <2>1 DEF TypeInv
  <2> QED BY <1>1, <1>3, <2>2, <2>3 DEF orders
<1> QED BY <1>2, <1>4, <1>5, <1>6 DEF Proceed

LEMMA InitDInv ==
  ASSUME alternating_send_rate = 1, Init
  PROVE  DInv
<1>1. /\ LInv /\ Cast!Init /\ frame_count = [p \in Nations |-> 1]
      /\ executed = [p \in Nations |-> <<>>]
  BY InitLInv DEF Init
<1>2. got \in [Nations -> [Nations -> SUBSET Nat]] /\ recv_queue = [p \in Nations |-> <<>>]
  BY <1>1 DEF Cast!Init
<1>3. ASSUME NEW p \in Nations, NEW q \in Nations, NEW i \in Slots,
             Holds(receive_queue[p], i, q), frame_count[p] + i > process_frame_delay
      PROVE  FALSE
  <2>1. i >= process_frame_delay
    BY <1>1, <1>3, Delay
  <2>2. receive_queue[p][i] = <<>>
    BY <2>1, Delay DEF Init
  <2> QED BY <1>3, <2>2 DEF Holds
<1>4. TakenInv
  BY <1>1, <1>2, <1>3, Delay DEF TakenInv
<1>5. UnpolledInv /\ HumansInv
  BY <1>1, <1>2 DEF UnpolledInv, HumansInv
<1> QED BY <1>4, <1>5 DEF DInv

\* A step that leaves these variables alone.
LEMMA UntouchedDInv ==
  ASSUME DInv,
         UNCHANGED <<frame_count, receive_queue, ai, recv_queue, got, executed>>
  PROVE  DInv'
<1>1. TakenInv'
  BY DEF DInv, TakenInv, Humans
<1>2. UnpolledInv'
  BY DEF DInv, UnpolledInv
<1>3. HumansInv'
  BY DEF DInv, HumansInv, Humans
<1> QED BY <1>1, <1>2, <1>3 DEF DInv

\* A message handed up is a new one: it was not taken in before.
LEMMA AcceptDInv ==
  ASSUME LInv, DInv, NEW p \in Nations, NEW q \in Nations, NEW n \in 0 .. Sent[q] - 1,
         Accept(p, q, n)
  PROVE  DInv'
<1> DEFINE m == [src |-> q, n |-> n]
           R == [src : Nations, n : Nat]
<1>0. /\ recv_queue \in [Nations -> Seq(R)] /\ frame_count[p] \in Nat
      /\ got \in [Nations -> [Nations -> SUBSET Nat]] /\ n \in Nat
  <2>1. n \in Nat
    BY DEF LInv, TypeInv, Sent
  <2>2. recv_queue \in [Nations -> Seq(R)] /\ frame_count[p] \in Nat
    BY DEF LInv, TypeInv
  <2>3. got \in [Nations -> [Nations -> SUBSET Nat]]
    BY DEF DInv, TakenInv
  <2> QED BY <2>1, <2>2, <2>3
<1>1. /\ UNCHANGED <<frame_count, receive_queue, ai, executed>>
      /\ q \in members[p] /\ n \notin got[p][q]
      /\ recv_queue' = [recv_queue EXCEPT ![p] = Append(@, m)]
      /\ got' = [got EXCEPT ![p][q] = @ \cup {n}]
  BY DEF Accept, Cast!Deliver, frameVars
<1>2. q # p
  BY <1>1 DEF LInv, PendingInv
<1>3. /\ got' \in [Nations -> [Nations -> SUBSET Nat]]
      /\ n \in got'[p][q]
      /\ \A r, s \in Nations : got[r][s] \subseteq got'[r][s]
  <2>1. got[p][q] \cup {n} \in SUBSET Nat
    BY <1>0
  <2> QED BY <1>0, <1>1, <2>1
<1>4. TakenInv'
  BY <1>1, <1>3 DEF DInv, TakenInv, Humans
<1>5. HumansInv'
  BY <1>1 DEF DInv, HumansInv, Humans
<1>6. /\ recv_queue[p] \in Seq(R) /\ m \in R /\ m.src = q /\ m.n = n
      /\ recv_queue'[p] = Append(recv_queue[p], m)
      /\ \A r \in Nations \ {p} : recv_queue'[r] = recv_queue[r]
  BY <1>0, <1>1
<1> HIDE DEF m, R
<1>7. /\ Len(recv_queue[p]) \in Nat /\ Len(recv_queue'[p]) = Len(recv_queue[p]) + 1
      /\ recv_queue'[p][Len(recv_queue[p]) + 1] = m
      /\ \A k \in 1 .. Len(recv_queue[p]) : recv_queue'[p][k] = recv_queue[p][k]
  BY <1>6
<1>8. ASSUME NEW k \in 1 .. Len(recv_queue[p]) PROVE recv_queue[p][k] # m
  <2>1. recv_queue[p][k].n \in got[p][recv_queue[p][k].src]
    BY DEF DInv, UnpolledInv
  <2> QED BY <1>1, <1>6, <2>1
<1>9. ASSUME NEW r \in Nations, NEW k \in 1 .. Len(recv_queue[r])
      PROVE  LET x == recv_queue[r][k]
                 tag == process_frame_delay + (x.n + 1)
             IN /\ x.n \in got'[r][x.src]
                /\ tag >= frame_count[r] \/ x.src \in ai[r]
                /\ \A i \in Slots : frame_count[r] + i = tag =>
                     ~Holds(receive_queue[r], i, x.src)
  <2> DEFINE x == recv_queue[r][k]
  <2>1. x.src \in Nations
    <3>1. recv_queue[r] \in Seq(R)
      BY <1>0
    <3>2. x \in R
      BY <3>1, SeqElement
    <3> QED BY <3>2 DEF R
  <2> QED BY <1>3, <2>1 DEF DInv, UnpolledInv
\* The new message: had p taken it in, it would be in got.
<1>10. /\ process_frame_delay + (n + 1) >= frame_count[p] \/ q \in ai[p]
       /\ \A i \in Slots : frame_count[p] + i = process_frame_delay + (n + 1) =>
            ~Holds(receive_queue[p], i, q)
  <2> DEFINE tag == process_frame_delay + (n + 1)
  <2>1. /\ tag \in Nat /\ tag > process_frame_delay
        /\ tag - process_frame_delay - 1 = n
    BY <1>0, Delay
  <2> HIDE DEF tag
  <2>2. tag >= frame_count[p] \/ q \in ai[p]
    <3> SUFFICES ASSUME tag < frame_count[p], q \notin ai[p] PROVE FALSE
      BY <1>0, <2>1
    <3>1. q \in Humans(p) \ {p} /\ tag \in process_frame_delay + 1 .. frame_count[p] - 1
      BY <1>0, <1>2, <2>1, Delay DEF Humans
    <3> QED BY <1>1, <2>1, <3>1 DEF DInv, TakenInv
  <2>3. ASSUME NEW i \in Slots, frame_count[p] + i = tag PROVE ~Holds(receive_queue[p], i, q)
    <3>1. /\ frame_count[p] + i > process_frame_delay
          /\ (frame_count[p] + i) - process_frame_delay - 1 = n
      <4> DEFINE f == frame_count[p] + i
      <4>1. i \in Nat /\ f = process_frame_delay + (n + 1)
        BY <2>3, Delay DEF tag
      <4>2. f \in Nat
        BY <1>0, <4>1
      <4>3. process_frame_delay \in Nat /\ n \in Nat
        BY <1>0, Delay
      <4> HIDE DEF f
      <4>4. f > process_frame_delay /\ f - process_frame_delay - 1 = n
        BY <4>1, <4>2, <4>3, Ordinal
      <4> QED BY <4>4 DEF f
    <3> QED BY <1>1, <1>2, <3>1 DEF DInv, TakenInv
  <2> QED BY <2>2, <2>3 DEF tag
<1>11. UnpolledInv'
  <2> SUFFICES ASSUME NEW r \in Nations, NEW k \in 1 .. Len(recv_queue'[r])
               PROVE  LET x == recv_queue'[r][k]
                          tag == process_frame_delay + (x.n + 1)
                      IN /\ x.n \in got'[r][x.src]
                         /\ \A l \in 1 .. Len(recv_queue'[r]) : l # k => recv_queue'[r][l] # x
                         /\ tag >= frame_count[r] \/ x.src \in ai[r]
                         /\ \A i \in Slots : frame_count[r] + i = tag =>
                              ~Holds(receive_queue[r], i, x.src)
    BY <1>1 DEF UnpolledInv
  <2>1. CASE r = p /\ k = Len(recv_queue[p]) + 1
    <3>1. \A l \in 1 .. Len(recv_queue'[p]) : l # k => recv_queue'[p][l] # m
      <4> SUFFICES ASSUME NEW l \in 1 .. Len(recv_queue'[p]), l # k
                   PROVE  recv_queue'[p][l] # m
        OBVIOUS
      <4>1. l \in 1 .. Len(recv_queue[p])
        BY <1>7, <2>1
      <4> QED BY <1>7, <1>8, <4>1
    <3> QED BY <1>3, <1>6, <1>7, <1>10, <2>1, <3>1
  <2>2. CASE r = p /\ k \in 1 .. Len(recv_queue[p])
    <3>1. recv_queue'[p][k] = recv_queue[p][k]
      BY <1>7, <2>2
    <3>2. ASSUME NEW l \in 1 .. Len(recv_queue'[p]), l # k
          PROVE  recv_queue'[p][l] # recv_queue[p][k]
      <4>1. CASE l = Len(recv_queue[p]) + 1
        BY <1>7, <1>8, <2>2, <4>1
      <4>2. CASE l # Len(recv_queue[p]) + 1
        <5>1. l \in 1 .. Len(recv_queue[p])
          BY <1>7, <4>2
        <5> QED BY <1>7, <2>2, <3>2, <5>1 DEF DInv, UnpolledInv
      <4> QED BY <4>1, <4>2
    <3> QED BY <1>9, <2>2, <3>1, <3>2
  <2>3. CASE r # p
    BY <1>6, <1>9, <2>3 DEF DInv, UnpolledInv
  <2> QED BY <1>7, <2>1, <2>2, <2>3
<1> QED BY <1>4, <1>5, <1>11 DEF DInv

\* The message polled is filed where its frame is awaited; those behind it are
\* others.
LEMMA PollMsgDInv ==
  ASSUME LInv, DInv, NEW p \in Nations, PollMsg(p)
  PROVE  DInv'
<1> DEFINE m == Head(recv_queue[p])
           q == broadcast[m.src][m.n + 1]
           R == [src : Nations, n : Nat]
<1>0. recv_queue \in [Nations -> Seq(R)] /\ frame_count[p] \in Nat /\ TypeInv
  BY DEF LInv, TypeInv
<1>1. /\ UNCHANGED <<frame_count, ai, executed, got>>
      /\ recv_queue[p] # <<>>
      /\ recv_queue' = [recv_queue EXCEPT ![p] = Tail(@)]
      /\ receive_queue' = [receive_queue EXCEPT ![p] = Filed(p, q)]
  BY DEF PollMsg, Cast!Poll, frameVars
<1>2. /\ m \in R /\ m = recv_queue[p][1]
      /\ Len(recv_queue[p]) \in Nat /\ Len(recv_queue[p]) >= 1
      /\ Len(Tail(recv_queue[p])) = Len(recv_queue[p]) - 1
      /\ \A k \in 1 .. Len(recv_queue[p]) - 1 : Tail(recv_queue[p])[k] = recv_queue[p][k + 1]
  <2> HIDE DEF R
  <2>1. recv_queue[p] \in Seq(R)
    BY <1>0
  <2> QED BY <1>1, <2>1, HeadAndTail
<1>3. /\ m.src \in Nations /\ m.n \in Nat /\ m.n < Len(broadcast[m.src])
      /\ m.n \in got[p][m.src]
      /\ \A l \in 2 .. Len(recv_queue[p]) : recv_queue[p][l] # m
  <2>1. 1 \in 1 .. Len(recv_queue[p])
    BY <1>2
  <2>2. ASSUME NEW l \in 2 .. Len(recv_queue[p]) PROVE recv_queue[p][l] # m
    <3>1. l \in 1 .. Len(recv_queue[p]) /\ l # 1
      BY <1>2
    <3> HIDE DEF m
    <3> QED BY <1>2, <2>1, <3>1 DEF DInv, UnpolledInv
  <2> HIDE DEF m
  <2> QED BY <1>2, <2>1, <2>2 DEF LInv, PendingInv, DInv, UnpolledInv
<1> HIDE DEF m
<1>4. q \in Queues /\ q.nation = m.src /\ q.tag = process_frame_delay + (m.n + 1)
  <2>1. broadcast[m.src] \in Seq(Queues)
    BY <1>3 DEF LInv, TypeInv
  <2>2. m.n + 1 \in 1 .. Len(broadcast[m.src])
    BY <1>3, <2>1
  <2>3. q \in Queues
    BY <2>1, <2>2, SeqElement
  <2> QED BY <1>3, <2>2, <2>3 DEF LInv, BroadcastInv
<1> HIDE DEF q
\* Only the queue of m is new.
<1>5. ASSUME NEW i \in Slots, NEW n, Holds(Filed(p, q), i, n)
      PROVE  \/ Holds(receive_queue[p], i, n)
             \/ n = m.src /\ frame_count[p] + i = process_frame_delay + (m.n + 1)
  <2>1. PICK j \in 1 .. Len(Filed(p, q)[i]) : Filed(p, q)[i][j].nation = n
    BY <1>5 DEF Holds
  <2>2. \/ /\ j \in 1 .. Len(receive_queue[p][i])
           /\ Filed(p, q)[i][j] = receive_queue[p][i][j]
        \/ Filed(p, q)[i][j] = q /\ q.tag = frame_count[p] + i
    BY <1>0, <1>4, FiledFacts
  <2> QED BY <1>4, <2>1, <2>2 DEF Holds
<1>6. /\ receive_queue'[p] = Filed(p, q)
      /\ \A r \in Nations \ {p} : receive_queue'[r] = receive_queue[r]
      /\ recv_queue'[p] = Tail(recv_queue[p])
      /\ \A r \in Nations \ {p} : recv_queue'[r] = recv_queue[r]
  BY <1>0, <1>1 DEF TypeInv
<1>7. TakenInv'
  <2>1. ASSUME NEW r \in Nations, NEW s \in Nations \ {r}, NEW i \in Slots,
               Holds(receive_queue'[r], i, s), frame_count[r] + i > process_frame_delay
        PROVE  (frame_count[r] + i) - process_frame_delay - 1 \in got[r][s]
    <3>1. CASE Holds(receive_queue[r], i, s)
      BY <2>1, <3>1 DEF DInv, TakenInv
    <3>2. CASE ~Holds(receive_queue[r], i, s)
      <4>1. r = p /\ s = m.src /\ frame_count[p] + i = process_frame_delay + (m.n + 1)
        BY <1>5, <1>6, <2>1, <3>2
      <4>2. (frame_count[r] + i) - process_frame_delay - 1 = m.n
        <5> DEFINE f == frame_count[r] + i
                   n == m.n
        <5>1. i \in Nat /\ process_frame_delay \in Nat /\ n \in Nat
          BY <1>3, Delay
        <5>2. f \in Nat /\ f = process_frame_delay + (n + 1)
          BY <1>0, <4>1, <5>1
        <5> HIDE DEF f, n
        <5>3. f - process_frame_delay - 1 = n
          BY <5>1, <5>2, Ordinal
        <5> QED BY <5>3 DEF f, n
      <4> QED BY <1>3, <4>1, <4>2
    <3> QED BY <3>1, <3>2
  <2> QED BY <1>1, <2>1 DEF DInv, TakenInv, Humans
<1>8. HumansInv'
  BY <1>1 DEF DInv, HumansInv, Humans
<1>9. UnpolledInv'
  <2> SUFFICES ASSUME NEW r \in Nations, NEW k \in 1 .. Len(recv_queue'[r])
               PROVE  LET x == recv_queue'[r][k]
                          tag == process_frame_delay + (x.n + 1)
                      IN /\ x.n \in got[r][x.src]
                         /\ \A l \in 1 .. Len(recv_queue'[r]) : l # k => recv_queue'[r][l] # x
                         /\ tag >= frame_count[r] \/ x.src \in ai[r]
                         /\ \A i \in Slots : frame_count[r] + i = tag =>
                              ~Holds(receive_queue'[r], i, x.src)
    BY <1>1 DEF UnpolledInv
  <2>1. CASE r = p
    <3> DEFINE x == recv_queue[p][k + 1]
               tag == process_frame_delay + (x.n + 1)
    <3>1. /\ k \in 1 .. Len(recv_queue[p]) - 1 /\ k + 1 \in 1 .. Len(recv_queue[p])
          /\ k + 1 \in 2 .. Len(recv_queue[p]) /\ recv_queue'[p][k] = x
      <4>1. recv_queue'[p] = Tail(recv_queue[p])
        BY <1>6
      <4>2. k \in 1 .. Len(recv_queue[p]) - 1
        BY <1>2, <2>1, <4>1
      <4> QED BY <1>2, <4>1, <4>2
    <3>2. /\ x.n \in got[p][x.src]
          /\ \A l \in 1 .. Len(recv_queue[p]) : l # k + 1 => recv_queue[p][l] # x
          /\ tag >= frame_count[p] \/ x.src \in ai[p]
          /\ \A i \in Slots : frame_count[p] + i = tag => ~Holds(receive_queue[p], i, x.src)
      BY <3>1 DEF DInv, UnpolledInv
    <3>3. x # m /\ x \in R
      <4>1. recv_queue[p] \in Seq(R)
        BY <1>0
      <4>2. x # m
        BY <1>3, <3>1
      <4> HIDE DEF R
      <4> QED BY <3>1, <4>1, <4>2, SeqElement
    <3> HIDE DEF x
    <3>4. x.src # m.src \/ x.n # m.n
      BY <1>2, <3>3
    <3>5. ASSUME NEW l \in 1 .. Len(recv_queue'[p]), l # k
          PROVE  recv_queue'[p][l] # x
      <4>1. /\ l \in 1 .. Len(recv_queue[p]) - 1 /\ l + 1 \in 1 .. Len(recv_queue[p])
            /\ recv_queue'[p][l] = recv_queue[p][l + 1] /\ l + 1 # k + 1
        BY <1>2, <1>6, <3>1, <3>5
      <4> QED BY <3>2, <4>1
    <3>6. ASSUME NEW i \in Slots, frame_count[p] + i = tag
          PROVE  ~Holds(receive_queue'[p], i, x.src)
      <4> SUFFICES ASSUME Holds(Filed(p, q), i, x.src) PROVE FALSE
        BY <1>6
      <4>1. x.src = m.src /\ frame_count[p] + i = process_frame_delay + (m.n + 1)
        BY <1>5, <3>2, <3>6
      <4>2. x.n \in Nat
        BY <3>3
      <4>3. x.n = m.n
        BY <1>3, <3>6, <4>1, <4>2, Delay
      <4> QED BY <3>4, <4>1, <4>3
    <3> QED BY <2>1, <3>1, <3>2, <3>5, <3>6
  <2>2. CASE r # p
    BY <1>6, <2>2 DEF DInv, UnpolledInv
  <2> QED BY <2>1, <2>2
<1> QED BY <1>7, <1>8, <1>9 DEF DInv

LEMMA ShiftedHolds ==
  ASSUME NEW slots \in [Slots -> Seq(Queues)], NEW i \in Slots, NEW n,
         Holds(Shifted(slots), i, n)
  PROVE  i + 1 \in Slots /\ Holds(slots, i + 1, n)
<1>1. PICK j \in 1 .. Len(Shifted(slots)[i]) : Shifted(slots)[i][j].nation = n
  BY DEF Holds
<1>2. i + 1 \in Slots
  <2> SUFFICES ASSUME i + 1 \notin Slots PROVE FALSE
    OBVIOUS
  <2>1. Shifted(slots)[i] = <<>>
    BY DEF Shifted
  <2> QED BY <1>1, <2>1
<1>3. Shifted(slots)[i] = slots[i + 1]
  BY <1>2 DEF Shifted
<1> QED BY <1>1, <1>2, <1>3 DEF Holds

\* A frame is simulated when the queues of all who are taken for human are in.
LEMMA IsMpSyncDInv ==
  ASSUME alternating_send_rate = 1, LInv, DInv, NEW p \in Nations, IsMpSync(p)
  PROVE  DInv'
<1>1. /\ recv_queue[p] = <<>> /\ UNCHANGED <<recv_queue, got>>
      /\ ai[p] \subseteq ai'[p]
      /\ \A r \in Nations \ {p} :
           /\ frame_count'[r] = frame_count[r] /\ executed'[r] = executed[r]
           /\ receive_queue'[r] = receive_queue[r] /\ ai'[r] = ai[r]
  BY IsMpSyncOutcome
<1>2. PICK slots \in [Slots -> Seq(Queues)] :
        /\ \A i \in Slots : \A n \in Nations \ {p} :
             Holds(slots, i, n) => Holds(receive_queue[p], i, n)
        /\ \/ /\ frame_count'[p] = frame_count[p] /\ executed'[p] = executed[p]
              /\ receive_queue'[p] = slots
           \/ /\ frame_count'[p] = frame_count[p] + 1
              /\ executed'[p] = Append(executed[p],
                   [n \in Humans(p) |-> ExecutedOf(slots[0], n)])
              /\ receive_queue'[p] = Shifted(slots) /\ ai'[p] = ai[p]
              /\ \A n \in Humans(p) \ {p} : Holds(slots, 0, n)
  BY IsMpSyncOutcome
<1>3. /\ frame_count[p] \in Nat /\ executed[p] \in Seq(Orders)
      /\ Len(executed[p]) = frame_count[p] - 1 /\ 0 \in Slots
      /\ Slots \subseteq Nat /\ process_frame_delay \in Nat
  BY Delay DEF LInv, TypeInv, ExecutedInv
<1>4. \A r \in Nations : Humans(r)' \subseteq Humans(r)
  BY <1>1 DEF Humans
<1>5. ASSUME NEW r \in Nations, NEW s \in Nations \ {r}, NEW i \in Slots,
             Holds(receive_queue'[r], i, s), frame_count'[r] + i > process_frame_delay
      PROVE  (frame_count'[r] + i) - process_frame_delay - 1 \in got[r][s]
  <2>1. CASE r # p
    BY <1>1, <1>5, <2>1 DEF DInv, TakenInv
  <2>2. CASE r = p /\ frame_count'[p] = frame_count[p] /\ receive_queue'[p] = slots
    <3>1. Holds(receive_queue[p], i, s)
      BY <1>2, <1>5, <2>2
    <3> QED BY <1>5, <2>2, <3>1 DEF DInv, TakenInv
  <2>3. CASE r = p /\ frame_count'[p] = frame_count[p] + 1 /\ receive_queue'[p] = Shifted(slots)
    <3>1. i + 1 \in Slots /\ Holds(receive_queue[p], i + 1, s)
      BY <1>2, <1>5, <2>3, ShiftedHolds
    <3>2. frame_count'[r] + i = frame_count[p] + (i + 1)
      BY <1>3, <2>3
    <3>3. frame_count[p] + (i + 1) > process_frame_delay
      BY <1>5, <3>2
    <3>4. (frame_count[p] + (i + 1)) - process_frame_delay - 1 \in got[p][s]
      BY <1>5, <2>3, <3>1, <3>3 DEF DInv, TakenInv
    <3> QED BY <2>3, <3>2, <3>4
  <2> QED BY <1>2, <2>1, <2>2, <2>3
<1>6. ASSUME NEW r \in Nations, NEW s \in Humans(r)' \ {r},
             NEW f \in process_frame_delay + 1 .. frame_count'[r] - 1
      PROVE  f - process_frame_delay - 1 \in got[r][s]
  <2>1. s \in Humans(r) \ {r} /\ s \in Nations
    BY <1>4 DEF Humans
  <2>2. CASE f \in process_frame_delay + 1 .. frame_count[r] - 1
    BY <2>1, <2>2 DEF DInv, TakenInv
  <2>3. CASE f \notin process_frame_delay + 1 .. frame_count[r] - 1
    <3>1. r = p /\ frame_count'[p] = frame_count[p] + 1 /\ f = frame_count[p]
      <4>1. r = p
        BY <1>1, <2>3
      <4> QED BY <1>2, <1>3, <2>3, <4>1
    <3>2. Holds(receive_queue[p], 0, s)
      BY <1>2, <1>3, <2>1, <3>1
    <3>3. frame_count[p] + 0 = f /\ f > process_frame_delay
      BY <1>3, <3>1
    <3>4. (frame_count[p] + 0) - process_frame_delay - 1 \in got[p][s]
      BY <1>3, <2>1, <3>1, <3>2, <3>3 DEF DInv, TakenInv
    <3> QED BY <3>1, <3>3, <3>4
  <2> QED BY <2>2, <2>3
<1>7. TakenInv'
  BY <1>1, <1>5, <1>6 DEF DInv, TakenInv
<1>8. UnpolledInv'
  <2>1. ASSUME NEW r \in Nations, NEW k \in 1 .. Len(recv_queue[r]) PROVE r # p
    BY <1>1
  <2> QED BY <1>1, <2>1 DEF DInv, UnpolledInv
<1>9. HumansInv'
  <2> SUFFICES ASSUME NEW r \in Nations, NEW f \in 1 .. Len(executed'[r])
               PROVE  Humans(r)' \subseteq DOMAIN executed'[r][f]
    BY DEF HumansInv
  <2>1. CASE executed'[r] = executed[r]
    BY <1>4, <2>1 DEF DInv, HumansInv
  <2>2. CASE executed'[r] # executed[r]
    <3> DEFINE orders == [n \in Humans(p) |-> ExecutedOf(slots[0], n)]
    <3>1. DOMAIN orders = Humans(p)
      OBVIOUS
    <3> HIDE DEF orders
    <3>2. r = p /\ executed'[p] = Append(executed[p], orders)
      BY <1>1, <1>2, <2>2 DEF orders
    <3>3. f = Len(executed[p]) + 1 \/ f \in 1 .. Len(executed[p])
      BY <1>3, <3>2
    <3>4. CASE f = Len(executed[p]) + 1
      <4>1. executed'[p][f] = orders
        BY <1>3, <3>2, <3>4
      <4> QED BY <1>4, <3>1, <3>2, <4>1
    <3>5. CASE f \in 1 .. Len(executed[p])
      <4>1. executed'[p][f] = executed[p][f]
        BY <1>3, <3>2, <3>5
      <4> QED BY <1>4, <3>2, <3>5, <4>1 DEF DInv, HumansInv
    <3> QED BY <3>3, <3>4, <3>5
  <2> QED BY <2>1, <2>2
<1> QED BY <1>7, <1>8, <1>9 DEF DInv

LEMMA NextDInv ==
  ASSUME alternating_send_rate = 1, LInv, DInv, [Next]_vars
  PROVE  DInv'
<1>1. ASSUME NEW p \in Nations, Issue(p) PROVE DInv'
  BY <1>1, UntouchedDInv DEF Issue, frameVars
<1>2. ASSUME NEW p \in Nations, PollMsg(p) PROVE DInv'
  BY <1>2, PollMsgDInv
<1>3. ASSUME NEW p \in Nations, LosePlayers(p) PROVE DInv'
  BY <1>3, UntouchedDInv DEF LosePlayers, Cast!LosePlayers, frameVars
<1>4. ASSUME NEW p \in Nations, IsMpSync(p) PROVE DInv'
  BY <1>4, IsMpSyncDInv
<1>5. ASSUME NEW p \in Nations, NEW q \in Nations, NEW n \in 0 .. Sent[q] - 1,
             Accept(p, q, n)
      PROVE  DInv'
  BY <1>5, AcceptDInv
<1>6. CASE UNCHANGED vars
  BY <1>6, UntouchedDInv DEF vars, frameVars
<1> QED BY <1>1, <1>2, <1>3, <1>4, <1>5, <1>6 DEF Next

\* A peer that p waits for is at most process_frame_delay + 1 frames ahead, and
\* broadcasts process_frame_delay frames ahead of itself.
LEMMA Ahead ==
  ASSUME LInv, HumansInv, NEW p \in Nations, NEW s \in Humans(p), s # p
  PROVE  /\ Len(broadcast[p]) \in Nat /\ Len(broadcast[p]) <= frame_count[p]
         /\ frame_count[p] <= frame_count[s] + process_frame_delay + 1
<1> DEFINE f == frame_count[p] - 1
           o == f - process_frame_delay
<1>0. s \in Nations
  BY DEF Humans
<1>1. ASSUME NEW r \in Nations
      PROVE  /\ Len(broadcast[r]) \in Nat /\ frame_count[r] \in Nat \ {0}
             /\ Len(broadcast[r]) <= frame_count[r]
  <2>1. /\ broadcast[r] \in Seq(Queues) /\ frame_count[r] \in Nat \ {0}
        /\ Len(broadcast[r]) \in Nat
    BY DEF LInv, TypeInv
  <2>2. /\ send_queue[r].tag = frame_count[r] + process_frame_delay
                                 + (IF r \in next_frame_ready[r] THEN 1 ELSE 0)
        /\ Len(broadcast[r]) < send_queue[r].tag - process_frame_delay
    BY DEF LInv, SendInv, BroadcastInv
  <2> QED BY <2>1, <2>2, Delay
<1>2. process_frame_delay \in Nat /\ Len(executed[p]) = f /\ f \in Nat
  BY <1>1, Delay DEF LInv, ExecutedInv
<1>3. CASE o <= 0
  BY <1>0, <1>1, <1>2, <1>3
<1>4. CASE o > 0
  <2>1. f \in 1 .. Len(executed[p])
    BY <1>2, <1>4
  <2>2. s \in DOMAIN executed[p][f]
    BY <2>1 DEF HumansInv
  <2>3. Matches(broadcast, p, s, f, executed[p][f][s])
    BY <2>1, <2>2 DEF LInv, ExecutedInv
  <2>4. o \in 1 .. Len(broadcast[s])
    BY <1>4, <2>3 DEF Matches
  <2>5. o <= frame_count[s]
    BY <1>0, <1>1, <1>2, <2>4
  <2> QED BY <1>0, <1>1, <1>2, <2>5
<1> QED BY <1>2, <1>3, <1>4

LEMMA Invariants ==
  ASSUME alternating_send_rate = 1
  PROVE  Spec => [](LInv /\ DInv)
<1>1. Init => LInv /\ DInv
  BY InitLInv, InitDInv
<1>2. (LInv /\ DInv) /\ [Next]_vars => (LInv /\ DInv)'
  BY NextLInv, NextDInv
<1> QED BY <1>1, <1>2, PTL DEF Spec

\* poll_msg discards the queue of a player only when one of the two has taken
\* the other for an AI: RECEIVE_QUEUE_BACKUP need be no more than twice the
\* delay and two, which is what the code computes from the longest delay.
THEOREM EveryQueueFindsItsPlace ==
  ASSUME alternating_send_rate = 1,
         RECEIVE_QUEUE_BACKUP >= 2 * process_frame_delay + 2
  PROVE  Spec => NothingDiscarded
<1> DEFINE Kept(p) ==
      LET m == Head(recv_queue[p])
          q == broadcast[m.src][m.n + 1]
      IN HasSlot(p, q.tag) \/ m.src \in ai[p] \/ p \in ai[m.src]
<1>1. ASSUME LInv, DInv, NEW p \in Nations, PollMsg(p) PROVE Kept(p)
  <2> DEFINE m == Head(recv_queue[p])
             tag == process_frame_delay + (m.n + 1)
             R == [src : Nations, n : Nat]
  <2>0. recv_queue[p] \in Seq(R) /\ recv_queue[p] # <<>>
    BY <1>1 DEF LInv, TypeInv, PollMsg, Cast!Poll
  <2>1. m \in R /\ m = recv_queue[p][1] /\ 1 \in 1 .. Len(recv_queue[p])
    <3> HIDE DEF R
    <3>1. /\ m \in R /\ m = recv_queue[p][1]
          /\ Len(recv_queue[p]) \in Nat /\ Len(recv_queue[p]) >= 1
      BY <2>0, HeadAndTail
    <3> QED BY <3>1
  <2>2. /\ m.src \in Nations /\ m.n \in Nat /\ m.src # p
        /\ m.n < Len(broadcast[m.src])
        /\ tag >= frame_count[p] \/ m.src \in ai[p]
    <3> HIDE DEF m
    <3> QED BY <1>1, <2>1 DEF LInv, PendingInv, DInv, UnpolledInv
  <2> HIDE DEF m
  <2>3. broadcast[m.src][m.n + 1].tag = tag
    <3>1. m.n + 1 \in 1 .. Len(broadcast[m.src])
      <4>1. broadcast[m.src] \in Seq(Queues)
        BY <1>1, <2>2 DEF LInv, TypeInv
      <4> QED BY <2>2, <4>1
    <3> QED BY <1>1, <2>2, <3>1 DEF LInv, BroadcastInv
  <2>4. ASSUME tag >= frame_count[p], p \notin ai[m.src]
        PROVE  tag - frame_count[p] \in Slots
    <3>1. p \in Humans(m.src) /\ HumansInv
      BY <1>1, <2>4 DEF Humans, DInv
    <3>2. /\ Len(broadcast[m.src]) \in Nat
          /\ Len(broadcast[m.src]) <= frame_count[m.src]
          /\ frame_count[m.src] <= frame_count[p] + process_frame_delay + 1
      BY <1>1, <2>2, <3>1, Ahead
    <3>3. frame_count[m.src] \in Nat /\ frame_count[p] \in Nat
      BY <1>1, <2>2 DEF LInv, TypeInv
    <3>4. RECEIVE_QUEUE_BACKUP \in Nat
      BY LockstepAssumption
    <3>5. tag - frame_count[p] \in 0 .. 2 * process_frame_delay + 1
      <4> DEFINE n == m.n
                 len == Len(broadcast[m.src])
                 there == frame_count[m.src]
                 here == frame_count[p]
      <4>1. n \in Nat /\ len \in Nat /\ there \in Nat /\ here \in Nat
        BY <2>2, <3>2, <3>3
      <4>2. n < len /\ len <= there /\ there <= here + process_frame_delay + 1
        BY <2>2, <3>2
      <4>3. process_frame_delay + (n + 1) >= here
        BY <2>4
      <4> HIDE DEF n, len, there, here
      <4>4. (process_frame_delay + (n + 1)) - here \in 0 .. 2 * process_frame_delay + 1
        BY <4>1, <4>2, <4>3, Delay
      <4> QED BY <4>4 DEF n, here
    <3> HIDE DEF tag
    <3> QED BY <3>4, <3>5, Delay
  <2> QED BY <2>2, <2>3, <2>4 DEF HasSlot, m
<1>2. (LInv /\ DInv) /\ [Next]_vars => [\A p \in Nations : PollMsg(p) => Kept(p)]_vars
  BY <1>1
<1>3. Spec => [][\A p \in Nations : PollMsg(p) => Kept(p)]_vars
  BY <1>2, Invariants, PTL DEF Spec
<1> QED BY <1>3 DEF NothingDiscarded

-----------------------------------------------------------------------------
(* Which queue of a player is executed *)

LEMMA ExecutedOfNone ==
  ASSUME NEW queues \in Seq(Queues), NEW n,
         \A j \in 1 .. Len(queues) : queues[j].nation # n
  PROVE  ExecutedOf(queues, n) = <<>>
<1>1. DOMAIN queues = 1 .. Len(queues)
  OBVIOUS
<1>2. {i \in DOMAIN queues : queues[i].nation = n} = {}
  BY <1>1
<1> QED BY <1>2 DEF ExecutedOf

LEMMA ExecutedOfFirst ==
  ASSUME NEW queues \in Seq(Queues), NEW n, NEW i \in 1 .. Len(queues),
         queues[i].nation = n,
         \A j \in 1 .. Len(queues) : queues[j].nation = n => i <= j
  PROVE  ExecutedOf(queues, n) = queues[i].cmds
<1> DEFINE own == {j \in DOMAIN queues : queues[j].nation = n}
           first == CHOOSE k \in own : \A j \in own : k <= j
<1>1. DOMAIN queues = 1 .. Len(queues)
  OBVIOUS
<1>2. i \in own /\ \A j \in own : i <= j
  BY <1>1
<1>3. own \subseteq Nat
  BY <1>1
<1>4. ExecutedOf(queues, n) = queues[first].cmds
  BY <1>2 DEF ExecutedOf
<1> HIDE DEF own
<1>5. first \in own /\ \A j \in own : first <= j
  BY <1>2
<1> HIDE DEF first
<1>6. first = i
  BY <1>2, <1>3, <1>5
<1> QED BY <1>4, <1>6

\* The queues of other nations do not matter.
LEMMA ExecutedOfAppend ==
  ASSUME NEW queues \in Seq(Queues), NEW q \in Queues, NEW n
  PROVE  /\ q.nation # n => ExecutedOf(Append(queues, q), n) = ExecutedOf(queues, n)
         /\ q.nation = n /\ (\A j \in 1 .. Len(queues) : queues[j].nation # n) =>
              ExecutedOf(Append(queues, q), n) = q.cmds
<1> DEFINE more == Append(queues, q)
<1>1. /\ more \in Seq(Queues) /\ Len(queues) \in Nat /\ Len(more) = Len(queues) + 1
      /\ more[Len(more)] = q /\ \A j \in 1 .. Len(queues) : more[j] = queues[j]
      /\ DOMAIN queues = 1 .. Len(queues) /\ DOMAIN more = 1 .. Len(more)
  OBVIOUS
<1> HIDE DEF more
<1>2. ASSUME q.nation # n
      PROVE  ExecutedOf(more, n) = ExecutedOf(queues, n)
  <2> DEFINE own == {j \in DOMAIN queues : queues[j].nation = n}
             first == CHOOSE k \in own : \A j \in own : k <= j
  <2>1. {j \in DOMAIN more : more[j].nation = n} = own
    BY <1>1, <1>2
  <2>2. own = {} => ExecutedOf(queues, n) = <<>> /\ ExecutedOf(more, n) = <<>>
    BY <2>1 DEF ExecutedOf
  <2>3. own # {} => /\ ExecutedOf(queues, n) = queues[first].cmds
                    /\ ExecutedOf(more, n) = more[first].cmds
    BY <2>1 DEF ExecutedOf
  <2>4. own # {} => first \in own
    <3>1. own \in SUBSET Nat
      BY <1>1
    <3> HIDE DEF own
    <3> QED BY <3>1, Least
  <2>5. own \subseteq 1 .. Len(queues)
    BY <1>1
  <2> HIDE DEF own, first
  <2>6. own # {} => more[first] = queues[first]
    BY <1>1, <2>4, <2>5
  <2> QED BY <2>2, <2>3, <2>6
<1>3. ASSUME q.nation = n, \A j \in 1 .. Len(queues) : queues[j].nation # n
      PROVE  ExecutedOf(more, n) = q.cmds
  <2>1. Len(more) \in 1 .. Len(more) /\ more[Len(more)].nation = n
    BY <1>1, <1>3
  <2>2. ASSUME NEW j \in 1 .. Len(more), more[j].nation = n PROVE Len(more) <= j
    BY <1>1, <1>3, <2>2
  <2>3. ExecutedOf(more, n) = more[Len(more)].cmds
    BY <1>1, <2>1, <2>2, ExecutedOfFirst
  <2> QED BY <1>1, <2>3
<1> QED BY <1>2, <1>3 DEF more

\* Filing a queue: what is executed of other nations, or in other frames, stays
\* as it is, and p's own queue is the first in its place.
LEMMA FiledOwn ==
  ASSUME TypeInv, NEW p \in Nations, NEW q \in Queues
  PROVE  /\ \A i \in Slots : \A n : q.nation # n \/ i # q.tag - frame_count[p] =>
              ExecutedOf(Filed(p, q)[i], n) = ExecutedOf(receive_queue[p][i], n)
         /\ HasSlot(p, q.tag) /\ q.nation = p
            /\ ~Holds(receive_queue[p], q.tag - frame_count[p], p) =>
              ExecutedOf(Filed(p, q)[q.tag - frame_count[p]], p) = q.cmds
<1> DEFINE old == receive_queue[p]
           s == q.tag - frame_count[p]
           new == Append(old[s], q)
<1>1. old \in [Slots -> Seq(Queues)]
  BY DEF TypeInv
<1>2. CASE ~HasSlot(p, q.tag)
  BY <1>2 DEF Filed
<1>3. CASE HasSlot(p, q.tag)
  <2>1. s \in Slots /\ Filed(p, q) = [old EXCEPT ![s] = new]
    BY <1>3 DEF HasSlot, Filed
  <2>2. old[s] \in Seq(Queues)
    BY <1>1, <2>1
  <2>3. /\ \A n : q.nation # n => ExecutedOf(new, n) = ExecutedOf(old[s], n)
        /\ q.nation = p /\ (\A j \in 1 .. Len(old[s]) : old[s][j].nation # p) =>
             ExecutedOf(new, p) = q.cmds
    <3> HIDE DEF old, s
    <3> QED BY <2>2, ExecutedOfAppend
  <2>4. Filed(p, q)[s] = new /\ \A i \in Slots \ {s} : Filed(p, q)[i] = old[i]
    BY <1>1, <2>1
  <2>5. ~Holds(old, s, p) => \A j \in 1 .. Len(old[s]) : old[s][j].nation # p
    BY DEF Holds
  <2> HIDE DEF new
  <2> QED BY <2>3, <2>4, <2>5
<1> QED BY <1>2, <1>3

-----------------------------------------------------------------------------
(* The queues a player has closed *)

\* p's queues are closed for the frame it is in and process_frame_delay more,
\* and are in its receive queues until they are executed.
LEMMA ClosedFrames ==
  ASSUME LInv, NEW p \in Nations
  PROVE  /\ frame_count[p] \in Nat /\ frame_count[p] >= 1
         /\ send_queue[p].tag \in Nat /\ LastClosed(p) \in Nat
         /\ LastClosed(p) = frame_count[p] + process_frame_delay \/
            LastClosed(p) + 1 = frame_count[p] + process_frame_delay
         /\ LastClosed(p) = frame_count[p] + process_frame_delay <=>
              p \in next_frame_ready[p] \/ ~remote_send_success_flag[p]
         /\ send_queue[p].tag <= LastClosed(p) + 1
         /\ LastClosed(p) <= send_queue[p].tag
         /\ remote_send_success_flag[p] => LastClosed(p) + 1 = send_queue[p].tag
         /\ ~remote_send_success_flag[p] => LastClosed(p) = send_queue[p].tag
         /\ LastClosed(p) - frame_count[p] \in Slots
         /\ \A f \in 1 .. LastClosed(p) :
              f < frame_count[p] \/ /\ f - frame_count[p] \in Slots
                                    /\ Holds(receive_queue[p], f - frame_count[p], p)
<1> DEFINE fc == frame_count[p]
           tag == send_queue[p].tag
           ready == p \in next_frame_ready[p]
           flag == remote_send_success_flag[p]
           last == LastClosed(p)
<1>1. /\ fc \in Nat /\ fc >= 1 /\ send_queue[p] \in Queues /\ flag \in BOOLEAN
      /\ tag = fc + process_frame_delay + (IF ready THEN 1 ELSE 0)
      /\ ~flag => ~ready
      /\ last = tag - (IF flag THEN 1 ELSE 0)
  BY DEF LInv, TypeInv, SendInv, LastClosed
<1>2. /\ \A i \in 0 .. process_frame_delay - 1 : Holds(receive_queue[p], i, p)
      /\ ready \/ ~flag => Holds(receive_queue[p], process_frame_delay, p)
  BY DEF LInv, ReadyInv
<1> HIDE DEF fc, tag, ready, flag, last
<1>3. /\ tag \in Nat /\ last \in Nat
      /\ ready \/ ~flag => last = fc + process_frame_delay
      /\ ~(ready \/ ~flag) => last + 1 = fc + process_frame_delay
      /\ tag <= last + 1 /\ last <= tag
      /\ flag => last + 1 = tag
      /\ ~flag => last = tag
  BY <1>1, Delay
<1>4. last - fc \in Slots
  <2>1. last - fc \in 0 .. process_frame_delay
    BY <1>1, <1>3, Delay
  <2> QED BY <2>1, Delay
<1>5. ASSUME NEW f \in 1 .. last, ~(f < fc)
      PROVE  f - fc \in Slots /\ Holds(receive_queue[p], f - fc, p)
  <2>1. f - fc \in 0 .. process_frame_delay
    BY <1>1, <1>3, <1>5, Delay
  <2>2. f - fc = process_frame_delay => ready \/ ~flag
    BY <1>1, <1>3, <1>5, Delay
  <2>3. f - fc # process_frame_delay => f - fc \in 0 .. process_frame_delay - 1
    BY <2>1, Delay
  <2> QED BY <1>2, <2>1, <2>2, <2>3, Delay
<1>6. last = fc + process_frame_delay <=> ready \/ ~flag
  BY <1>1, <1>3, Delay
<1>7. \A f \in 1 .. last :
        f < fc \/ (f - fc \in Slots /\ Holds(receive_queue[p], f - fc, p))
  BY <1>5
<1> QED BY <1>1, <1>3, <1>4, <1>6, <1>7 DEF fc, tag, ready, flag, last

\* There is no queue of p for a frame that is not closed.
LEMMA NothingBeyond ==
  ASSUME LInv, NEW p \in Nations, NEW i \in Slots,
         frame_count[p] + i > LastClosed(p)
  PROVE  ~Holds(receive_queue[p], i, p)
<1> SUFFICES ASSUME Holds(receive_queue[p], i, p) PROVE FALSE
  OBVIOUS
<1>1. PICK j \in 1 .. Len(receive_queue[p][i]) : receive_queue[p][i][j].nation = p
  BY DEF Holds
<1> DEFINE q == receive_queue[p][i][j]
<1>2. q.tag = frame_count[p] + i /\ OwnQueue(p, q)
  BY DEF LInv, SlotsInv, QueueRight
<1>3. \/ q.tag < send_queue[p].tag
      \/ q.tag = send_queue[p].tag /\ ~remote_send_success_flag[p]
  <2> HIDE DEF q
  <2> QED BY <1>1, <1>2 DEF OwnQueue, q
<1> HIDE DEF q
<1>4. i \in Nat
  BY Delay
<1> QED BY <1>2, <1>3, <1>4, ClosedFrames

LEMMA QueueForBeyond ==
  ASSUME LInv, NEW p \in Nations,
         NEW f \in LastClosed(p) + 1 .. frame_count[p] + RECEIVE_QUEUE_BACKUP - 1
  PROVE  QueueFor(p, f) = <<>>
<1> DEFINE i == f - frame_count[p]
<1>1. /\ frame_count[p] \in Nat /\ LastClosed(p) \in Nat /\ RECEIVE_QUEUE_BACKUP \in Nat
      /\ LastClosed(p) + 1 >= frame_count[p] + process_frame_delay
  BY ClosedFrames, LockstepAssumption
<1>2. ~(f < frame_count[p]) /\ i \in Nat /\ i < RECEIVE_QUEUE_BACKUP
      /\ frame_count[p] + i > LastClosed(p)
  BY <1>1, Delay
<1>3. i \in Slots
  BY <1>2, Delay
<1> HIDE DEF i
<1>4. ~Holds(receive_queue[p], i, p)
  BY <1>2, <1>3, NothingBeyond
<1>5. receive_queue[p][i] \in Seq(Queues)
  BY <1>3 DEF LInv, TypeInv
<1>6. ExecutedOf(receive_queue[p][i], p) = <<>>
  BY <1>4, <1>5, ExecutedOfNone DEF Holds
<1> QED BY <1>2, <1>6 DEF QueueFor, i

\* A closed queue is what everybody has to execute of p.
LEMMA QueueForMatches ==
  ASSUME LInv, HumansInv, NEW p \in Nations, NEW f \in 1 .. LastClosed(p)
  PROVE  Matches(broadcast, p, p, f, QueueFor(p, f)) /\ QueueFor(p, f) \in Seq(Nat)
<1>1. frame_count[p] \in Nat /\ p \in Humans(p)
  BY ClosedFrames DEF LInv, PendingInv, Humans
<1>2. CASE f < frame_count[p]
  <2>1. QueueFor(p, f) = executed[p][f][p]
    BY <1>2 DEF QueueFor
  <2>2. executed[p] \in Seq(Orders) /\ Len(executed[p]) = frame_count[p] - 1
    BY DEF LInv, TypeInv, ExecutedInv
  <2>3. f \in 1 .. Len(executed[p])
    BY <1>1, <1>2, <2>2
  <2>4. p \in DOMAIN executed[p][f] /\ executed[p][f] \in Orders
    BY <1>1, <2>2, <2>3, SeqElement DEF HumansInv
  <2>5. executed[p][f][p] \in Seq(Nat)
    BY <2>4 DEF Orders
  <2> QED BY <2>1, <2>3, <2>4, <2>5 DEF LInv, ExecutedInv
<1>3. CASE ~(f < frame_count[p])
  <2> DEFINE i == f - frame_count[p]
  <2>1. i \in Slots /\ Holds(receive_queue[p], i, p)
    BY <1>3, ClosedFrames
  <2>2. QueueFor(p, f) = ExecutedOf(receive_queue[p][i], p)
    BY <1>3 DEF QueueFor
  <2>3. frame_count[p] + i = f
    BY <1>1
  <2> HIDE DEF i
  <2>4. receive_queue[p][i] \in Seq(Queues)
    BY <2>1 DEF LInv, TypeInv
  <2>5. /\ ExecutedOf(receive_queue[p][i], p) \in Seq(Nat)
        /\ \E j \in 1 .. Len(receive_queue[p][i]) :
             /\ receive_queue[p][i][j].nation = p
             /\ ExecutedOf(receive_queue[p][i], p) = receive_queue[p][i][j].cmds
    BY <2>1, <2>4, ExecutedIsAQueue DEF Holds
  <2>6. PICK j \in 1 .. Len(receive_queue[p][i]) :
             /\ receive_queue[p][i][j].nation = p
             /\ ExecutedOf(receive_queue[p][i], p) = receive_queue[p][i][j].cmds
    BY <2>5
  <2>7. QueueRight(p, i, receive_queue[p][i][j])
    BY <2>1 DEF LInv, SlotsInv
  <2>8. Matches(broadcast, p, p, f, receive_queue[p][i][j].cmds)
    BY <2>3, <2>6, <2>7 DEF QueueRight
  <2> QED BY <2>2, <2>5, <2>6, <2>8
<1> QED BY <1>2, <1>3

-----------------------------------------------------------------------------
(* A call of is_mp_sync *)

\* p's queue for the frame is closed, and nobody's commands but p's for one
\* frame change.
Closing(p, slots) ==
  /\ LastClosed(p) + 1 = frame_count[p] + process_frame_delay
  /\ LastClosed(p)' = frame_count[p] + process_frame_delay
  /\ OpenQueue(p)' = <<>>
  /\ ExecutedOf(slots[process_frame_delay], p) = OpenQueue(p)
  /\ \A i \in Slots \ {process_frame_delay} :
       ExecutedOf(slots[i], p) = ExecutedOf(receive_queue[p][i], p)

NotClosing(p, slots) ==
  /\ LastClosed(p)' = LastClosed(p) /\ OpenQueue(p)' = OpenQueue(p)
  /\ \A i \in Slots : ExecutedOf(slots[i], p) = ExecutedOf(receive_queue[p][i], p)

\* p stays in its frame, and may take a player over.
Staying(p, slots) ==
  /\ UNCHANGED <<frame_count, executed>>
  /\ receive_queue'[p] = slots
  /\ ai' = ai \/ \E n \in Humans(p) \ {p} : ai' = [ai EXCEPT ![p] = @ \cup {n}]

\* p simulates its frame.
Going(p, slots) ==
  /\ LastClosed(p)' = frame_count[p] + process_frame_delay
  /\ frame_count' = [frame_count EXCEPT ![p] = @ + 1]
  /\ executed' = [executed EXCEPT ![p] =
       Append(@, [n \in Humans(p) |-> ExecutedOf(slots[0], n)])]
  /\ receive_queue'[p] = Shifted(slots)
  /\ ai' = ai
  /\ \A n \in Humans(p) \ {p} : Holds(receive_queue[p], 0, n)

\* The queue is put in p's own receive queues when it is closed.
LEMMA OwnQueueFiled ==
  ASSUME alternating_send_rate = 1, LInv, NEW p \in Nations, MustSend(p),
         LastClosed(p)' = frame_count[p] + process_frame_delay,
         OpenQueue(p)' = <<>>
  PROVE  Closing(p, Filed(p, send_queue[p]))
<1> DEFINE q == send_queue[p]
           fc == frame_count[p]
<1>1. /\ remote_send_success_flag[p] /\ p \notin next_frame_ready[p]
      /\ q \in Queues /\ q.nation = p /\ TypeInv
  BY DEF MustSend, LInv, TypeInv, SendInv
<1>2. /\ fc \in Nat /\ LastClosed(p) \in Nat /\ process_frame_delay \in Nat
      /\ process_frame_delay \in Slots /\ Slots \subseteq Nat
  BY ClosedFrames, Delay
<1>3. LastClosed(p) + 1 = fc + process_frame_delay /\ q.tag = LastClosed(p) + 1
  BY <1>1, ClosedFrames
<1>4. q.tag - fc = process_frame_delay
  <2> HIDE DEF q, fc
  <2> QED BY <1>2, <1>3
<1>5. ~Holds(receive_queue[p], process_frame_delay, p)
  <2>1. fc + process_frame_delay > LastClosed(p)
    BY <1>2, <1>3
  <2> QED BY <1>2, <2>1, NothingBeyond
<1>6. HasSlot(p, q.tag)
  BY <1>2, <1>4 DEF HasSlot
<1>7. /\ \A i \in Slots : i # process_frame_delay =>
           ExecutedOf(Filed(p, q)[i], p) = ExecutedOf(receive_queue[p][i], p)
      /\ ExecutedOf(Filed(p, q)[process_frame_delay], p) = q.cmds
  <2> HIDE DEF q
  <2> QED BY <1>1, <1>4, <1>5, <1>6, FiledOwn
<1>8. OpenQueue(p) = q.cmds
  BY <1>1 DEF OpenQueue
<1> QED BY <1>3, <1>7, <1>8 DEF Closing

\* p goes on or waits, with the receive queues in slots.
LEMMA ProceedOutcome ==
  ASSUME alternating_send_rate = 1, LInv, NEW p \in Nations, NEW slots, Proceed(p, slots),
         slots \in [Slots -> Seq(Queues)],
         \A n \in Nations \ {p} : Holds(slots, 0, n) => Holds(receive_queue[p], 0, n),
         LastClosed(p)' = frame_count[p] + process_frame_delay
  PROVE  Staying(p, slots) \/ Going(p, slots)
<1>1. receive_queue \in [Nations -> [Slots -> Seq(Queues)]]
  BY DEF LInv, TypeInv
<1>2. CASE WaitForPlayers(p, slots)
  <2> DEFINE unready == Unready(p, next_frame_ready[p] \cup Announced(slots))
             last == CHOOSE n \in unready : \A i \in unready : i <= n
  <2>1. /\ UNCHANGED <<frame_count, executed>> /\ unready # {}
        /\ receive_queue' = [receive_queue EXCEPT ![p] = slots]
        /\ ai' = ai \/ ai' = [ai EXCEPT ![p] = @ \cup {last}]
    BY <1>2 DEF WaitForPlayers
  <2>2. unready \in SUBSET Nations /\ unready \subseteq Humans(p) \ {p}
    BY DEF Unready, Humans
  <2> HIDE DEF unready
  <2>3. last \in unready
    <3>1. \E n \in unready : \A i \in unready : i <= n
      BY <2>1, <2>2, Greatest
    <3> QED BY <3>1
  <2> HIDE DEF last
  <2>4. receive_queue'[p] = slots
    BY <1>1, <2>1
  <2> QED BY <2>1, <2>2, <2>3, <2>4 DEF Staying
<1>3. CASE ProcessFrame(p, slots)
  <2>1. /\ Unready(p, next_frame_ready[p] \cup Announced(slots)) = {}
        /\ executed' = [executed EXCEPT ![p] =
             Append(@, [n \in Humans(p) |-> ExecutedOf(slots[0], n)])]
        /\ receive_queue' = [receive_queue EXCEPT ![p] = Shifted(slots)]
        /\ frame_count' = [frame_count EXCEPT ![p] = @ + 1]
        /\ ai' = ai
    BY <1>3 DEF ProcessFrame
  <2>2. ASSUME NEW n \in Humans(p) \ {p} PROVE Holds(receive_queue[p], 0, n)
    <3>1. n \in Int /\ n \in Nations /\ frame_count[p] \in Int /\ 0 \in Slots
      BY Delay DEF Humans, LInv, TypeInv
    <3>2. has_send_frame(n, frame_count[p])
      BY <3>1, EveryFrame
    <3>3. n \in next_frame_ready[p] \/ n \in Announced(slots)
      BY <2>1, <3>2 DEF Unready
    <3>4. CASE n \in next_frame_ready[p]
      BY <3>4 DEF LInv, ReadyInv
    <3>5. CASE n \in Announced(slots)
      <4>1. slots[0] \in Seq(Queues)
        BY <3>1
      <4>2. DOMAIN slots[0] = 1 .. Len(slots[0])
        BY <4>1
      <4>3. Holds(slots, 0, n)
        BY <3>5, <4>2 DEF Announced, Holds
      <4> QED BY <3>1, <4>3
    <3> QED BY <3>3, <3>4, <3>5
  <2>3. receive_queue'[p] = Shifted(slots)
    BY <1>1, <2>1
  <2> QED BY <2>1, <2>2, <2>3 DEF Going
<1> QED BY <1>2, <1>3 DEF Proceed

\* Sending opens the next queue; with or without it p's queue is closed for
\* the frame.
LEMMA SendQueueCloses ==
  ASSUME alternating_send_rate = 1, LInv, NEW p \in Nations,
         p \notin next_frame_ready[p], SendQueue(p)
  PROVE  LastClosed(p)' = frame_count[p] + process_frame_delay /\ OpenQueue(p)' = <<>>
<1> DEFINE f == (frame_count[p] + 1) + process_frame_delay
<1>0. p \in Int /\ f \in Int /\ frame_count[p] \in Nat
  BY Delay DEF LInv, TypeInv
<1>1. next_send_frame(p, f) = f
  <2> HIDE DEF f
  <2> QED BY <1>0, EveryFrame
<1>2. init_send_queue(p, frame_count[p] + 1) =
        [nation |-> p, tag |-> f, cmds |-> <<>>, after |-> <<>>]
  BY <1>1 DEF init_send_queue, Queue
<1>3. /\ send_queue' = [send_queue EXCEPT ![p] = init_send_queue(p, frame_count[p] + 1)]
      /\ remote_send_success_flag' = [remote_send_success_flag EXCEPT ![p] = TRUE]
  BY DEF SendQueue
<1>4. send_queue'[p].tag = f /\ send_queue'[p].cmds = <<>> /\ remote_send_success_flag'[p]
  BY <1>2, <1>3 DEF LInv, TypeInv
<1>5. LastClosed(p)' = f - 1 /\ OpenQueue(p)' = <<>>
  <2> HIDE DEF f
  <2> QED BY <1>4 DEF LastClosed, OpenQueue
<1>6. f - 1 = frame_count[p] + process_frame_delay
  BY <1>0, Delay
<1> QED BY <1>5, <1>6

\* What a call of is_mp_sync does, in these terms.
LEMMA IsMpSyncCloses ==
  ASSUME alternating_send_rate = 1, LInv, NEW p \in Nations, IsMpSync(p)
  PROVE  /\ UNCHANGED <<issued, late>>
         /\ \A r \in Nations \ {p} :
              /\ send_queue'[r] = send_queue[r] /\ receive_queue'[r] = receive_queue[r]
              /\ remote_send_success_flag'[r] = remote_send_success_flag[r]
         /\ \E slots \in [Slots -> Seq(Queues)] :
              /\ Closing(p, slots) \/ NotClosing(p, slots)
              /\ \A i \in Slots : \A n \in Nations \ {p} :
                   ExecutedOf(slots[i], n) = ExecutedOf(receive_queue[p][i], n)
              /\ Staying(p, slots) \/ Going(p, slots)
<1> DEFINE own == receive_queue[p]
           filed == Filed(p, send_queue[p])
           target == frame_count[p] + process_frame_delay
<1>0. /\ TypeInv /\ own \in [Slots -> Seq(Queues)] /\ send_queue[p] \in Queues
      /\ send_queue[p].nation = p
  BY DEF LInv, TypeInv, SendInv
<1>1. /\ filed \in [Slots -> Seq(Queues)]
      /\ \A n \in Nations \ {p} : Holds(filed, 0, n) => Holds(own, 0, n)
      /\ \A i \in Slots : \A n \in Nations \ {p} : ExecutedOf(filed[i], n) = ExecutedOf(own[i], n)
  <2> DEFINE q == send_queue[p]
  <2>1. /\ Filed(p, q) \in [Slots -> Seq(Queues)]
        /\ \A i \in Slots : \A j \in 1 .. Len(Filed(p, q)[i]) :
             \/ j \in 1 .. Len(own[i]) /\ Filed(p, q)[i][j] = own[i][j]
             \/ Filed(p, q)[i][j] = q
    <3> HIDE DEF q
    <3>1. q \in Queues /\ TypeInv
      BY <1>0 DEF q
    <3> QED BY <3>1, FiledFacts
  <2>2. \A i \in Slots : \A n \in Nations \ {p} :
          ExecutedOf(Filed(p, q)[i], n) = ExecutedOf(own[i], n)
    <3>1. q \in Queues /\ TypeInv /\ q.nation = p
      BY <1>0
    <3> HIDE DEF q
    <3>2. \A i \in Slots : \A n : q.nation # n =>
            ExecutedOf(Filed(p, q)[i], n) = ExecutedOf(receive_queue[p][i], n)
      BY <3>1, FiledOwn
    <3> QED BY <3>1, <3>2
  <2>3. ASSUME NEW n \in Nations \ {p}, Holds(Filed(p, q), 0, n) PROVE Holds(own, 0, n)
    <3>1. PICK j \in 1 .. Len(Filed(p, q)[0]) : Filed(p, q)[0][j].nation = n
      BY <2>3 DEF Holds
    <3>2. j \in 1 .. Len(own[0]) /\ Filed(p, q)[0][j] = own[0][j]
      BY <1>0, <2>1, <3>1, Delay
    <3> QED BY <3>1, <3>2 DEF Holds
  <2> QED BY <2>1, <2>2, <2>3
<1>2. UNCHANGED <<issued, late>>
  BY DEF IsMpSync
<1>3. \A r \in Nations \ {p} :
        /\ send_queue'[r] = send_queue[r] /\ receive_queue'[r] = receive_queue[r]
        /\ remote_send_success_flag'[r] = remote_send_success_flag[r]
  <2>1. \/ UNCHANGED <<send_queue, remote_send_success_flag>>
        \/ SendQueue(p)
        \/ SendRefused(p)
    BY DEF IsMpSync, queueVars
  <2>2. \E slots : receive_queue' = [receive_queue EXCEPT ![p] = slots]
    BY DEF IsMpSync, Proceed, WaitForPlayers, ProcessFrame
  <2> QED BY <1>0, <2>1, <2>2 DEF TypeInv, SendQueue, SendRefused
<1>4. CASE MustSend(p) /\ SendQueue(p) /\ Proceed(p, filed)
  <2>1. p \notin next_frame_ready[p]
    BY <1>4 DEF MustSend
  <2>2. LastClosed(p)' = target /\ OpenQueue(p)' = <<>>
    BY <1>4, <2>1, SendQueueCloses
  <2>3. Closing(p, filed)
    BY <1>4, <2>2, OwnQueueFiled
  <2>4. Staying(p, filed) \/ Going(p, filed)
    BY <1>1, <1>4, <2>2, ProceedOutcome
  <2> QED BY <1>1, <1>2, <1>3, <2>3, <2>4
<1>5. CASE /\ MustSend(p) /\ SendRefused(p)
           /\ receive_queue' = [receive_queue EXCEPT ![p] = filed]
           /\ UNCHANGED frameVars
  <2>1. /\ send_queue' = send_queue /\ ~remote_send_success_flag'[p]
        /\ remote_send_success_flag[p] /\ p \notin next_frame_ready[p]
    BY <1>0, <1>5 DEF MustSend, SendRefused, TypeInv
  <2>2. LastClosed(p)' = send_queue[p].tag - 0 /\ OpenQueue(p)' = <<>>
    BY <2>1 DEF LastClosed, OpenQueue
  <2>3. /\ LastClosed(p) + 1 = send_queue[p].tag /\ LastClosed(p) + 1 = target
        /\ send_queue[p].tag \in Nat
    BY <2>1, ClosedFrames
  <2>4. LastClosed(p)' = target
    BY <2>2, <2>3
  <2>5. Closing(p, filed)
    BY <1>5, <2>2, <2>4, OwnQueueFiled
  <2>6. Staying(p, filed)
    BY <1>0, <1>5 DEF Staying, frameVars, TypeInv
  <2> QED BY <1>1, <1>2, <1>3, <2>5, <2>6
<1>6. CASE ~remote_send_success_flag[p] /\ SendQueue(p) /\ Proceed(p, own)
  <2>1. p \notin next_frame_ready[p]
    BY <1>6 DEF LInv, SendInv
  <2>2. LastClosed(p)' = target /\ OpenQueue(p)' = <<>>
    BY <1>6, <2>1, SendQueueCloses
  <2>3. LastClosed(p) = target /\ OpenQueue(p) = <<>>
    BY <1>6, ClosedFrames DEF OpenQueue
  <2>4. NotClosing(p, own)
    BY <2>2, <2>3 DEF NotClosing
  <2>5. Staying(p, own) \/ Going(p, own)
    BY <1>0, <1>6, <2>2, ProceedOutcome
  <2> QED BY <1>0, <1>2, <1>3, <2>4, <2>5
<1>7. CASE /\ remote_send_success_flag[p] /\ ~MustSend(p)
           /\ Proceed(p, own)
           /\ UNCHANGED queueVars
  <2>1. p \in next_frame_ready[p]
    <3>1. p \in Int /\ frame_count[p] \in Int
      BY Delay DEF LInv, TypeInv
    <3>2. has_send_frame(p, frame_count[p])
      BY <3>1, EveryFrame
    <3> QED BY <1>7, <3>2 DEF MustSend
  <2>2. LastClosed(p)' = LastClosed(p) /\ OpenQueue(p)' = OpenQueue(p)
    BY <1>7 DEF LastClosed, OpenQueue, queueVars
  <2>3. LastClosed(p) = target
    BY <2>1, ClosedFrames
  <2>4. NotClosing(p, own)
    BY <2>2 DEF NotClosing
  <2>5. Staying(p, own) \/ Going(p, own)
    BY <1>0, <1>7, <2>2, <2>3, ProceedOutcome
  <2> QED BY <1>0, <1>2, <1>3, <2>4, <2>5
<1> QED BY <1>4, <1>5, <1>6, <1>7 DEF IsMpSync

\* The frames p has closed stay as they are, and the frame it closes is what
\* was open.
LEMMA ClosedStay ==
  ASSUME LInv, HumansInv, NEW p \in Nations,
         NEW slots \in [Slots -> Seq(Queues)],
         Staying(p, slots) \/ Going(p, slots),
         Closing(p, slots) \/ NotClosing(p, slots)
  PROVE  /\ \A f \in 1 .. LastClosed(p) : QueueFor(p, f)' = QueueFor(p, f)
         /\ Closing(p, slots) => \A f : f = LastClosed(p) + 1 =>
              QueueFor(p, f)' = OpenQueue(p)
<1> DEFINE fc == frame_count[p]
           target == fc + process_frame_delay
           orders == [n \in Humans(p) |-> ExecutedOf(slots[0], n)]
<1>1. /\ fc \in Nat /\ fc >= 1 /\ LastClosed(p) \in Nat /\ LastClosed(p) <= target
      /\ process_frame_delay \in Nat /\ process_frame_delay >= 1
      /\ executed[p] \in Seq(Orders) /\ Len(executed[p]) = fc - 1
      /\ executed \in [Nations -> Seq(Orders)] /\ frame_count \in [Nations -> Nat \ {0}]
      /\ p \in Humans(p) /\ Slots \subseteq Nat /\ 0 \in Slots
  <2>1. /\ fc \in Nat /\ fc >= 1 /\ LastClosed(p) \in Nat /\ LastClosed(p) <= target
        /\ process_frame_delay \in Nat /\ process_frame_delay >= 1
    <3>1. /\ fc \in Nat /\ fc >= 1 /\ LastClosed(p) \in Nat
          /\ LastClosed(p) = target \/ LastClosed(p) + 1 = target
      BY ClosedFrames
    <3>2. process_frame_delay \in Nat /\ process_frame_delay >= 1
      BY Delay
    <3> QED BY <3>1, <3>2
  <2>2. /\ executed[p] \in Seq(Orders) /\ Len(executed[p]) = fc - 1
        /\ executed \in [Nations -> Seq(Orders)] /\ frame_count \in [Nations -> Nat \ {0}]
    BY DEF LInv, TypeInv, ExecutedInv
  <2>3. p \in Humans(p)
    BY DEF LInv, PendingInv, Humans
  <2>4. Slots \subseteq Nat /\ 0 \in Slots
    BY Delay
  <2> HIDE DEF fc, target
  <2> QED BY <2>1, <2>2, <2>3, <2>4
\* What p's commands for a frame are afterwards.
<1>2. ASSUME NEW f \in 1 .. target
      PROVE  /\ f < fc => QueueFor(p, f)' = QueueFor(p, f)
             /\ ~(f < fc) => /\ f - fc \in Slots
                             /\ QueueFor(p, f)' = ExecutedOf(slots[f - fc], p)
  <2>1. f \in Nat /\ f >= 1
    BY <1>1
  <2>2. ~(f < fc) => f - fc \in Slots
    <3>1. ~(f < fc) => f - fc \in 0 .. process_frame_delay
      BY <1>1, <2>1
    <3> QED BY <3>1, Delay
  <2>3. CASE Staying(p, slots)
    <3>1. frame_count'[p] = fc /\ executed'[p] = executed[p] /\ receive_queue'[p] = slots
      BY <2>3 DEF Staying
    <3>2. QueueFor(p, f)' = IF f < fc THEN executed[p][f][p] ELSE ExecutedOf(slots[f - fc], p)
      BY <3>1 DEF QueueFor
    <3> QED BY <2>2, <3>2 DEF QueueFor
  <2>4. CASE Going(p, slots)
    <3>1. /\ frame_count'[p] = fc + 1 /\ receive_queue'[p] = Shifted(slots)
          /\ executed'[p] = Append(executed[p], orders)
      BY <1>1, <2>4 DEF Going
    <3>2. QueueFor(p, f)' = IF f < fc + 1 THEN Append(executed[p], orders)[f][p]
                            ELSE ExecutedOf(Shifted(slots)[f - (fc + 1)], p)
      <4> HIDE DEF orders
      <4> QED BY <3>1 DEF QueueFor
    <3>3. orders[p] = ExecutedOf(slots[0], p)
      BY <1>1
    <3> HIDE DEF orders
    <3>4. CASE f < fc
      <4>1. f \in 1 .. Len(executed[p]) /\ f < fc + 1
        BY <1>1, <2>1, <3>4
      <4>2. Append(executed[p], orders)[f] = executed[p][f]
        BY <1>1, <4>1
      <4> QED BY <3>2, <3>4, <4>1, <4>2 DEF QueueFor
    <3>5. CASE f = fc
      <4>1. f = Len(executed[p]) + 1 /\ f < fc + 1 /\ f - fc = 0
        BY <1>1, <3>5
      <4>2. Append(executed[p], orders)[f] = orders
        <5> DEFINE before == executed[p]
        <5>1. before \in Seq(Orders) /\ f = Len(before) + 1
          BY <1>1, <4>1
        <5> HIDE DEF before
        <5>2. Append(before, orders)[Len(before) + 1] = orders
          BY <5>1
        <5> QED BY <5>1, <5>2 DEF before
      <4> QED BY <2>2, <3>2, <3>3, <3>5, <4>1, <4>2
    <3>6. CASE f > fc
      <4> DEFINE i == f - (fc + 1)
      <4>1. i \in Nat /\ i + 1 = f - fc /\ ~(f < fc + 1) /\ ~(f < fc)
        BY <1>1, <2>1, <3>6
      <4>2. i + 1 \in Slots
        BY <2>2, <4>1
      <4> HIDE DEF i
      <4>3. i \in Slots
        <5>1. i < RECEIVE_QUEUE_BACKUP
          BY <4>1, <4>2, Delay, LockstepAssumption
        <5> QED BY <4>1, <5>1, Delay
      <4>4. Shifted(slots)[i] = slots[i + 1]
        BY <4>2, <4>3 DEF Shifted
      <4> QED BY <2>2, <3>2, <4>1, <4>4 DEF i
    <3> QED BY <1>1, <2>1, <3>4, <3>5, <3>6
  <2> QED BY <2>3, <2>4
<1>3. ASSUME NEW f \in 1 .. LastClosed(p) PROVE QueueFor(p, f)' = QueueFor(p, f)
  <2>1. f \in 1 .. target
    BY <1>1
  <2>2. CASE f < fc
    BY <1>2, <2>1, <2>2
  <2>3. CASE ~(f < fc)
    <3>1. f - fc \in Slots /\ QueueFor(p, f)' = ExecutedOf(slots[f - fc], p)
      BY <1>2, <2>1, <2>3
    <3>2. Closing(p, slots) => f - fc # process_frame_delay
      <4>1. Closing(p, slots) => f + 1 <= target
        BY <1>1 DEF Closing
      <4> QED BY <1>1, <4>1
    <3>3. ExecutedOf(slots[f - fc], p) = ExecutedOf(receive_queue[p][f - fc], p)
      BY <3>1, <3>2 DEF Closing, NotClosing
    <3> QED BY <2>3, <3>1, <3>3 DEF QueueFor
  <2> QED BY <2>2, <2>3
<1>4. ASSUME Closing(p, slots), NEW f, f = LastClosed(p) + 1
      PROVE  QueueFor(p, f)' = OpenQueue(p)
  <2>1. f \in 1 .. target /\ ~(f < fc) /\ f - fc = process_frame_delay
    <3>1. f = target
      BY <1>4 DEF Closing
    <3> QED BY <1>1, <3>1
  <2>2. QueueFor(p, f)' = ExecutedOf(slots[f - fc], p)
    <3> HIDE DEF target
    <3> QED BY <1>2, <2>1
  <2> QED BY <1>4, <2>1, <2>2 DEF Closing
<1> QED BY <1>3, <1>4

-----------------------------------------------------------------------------
(* The state of the FrameCast *)

opened == [p \in Nations |-> OpenQueue(p)]
closedQueues == [p \in Nations |-> [f \in 1 .. LastClosed(p) |-> QueueFor(p, f)]]
taken == [p \in Nations |-> Humans(p)]

\* What a step does to it: nothing, unless it is a call of is_mp_sync or a
\* command.
LEMMA QueuesKept ==
  ASSUME NEW p \in Nations,
         frame_count'[p] = frame_count[p], executed'[p] = executed[p],
         \A i : ExecutedOf(receive_queue'[p][i], p) = ExecutedOf(receive_queue[p][i], p),
         send_queue'[p] = send_queue[p],
         remote_send_success_flag'[p] = remote_send_success_flag[p]
  PROVE  OpenQueue(p)' = OpenQueue(p) /\ LastClosed(p)' = LastClosed(p)
         /\ \A f : QueueFor(p, f)' = QueueFor(p, f)
<1>1. OpenQueue(p)' = OpenQueue(p) /\ LastClosed(p)' = LastClosed(p)
  BY DEF OpenQueue, LastClosed
<1>2. ASSUME NEW f PROVE QueueFor(p, f)' = QueueFor(p, f)
  BY DEF QueueFor
<1> QED BY <1>1, <1>2

\* A sequence is closedQueues with one more when it is so element by element.
LEMMA OneMore ==
  ASSUME NEW S, NEW s \in Seq(S), NEW t \in Seq(S), NEW x \in S,
         Len(t) = Len(s) + 1, \A i \in 1 .. Len(s) : t[i] = s[i], t[Len(s) + 1] = x
  PROVE  t = Append(s, x)
<1>1. Append(s, x) \in Seq(S) /\ Len(Append(s, x)) = Len(s) + 1
  OBVIOUS
<1>2. \A i \in 1 .. Len(s) + 1 : t[i] = Append(s, x)[i]
  OBVIOUS
<1> QED BY <1>1, <1>2, SeqEqual

LEMMA ClosedSequence ==
  ASSUME LInv, HumansInv, NEW p \in Nations
  PROVE  /\ closedQueues[p] \in Seq(Seq(Nat)) /\ Len(closedQueues[p]) = LastClosed(p)
         /\ \A f \in 1 .. LastClosed(p) : closedQueues[p][f] = QueueFor(p, f)
         /\ opened[p] = OpenQueue(p) /\ OpenQueue(p) \in Seq(Nat)
<1>1. closedQueues[p] = [f \in 1 .. LastClosed(p) |-> QueueFor(p, f)]
  BY DEF closedQueues
<1>2. LastClosed(p) \in Nat
  BY ClosedFrames
<1>3. \A f \in 1 .. LastClosed(p) : QueueFor(p, f) \in Seq(Nat)
  BY QueueForMatches
<1>4. send_queue[p].cmds \in Seq(Nat) /\ <<>> \in Seq(Nat)
  BY DEF LInv, TypeInv, Queues
<1>5. OpenQueue(p) \in Seq(Nat)
  BY <1>4 DEF OpenQueue
<1> HIDE DEF closedQueues
<1>6. closedQueues[p] \in Seq(Seq(Nat)) /\ Len(closedQueues[p]) = LastClosed(p)
  BY <1>1, <1>2, <1>3
<1> QED BY <1>1, <1>5, <1>6 DEF opened

\* What a call of is_mp_sync does to the queues.
LEMMA Closes ==
  ASSUME alternating_send_rate = 1, LInv, HumansInv, NEW p \in Nations, IsMpSync(p)
  PROVE  /\ UNCHANGED <<issued, late>>
         /\ \/ UNCHANGED <<closedQueues, opened>>
            \/ /\ Len(closedQueues[p]) # frame_count[p] + process_frame_delay
               /\ closedQueues' = [closedQueues EXCEPT ![p] = Append(@, opened[p])]
               /\ opened' = [opened EXCEPT ![p] = <<>>]
<1>1. PICK slots \in [Slots -> Seq(Queues)] :
        /\ Closing(p, slots) \/ NotClosing(p, slots)
        /\ Staying(p, slots) \/ Going(p, slots)
  BY IsMpSyncCloses
<1>2. ASSUME NEW r \in Nations \ {p}
      PROVE  OpenQueue(r)' = OpenQueue(r) /\ LastClosed(r)' = LastClosed(r)
             /\ \A f : QueueFor(r, f)' = QueueFor(r, f)
  <2>1. /\ send_queue'[r] = send_queue[r] /\ receive_queue'[r] = receive_queue[r]
        /\ remote_send_success_flag'[r] = remote_send_success_flag[r]
    BY IsMpSyncCloses
  <2>2. frame_count'[r] = frame_count[r] /\ executed'[r] = executed[r]
    BY <1>1 DEF Staying, Going, LInv, TypeInv
  <2> QED BY <2>1, <2>2, QueuesKept
<1>3. /\ \A f \in 1 .. LastClosed(p) : QueueFor(p, f)' = QueueFor(p, f)
      /\ Closing(p, slots) => \A f : f = LastClosed(p) + 1 =>
           QueueFor(p, f)' = OpenQueue(p)
  BY <1>1, ClosedStay
<1>4. UNCHANGED <<issued, late>>
  BY IsMpSyncCloses
<1>5. CASE NotClosing(p, slots)
  <2>1. \A r \in Nations : /\ OpenQueue(r)' = OpenQueue(r) /\ LastClosed(r)' = LastClosed(r)
                           /\ \A f \in 1 .. LastClosed(r) : QueueFor(r, f)' = QueueFor(r, f)
    BY <1>2, <1>3, <1>5 DEF NotClosing
  <2>2. UNCHANGED <<closedQueues, opened>>
    BY <2>1 DEF closedQueues, opened
  <2> QED BY <1>4, <2>2
<1>6. CASE Closing(p, slots)
  <2> DEFINE L == LastClosed(p)
  <2>1. /\ L + 1 = frame_count[p] + process_frame_delay /\ LastClosed(p)' = L + 1
        /\ OpenQueue(p)' = <<>> /\ L \in Nat
        /\ \A f : f = L + 1 => QueueFor(p, f)' = OpenQueue(p)
    BY <1>3, <1>6, ClosedFrames DEF Closing
  <2> DEFINE next == [f \in 1 .. L + 1 |-> QueueFor(p, f)']
  <2>2. /\ closedQueues[p] \in Seq(Seq(Nat)) /\ Len(closedQueues[p]) = L
        /\ \A f \in 1 .. L : closedQueues[p][f] = QueueFor(p, f)
        /\ opened[p] = OpenQueue(p) /\ OpenQueue(p) \in Seq(Nat)
    BY ClosedSequence
  <2>3. closedQueues'[p] = next
    BY <2>1 DEF closedQueues
  <2>4. /\ next \in Seq(Seq(Nat)) /\ Len(next) = L + 1
        /\ \A f \in 1 .. L : next[f] = closedQueues[p][f]
        /\ next[L + 1] = opened[p]
    <3>1. \A f \in 1 .. L : QueueFor(p, f)' = closedQueues[p][f]
      BY <1>3, <2>2
    <3>2. \A f \in 1 .. L : closedQueues[p][f] \in Seq(Nat)
      BY <2>2, SeqElement
    <3> HIDE DEF L
    <3>3. \A f \in 1 .. L + 1 : QueueFor(p, f)' \in Seq(Nat)
      <4>1. \A f \in 1 .. L + 1 : f \in 1 .. L \/ f = L + 1
        BY <2>1
      <4>2. OpenQueue(p) \in Seq(Nat)
        BY <2>2
      <4> QED BY <2>1, <3>1, <3>2, <4>1, <4>2
    <3>4. L + 1 \in 1 .. L + 1 /\ L + 1 \in Nat /\ \A f \in 1 .. L : f \in 1 .. L + 1
      BY <2>1
    <3>5. next \in [1 .. L + 1 -> Seq(Nat)]
      BY <3>3
    <3>6. next \in Seq(Seq(Nat)) /\ Len(next) = L + 1
      <4> HIDE DEF next
      <4> QED BY <3>4, <3>5
    <3> QED BY <2>1, <2>2, <3>1, <3>4, <3>6
  <2> HIDE DEF L, next
  <2>5. next = Append(closedQueues[p], opened[p])
    <3> DEFINE s == closedQueues[p]
               x == opened[p]
    <3>1. /\ s \in Seq(Seq(Nat)) /\ next \in Seq(Seq(Nat)) /\ x \in Seq(Nat)
          /\ Len(next) = Len(s) + 1 /\ next[Len(s) + 1] = x
          /\ \A f \in 1 .. Len(s) : next[f] = s[f]
      BY <2>2, <2>4
    <3> HIDE DEF s, x
    <3>2. next = Append(s, x)
      BY <3>1, OneMore
    <3> QED BY <3>2 DEF s, x
  <2>6. \A r \in Nations \ {p} : closedQueues'[r] = closedQueues[r] /\ opened'[r] = opened[r]
    BY <1>2 DEF closedQueues, opened
  <2>7. opened'[p] = <<>>
    BY <2>1 DEF opened
  <2>8. /\ closedQueues = [r \in Nations |-> closedQueues[r]]
        /\ closedQueues' = [r \in Nations |-> closedQueues'[r]]
        /\ opened = [r \in Nations |-> opened[r]] /\ opened' = [r \in Nations |-> opened'[r]]
    BY DEF closedQueues, opened
  <2>9. closedQueues' = [closedQueues EXCEPT ![p] = Append(@, opened[p])]
    BY <2>3, <2>5, <2>6, <2>8
  <2>10. opened' = [opened EXCEPT ![p] = <<>>]
    BY <2>6, <2>7, <2>8
  <2>11. Len(closedQueues[p]) # frame_count[p] + process_frame_delay
    BY <2>1, <2>2 DEF L
  <2> QED BY <1>4, <2>9, <2>10, <2>11
<1> QED BY <1>1, <1>5, <1>6

-----------------------------------------------------------------------------
(* The refinement *)

\* What p executes of another player in its frame is a queue that player has
\* closed.
LEMMA OthersClosed ==
  ASSUME LInv, HumansInv, NEW p \in Nations, NEW n \in Nations \ {p},
         Holds(receive_queue[p], 0, n)
  PROVE  /\ frame_count[p] <= LastClosed(n)
         /\ ExecutedOf(receive_queue[p][0], n) = QueueFor(n, frame_count[p])
<1> DEFINE fc == frame_count[p]
           o == fc - process_frame_delay
           cmds == ExecutedOf(receive_queue[p][0], n)
<1>1. /\ fc \in Nat /\ fc >= 1 /\ 0 \in Slots /\ process_frame_delay \in Nat
      /\ receive_queue[p][0] \in Seq(Queues)
  <2>1. receive_queue[p] \in [Slots -> Seq(Queues)]
    BY DEF LInv, TypeInv
  <2>2. 0 \in Slots /\ process_frame_delay \in Nat
    BY Delay
  <2>3. fc \in Nat /\ fc >= 1
    BY ClosedFrames
  <2> QED BY <2>1, <2>2, <2>3
<1>2. PICK j \in 1 .. Len(receive_queue[p][0]) :
        /\ receive_queue[p][0][j].nation = n
        /\ cmds = receive_queue[p][0][j].cmds
  BY <1>1, ExecutedIsAQueue DEF Holds
<1>3. Matches(broadcast, p, n, fc, cmds)
  <2>1. /\ receive_queue[p][0][j].tag = fc + 0
        /\ Matches(broadcast, p, n, receive_queue[p][0][j].tag, cmds)
    BY <1>1, <1>2 DEF LInv, SlotsInv, QueueRight
  <2>2. fc + 0 = fc
    BY <1>1
  <2> HIDE DEF fc, cmds
  <2> QED BY <2>1, <2>2
<1>4. o <= 0 \/ o \in 1 .. Len(broadcast[n])
  BY <1>1, <1>3 DEF Matches
<1>5. fc <= LastClosed(n)
  <2>1. /\ frame_count[n] \in Nat /\ frame_count[n] >= 1
        /\ send_queue[n].tag \in Nat /\ LastClosed(n) \in Nat
        /\ send_queue[n].tag <= LastClosed(n) + 1
    BY ClosedFrames
  <2>2. LastClosed(n) = frame_count[n] + process_frame_delay \/
        LastClosed(n) + 1 = frame_count[n] + process_frame_delay
    BY ClosedFrames
  <2>3. CASE o <= 0
    <3>1. fc <= process_frame_delay
      BY <1>1, <2>3
    <3> HIDE DEF fc
    <3> QED BY <1>1, <2>1, <2>2, <3>1
  <2>4. CASE o \in 1 .. Len(broadcast[n])
    <3>1. broadcast[n] \in Seq(Queues)
          /\ Len(broadcast[n]) < send_queue[n].tag - process_frame_delay
      BY DEF LInv, TypeInv, BroadcastInv
    <3>2. Len(broadcast[n]) \in Nat
      BY <3>1
    <3>3. o <= Len(broadcast[n])
      BY <2>4
    <3>4. fc < send_queue[n].tag
      <4> DEFINE len == Len(broadcast[n])
                 tag == send_queue[n].tag
      <4>1. len \in Nat /\ tag \in Nat /\ fc \in Nat /\ process_frame_delay \in Nat
            /\ fc - process_frame_delay <= len /\ len < tag - process_frame_delay
        BY <1>1, <2>1, <3>1, <3>2, <3>3
      <4> HIDE DEF len, tag, fc
      <4>2. fc < tag
        BY <4>1
      <4> QED BY <4>2 DEF tag
    <3> HIDE DEF fc
    <3> QED BY <1>1, <2>1, <3>4
  <2> QED BY <1>4, <2>3, <2>4
<1>6. fc \in 1 .. LastClosed(n)
  <2>1. LastClosed(n) \in Nat
    BY ClosedFrames
  <2> HIDE DEF fc
  <2> QED BY <1>1, <1>5, <2>1
<1>7. Matches(broadcast, n, n, fc, QueueFor(n, fc))
  <2> HIDE DEF fc
  <2> QED BY <1>6, QueueForMatches
<1>8. cmds = QueueFor(n, fc)
  <2> HIDE DEF cmds, fc
  <2> QED BY <1>3, <1>4, <1>7 DEF Matches
<1> QED BY <1>5, <1>8

\* A call of is_mp_sync is a turn.
LEMMA TurnStep ==
  ASSUME alternating_send_rate = 1, LInv, HumansInv, NEW p \in Nations, IsMpSync(p)
  PROVE  Frames!Turn(p)
<1> DEFINE fc == frame_count[p]
<1>1. PICK slots \in [Slots -> Seq(Queues)] :
        /\ Closing(p, slots) \/ NotClosing(p, slots)
        /\ \A i \in Slots : \A n \in Nations \ {p} :
             ExecutedOf(slots[i], n) = ExecutedOf(receive_queue[p][i], n)
        /\ Staying(p, slots) \/ Going(p, slots)
  BY IsMpSyncCloses
<1>2. Frames!Close(p, <<>>) \/ UNCHANGED <<closedQueues, opened>>
  BY Closes DEF Frames!Close, Frames!IsClosed, closedQueues, opened
<1>3. ASSUME Staying(p, slots)
      PROVE  (\E n \in Nations : Frames!TakeOver(p, n)) \/ UNCHANGED <<frame_count, taken, executed>>
  <2>1. CASE ai' = ai
    BY <1>3, <2>1 DEF Staying, taken, Humans
  <2>2. CASE \E n \in Humans(p) \ {p} : ai' = [ai EXCEPT ![p] = @ \cup {n}]
    <3>1. PICK n \in Humans(p) \ {p} : ai' = [ai EXCEPT ![p] = @ \cup {n}]
      BY <2>2
    <3>2. n \in Nations /\ n \in taken[p] \ {p}
      BY DEF Humans, taken
    <3>3. ai'[p] = ai[p] \cup {n} /\ \A r \in Nations \ {p} : ai'[r] = ai[r]
      BY <3>1 DEF LInv, TypeInv
    <3>4. taken' = [taken EXCEPT ![p] = @ \ {n}]
      BY <3>3 DEF taken, Humans
    <3>5. Frames!TakeOver(p, n)
      BY <1>3, <3>2, <3>4 DEF Frames!TakeOver, Staying, taken
    <3> QED BY <3>2, <3>5
  <2> QED BY <1>3, <2>1, <2>2 DEF Staying
<1>4. ASSUME Going(p, slots)
      PROVE  Frames!Advance(p, closedQueues')
  <2>1. /\ LastClosed(p)' = fc + process_frame_delay
        /\ frame_count' = [frame_count EXCEPT ![p] = @ + 1]
        /\ executed' = [executed EXCEPT ![p] =
             Append(@, [n \in Humans(p) |-> ExecutedOf(slots[0], n)])]
        /\ ai' = ai
        /\ \A n \in Humans(p) \ {p} : Holds(receive_queue[p], 0, n)
    BY <1>4 DEF Going
  <2>2. /\ fc \in Nat /\ fc >= 1 /\ 0 \in Slots /\ Humans(p) \subseteq Nations
        /\ process_frame_delay \in Nat /\ process_frame_delay >= 1
        /\ fc + process_frame_delay \in Nat /\ fc <= fc + process_frame_delay
    BY ClosedFrames, Delay DEF Humans
  <2> HIDE DEF fc
  <2>3. /\ closedQueues'[p] = [f \in 1 .. fc + process_frame_delay |-> QueueFor(p, f)']
        /\ Len(closedQueues'[p]) = fc + process_frame_delay
    <3>1. closedQueues'[p] = [f \in 1 .. fc + process_frame_delay |-> QueueFor(p, f)']
      BY <2>1 DEF closedQueues
    <3>2. Len([f \in 1 .. fc + process_frame_delay |-> QueueFor(p, f)']) = fc + process_frame_delay
      BY <2>2
    <3> QED BY <3>1, <3>2
  \* p's own commands for the frame are those it executed in it.
  <2>4. closedQueues'[p][fc] = ExecutedOf(slots[0], p)
    <3> DEFINE orders == [n \in Humans(p) |-> ExecutedOf(slots[0], n)]
    <3>1. p \in Humans(p)
      BY DEF LInv, PendingInv, Humans
    <3>2. orders[p] = ExecutedOf(slots[0], p)
      BY <3>1
    <3> HIDE DEF orders
    <3>3. executed[p] \in Seq(Orders) /\ Len(executed[p]) = fc - 1
      BY DEF LInv, TypeInv, ExecutedInv, fc
    <3>4. /\ frame_count'[p] = fc + 1 /\ executed'[p] = Append(executed[p], orders)
      BY <2>1 DEF LInv, TypeInv, orders, fc
    <3>5. executed'[p][fc] = orders
      BY <2>2, <3>3, <3>4
    <3>6. \A f : f = fc => QueueFor(p, f)' = orders[p]
      <4>1. fc < fc + 1
        BY <2>2
      <4> QED BY <3>4, <3>5, <4>1 DEF QueueFor
    <3>7. fc \in 1 .. fc + process_frame_delay
      BY <2>2
    <3> QED BY <2>3, <3>2, <3>6, <3>7
  <2>5. ASSUME NEW n \in Humans(p) \ {p}
        PROVE  /\ fc <= Len(closedQueues'[n])
               /\ closedQueues'[n][fc] = ExecutedOf(slots[0], n)
    <3>0. n \in Nations
      BY DEF Humans
    <3>1. fc <= LastClosed(n) /\ ExecutedOf(slots[0], n) = QueueFor(n, fc)
      <4>1. ExecutedOf(slots[0], n) = ExecutedOf(receive_queue[p][0], n)
        BY <1>1, <2>2, <3>0
      <4> QED BY <2>1, <3>0, <4>1, OthersClosed DEF fc
    <3>2. /\ Len(closedQueues[n]) = LastClosed(n) /\ LastClosed(n) \in Nat
          /\ \A f \in 1 .. LastClosed(n) : closedQueues[n][f] = QueueFor(n, f)
      BY <3>0, ClosedSequence, ClosedFrames
    <3>3. closedQueues'[n] = closedQueues[n]
      BY <3>0, Closes DEF closedQueues
    <3>4. fc \in 1 .. LastClosed(n)
      BY <2>2, <3>1, <3>2
    <3> QED BY <3>1, <3>2, <3>3, <3>4
  <2>6. taken[p] = Humans(p) /\ taken' = taken
    BY <2>1 DEF taken, Humans
  <2>7. /\ Len(closedQueues'[p]) = fc + process_frame_delay
        /\ \A n \in taken[p] : fc <= Len(closedQueues'[n])
    BY <2>2, <2>3, <2>5, <2>6
  <2>8. [n \in taken[p] |-> closedQueues'[n][fc]] = [n \in Humans(p) |-> ExecutedOf(slots[0], n)]
    BY <2>4, <2>5, <2>6
  <2>9. executed' = [executed EXCEPT ![p] = Append(@, [n \in taken[p] |-> closedQueues'[n][fc]])]
    BY <2>1, <2>8
  <2> HIDE DEF closedQueues
  <2> QED BY <2>1, <2>6, <2>7, <2>9
        DEF Frames!Advance, Frames!Ready, Frames!Orders, taken, fc
<1>5. \/ Frames!Advance(p, closedQueues')
      \/ \E n \in Nations : Frames!TakeOver(p, n)
      \/ UNCHANGED <<frame_count, taken, executed>>
  BY <1>1, <1>3, <1>4
<1> QED BY <1>2, <1>5 DEF Frames!Turn, closedQueues, opened, taken

\* A command goes to the open queue.  Behind the trailer of a queue that is
\* being broadcast again it is not heard of any more.
LEMMA IssueOpens ==
  ASSUME LInv, HumansInv, NEW p \in Nations, Issue(p)
  PROVE  /\ UNCHANGED <<frame_count, closedQueues, taken, executed>>
         /\ issued[p] + 1 \in 1 .. MaxCommands
         /\ issued' = [issued EXCEPT ![p] = @ + 1]
         /\ \/ /\ opened' = [opened EXCEPT ![p] = Append(@, issued[p] + 1)]
               /\ UNCHANGED late
            \/ /\ opened' = opened
               /\ late' = [late EXCEPT ![p] = @ \cup {issued[p] + 1}]
<1>1. /\ UNCHANGED <<frame_count, receive_queue, remote_send_success_flag, executed, ai>>
      /\ issued[p] \in Nat /\ issued[p] + 1 <= MaxCommands
      /\ send_queue \in [Nations -> Queues]
  BY DEF Issue, frameVars, LInv, TypeInv
<1>2. /\ issued[p] + 1 \in 1 .. MaxCommands /\ issued' = [issued EXCEPT ![p] = @ + 1]
      /\ UNCHANGED taken
  BY <1>1, LockstepAssumption DEF Issue, taken, Humans
<1>3. \A r \in Nations : send_queue'[r].tag = send_queue[r].tag
  <2> DEFINE c == issued[p] + 1
             before == [send_queue[p] EXCEPT !.cmds = Append(@, c)]
             behind == [send_queue[p] EXCEPT !.after = Append(@, c)]
  <2>1. send_queue' = [send_queue EXCEPT ![p] = before]
        \/ send_queue' = [send_queue EXCEPT ![p] = behind]
    BY DEF Issue
  <2>2. before.tag = send_queue[p].tag /\ behind.tag = send_queue[p].tag
    BY <1>1 DEF Queues
  <2> HIDE DEF before, behind
  <2> QED BY <1>1, <2>1, <2>2
<1>4. closedQueues' = closedQueues
  <2>1. \A r \in Nations : LastClosed(r)' = LastClosed(r)
    BY <1>1, <1>3 DEF LastClosed
  <2>2. \A r \in Nations : \A f : QueueFor(r, f)' = QueueFor(r, f)
    BY <1>1 DEF QueueFor
  <2> QED BY <2>1, <2>2 DEF closedQueues
<1>5. CASE remote_send_success_flag[p]
  <2> DEFINE new == [send_queue[p] EXCEPT !.cmds = Append(@, issued[p] + 1)]
  <2>1. send_queue' = [send_queue EXCEPT ![p] = new] /\ UNCHANGED late
    BY <1>5 DEF Issue
  <2>2. new.cmds = Append(send_queue[p].cmds, issued[p] + 1)
    BY <1>1 DEF Queues
  <2>3. /\ send_queue'[p].cmds = Append(send_queue[p].cmds, issued[p] + 1)
        /\ \A r \in Nations \ {p} : send_queue'[r] = send_queue[r]
    <3> HIDE DEF new
    <3> QED BY <1>1, <2>1, <2>2
  <2>4. /\ OpenQueue(p)' = Append(OpenQueue(p), issued[p] + 1)
        /\ \A r \in Nations \ {p} : OpenQueue(r)' = OpenQueue(r)
    BY <1>1, <1>5, <2>3 DEF OpenQueue
  <2>5. opened' = [opened EXCEPT ![p] = Append(@, issued[p] + 1)]
    BY <2>4 DEF opened
  <2> QED BY <1>1, <1>2, <1>4, <2>1, <2>5
<1>6. CASE ~remote_send_success_flag[p]
  <2>1. /\ send_queue' = [send_queue EXCEPT ![p].after = Append(@, issued[p] + 1)]
        /\ late' = [late EXCEPT ![p] = @ \cup {issued[p] + 1}]
    BY <1>6 DEF Issue
  <2>2. \A r \in Nations \ {p} : send_queue'[r] = send_queue[r]
    BY <1>1, <2>1
  <2>3. \A r \in Nations : OpenQueue(r)' = OpenQueue(r)
    BY <1>1, <1>6, <2>2 DEF OpenQueue
  <2>4. opened' = opened
    BY <2>3 DEF opened
  <2> QED BY <1>1, <1>2, <1>4, <2>1, <2>4
<1> QED BY <1>5, <1>6

\* Messages of others, lost connections and what ErrorControl accepts leave
\* p's queues alone.
LEMMA OthersKeep ==
  ASSUME LInv,
         \/ UNCHANGED vars
         \/ \E p \in Nations : PollMsg(p)
         \/ \E p \in Nations : LosePlayers(p)
         \/ \E p, q \in Nations : \E n \in 0 .. Sent[q] - 1 : Accept(p, q, n)
  PROVE  UNCHANGED <<frame_count, closedQueues, opened, taken, executed, issued, late>>
<1>1. /\ UNCHANGED <<frame_count, executed, ai, send_queue, remote_send_success_flag>>
      /\ UNCHANGED <<issued, late>>
  BY DEF vars, queueVars, frameVars, PollMsg, LosePlayers, Accept
<1>2. \A p \in Nations : \A i \in Slots :
        ExecutedOf(receive_queue'[p][i], p) = ExecutedOf(receive_queue[p][i], p)
  <2>1. CASE receive_queue' = receive_queue
    BY <2>1
  <2>2. ASSUME NEW p \in Nations, PollMsg(p)
        PROVE  \A r \in Nations : \A i \in Slots :
                 ExecutedOf(receive_queue'[r][i], r) = ExecutedOf(receive_queue[r][i], r)
    <3> DEFINE m == Head(recv_queue[p])
               q == broadcast[m.src][m.n + 1]
               R == [src : Nations, n : Nat]
    <3>1. /\ recv_queue[p] \in Seq(R) /\ recv_queue[p] # <<>>
          /\ receive_queue' = [receive_queue EXCEPT ![p] = Filed(p, q)]
          /\ receive_queue \in [Nations -> [Slots -> Seq(Queues)]]
      BY <2>2 DEF LInv, TypeInv, PollMsg, Cast!Poll
    <3>2. m \in R /\ m = recv_queue[p][1] /\ 1 \in 1 .. Len(recv_queue[p])
      <4> HIDE DEF R
      <4>1. /\ m \in R /\ m = recv_queue[p][1]
            /\ Len(recv_queue[p]) \in Nat /\ Len(recv_queue[p]) >= 1
        BY <3>1, HeadAndTail
      <4> QED BY <4>1
    <3>3. m.src \in Nations /\ m.n \in Nat /\ m.src # p /\ m.n < Len(broadcast[m.src])
      <4> HIDE DEF m
      <4> QED BY <3>2 DEF LInv, PendingInv
    <3>4. q \in Queues /\ q.nation # p
      <4> HIDE DEF m
      <4>1. broadcast[m.src] \in Seq(Queues)
        BY <3>3 DEF LInv, TypeInv
      <4>2. m.n + 1 \in 1 .. Len(broadcast[m.src])
        BY <3>3, <4>1
      <4>3. q \in Queues
        BY <4>1, <4>2, SeqElement
      <4> QED BY <3>3, <4>2, <4>3 DEF LInv, BroadcastInv
    <3> HIDE DEF q
    <3>5. \A i \in Slots : ExecutedOf(Filed(p, q)[i], p) = ExecutedOf(receive_queue[p][i], p)
      BY <3>4, FiledOwn DEF LInv
    <3> QED BY <3>1, <3>5
  <2>3. receive_queue' = receive_queue \/ \E p \in Nations : PollMsg(p)
    BY DEF vars, LosePlayers, Accept
  <2> QED BY <2>1, <2>2, <2>3
<1>3. opened' = opened /\ taken' = taken
  BY <1>1 DEF opened, OpenQueue, taken, Humans
<1>4. closedQueues' = closedQueues
  <2>1. \A p \in Nations : LastClosed(p)' = LastClosed(p)
    BY <1>1 DEF LastClosed
  <2>2. ASSUME NEW p \in Nations, NEW f \in 1 .. LastClosed(p)
        PROVE  QueueFor(p, f)' = QueueFor(p, f)
    <3>1. f < frame_count[p] \/ f - frame_count[p] \in Slots
      BY ClosedFrames
    <3>2. CASE f < frame_count[p]
      BY <1>1, <3>2 DEF QueueFor
    <3>3. CASE ~(f < frame_count[p])
      BY <1>1, <1>2, <3>1, <3>3 DEF QueueFor
    <3> QED BY <3>2, <3>3
  <2> QED BY <2>1, <2>2 DEF closedQueues
<1> QED BY <1>1, <1>3, <1>4

LEMMA FramesInit ==
  ASSUME alternating_send_rate = 1, Init
  PROVE  Frames!Init
<1>1. LInv /\ HumansInv
  BY InitLInv, InitDInv DEF DInv
<1>2. /\ frame_count = [p \in Nations |-> 1] /\ executed = [p \in Nations |-> <<>>]
      /\ next_frame_ready = [p \in Nations |-> {}] /\ ai = [p \in Nations |-> {}]
      /\ remote_send_success_flag = [p \in Nations |-> TRUE]
      /\ send_queue = [p \in Nations |-> init_send_queue(p, 1)]
  BY DEF Init
<1>3. ASSUME NEW p \in Nations PROVE LastClosed(p) = process_frame_delay
  <2>1. LastClosed(p) + 1 = 1 + process_frame_delay /\ LastClosed(p) \in Nat
    BY <1>1, <1>2, ClosedFrames
  <2> QED BY <2>1, Delay
<1>4. ASSUME NEW p \in Nations, NEW f \in 1 .. process_frame_delay
      PROVE  QueueFor(p, f) = <<>>
  <2>1. Matches(broadcast, p, p, f, QueueFor(p, f))
    BY <1>1, <1>3, QueueForMatches
  <2>2. f - process_frame_delay <= 0
    BY Delay
  <2> QED BY <2>1, <2>2 DEF Matches
<1>5. closedQueues = [p \in Nations |-> [f \in 1 .. process_frame_delay |-> <<>>]]
  BY <1>3, <1>4 DEF closedQueues
<1>6. opened = [p \in Nations |-> <<>>]
  BY <1>2 DEF opened, OpenQueue, init_send_queue, Queue
<1>7. taken = [p \in Nations |-> Nations]
  BY <1>2 DEF taken, Humans
<1> QED BY <1>2, <1>5, <1>6, <1>7 DEF Frames!Init, closedQueues, opened, taken

LEMMA FramesStep ==
  ASSUME alternating_send_rate = 1, LInv, HumansInv, [Next]_vars
  PROVE  [Frames!Next]_Frames!vars
<1>1. ASSUME NEW p \in Nations, IsMpSync(p) PROVE Frames!Next
  BY <1>1, TurnStep DEF Frames!Next
<1>2. ASSUME NEW p \in Nations, Issue(p) PROVE [Frames!Next]_Frames!vars
  <2>1. /\ UNCHANGED <<frame_count, closedQueues, taken, executed>>
        /\ issued[p] + 1 \in 1 .. MaxCommands
        /\ \/ opened' = [opened EXCEPT ![p] = Append(@, issued[p] + 1)]
           \/ opened' = opened
    BY <1>2, IssueOpens
  <2>2. CASE opened' = opened
    BY <2>1, <2>2 DEF Frames!vars, closedQueues, opened, taken
  <2>3. CASE opened' = [opened EXCEPT ![p] = Append(@, issued[p] + 1)]
    <3>1. Frames!Issue(p, issued[p] + 1)
      BY <2>1, <2>3 DEF Frames!Issue, closedQueues, opened, taken
    <3> QED BY <2>1, <3>1 DEF Frames!Next
  <2> QED BY <2>1, <2>2, <2>3
<1>3. CASE \/ UNCHANGED vars
           \/ \E p \in Nations : PollMsg(p)
           \/ \E p \in Nations : LosePlayers(p)
           \/ \E p, q \in Nations : \E n \in 0 .. Sent[q] - 1 : Accept(p, q, n)
  BY <1>3, OthersKeep DEF Frames!vars, closedQueues, opened, taken
<1> QED BY <1>1, <1>2, <1>3 DEF Next

\* When every player sends in every frame, the lockstep is a FrameCast: a queue
\* is executed by all, complete, in its frame and in no other, whatever happens
\* on the network and however often its broadcast is refused.
THEOREM LockstepIsAFrameCast ==
  ASSUME alternating_send_rate = 1
  PROVE  Spec => ImplementsFrameCast
<1>1. Init => Frames!Init
  BY FramesInit
<1>2. LInv /\ DInv /\ [Next]_vars => [Frames!Next]_Frames!vars
  BY FramesStep DEF DInv
<1> QED BY <1>1, <1>2, Invariants, PTL DEF Spec, ImplementsFrameCast, Frames!Spec

-----------------------------------------------------------------------------
(* Commands in order *)

\* The queues hold the commands of S, each once, in the order given.
InOrder(queues, S) ==
  /\ \A f \in 1 .. Len(queues) : \A i \in 1 .. Len(queues[f]) : queues[f][i] \in S
  /\ \A c \in S : \E f \in 1 .. Len(queues) : \E i \in 1 .. Len(queues[f]) : queues[f][i] = c
  /\ \A f, g \in 1 .. Len(queues) : \A i \in 1 .. Len(queues[f]), j \in 1 .. Len(queues[g]) :
       f < g \/ (f = g /\ i < j) => queues[f][i] < queues[g][j]

\* Empty queues in between change nothing: queue f of the one is queue place[f]
\* of the other.
LEMMA InOrderPlaced ==
  ASSUME NEW queues \in Seq(Seq(Nat)), NEW more \in Seq(Seq(Nat)), NEW S, InOrder(queues, S),
         NEW place \in [1 .. Len(queues) -> 1 .. Len(more)],
         \A f, g \in 1 .. Len(queues) : f < g => place[f] < place[g],
         \A f \in 1 .. Len(queues) : more[place[f]] = queues[f],
         \A k \in 1 .. Len(more) :
           more[k] = <<>> \/ \E f \in 1 .. Len(queues) : k = place[f]
  PROVE  InOrder(more, S)
<1>1. \A k \in 1 .. Len(more) : \A i \in 1 .. Len(more[k]) :
        \E f \in 1 .. Len(queues) : k = place[f] /\ more[k] = queues[f]
  <2> SUFFICES ASSUME NEW k \in 1 .. Len(more), NEW i \in 1 .. Len(more[k])
               PROVE  more[k] # <<>>
    OBVIOUS
  <2>1. Len(<<>>) = 0
    OBVIOUS
  <2> QED BY <2>1
<1>2. ASSUME NEW k \in 1 .. Len(more), NEW i \in 1 .. Len(more[k])
      PROVE  more[k][i] \in S
  BY <1>1 DEF InOrder
<1>3. ASSUME NEW c \in S
      PROVE  \E k \in 1 .. Len(more) : \E i \in 1 .. Len(more[k]) : more[k][i] = c
  <2>1. PICK f \in 1 .. Len(queues) : \E i \in 1 .. Len(queues[f]) : queues[f][i] = c
    BY DEF InOrder
  <2>2. place[f] \in 1 .. Len(more) /\ more[place[f]] = queues[f]
    OBVIOUS
  <2>3. PICK i \in 1 .. Len(queues[f]) : queues[f][i] = c
    BY <2>1
  <2>4. i \in 1 .. Len(more[place[f]]) /\ more[place[f]][i] = c
    BY <2>2, <2>3
  <2> QED BY <2>2, <2>4
<1>4. ASSUME NEW k \in 1 .. Len(more), NEW l \in 1 .. Len(more),
             NEW i \in 1 .. Len(more[k]), NEW j \in 1 .. Len(more[l]),
             k < l \/ (k = l /\ i < j)
      PROVE  more[k][i] < more[l][j]
  <2>1. PICK f \in 1 .. Len(queues) : k = place[f] /\ more[k] = queues[f]
    BY <1>1
  <2>2. PICK g \in 1 .. Len(queues) : l = place[g] /\ more[l] = queues[g]
    BY <1>1
  <2>3. f \in Nat /\ g \in Nat /\ k \in Nat /\ l \in Nat
    OBVIOUS
  <2>4. (f < g => place[f] < place[g]) /\ (g < f => place[g] < place[f])
    OBVIOUS
  <2>5. (f < g => k < l) /\ (g < f => l < k) /\ (f = g => k = l)
    BY <2>1, <2>2, <2>4
  <2>6. CASE k < l
    <3>1. f < g
      <4>1. ~(g < f) /\ g # f
        BY <2>3, <2>6, <2>5
      <4> QED BY <2>3, <4>1
    <3> QED BY <2>1, <2>2, <3>1 DEF InOrder
  <2>7. CASE k = l /\ i < j
    <3>1. ~(g < f) /\ ~(f < g)
      BY <2>3, <2>7, <2>5
    <3>2. f = g
      BY <2>3, <3>1
    <3> QED BY <2>1, <2>2, <2>7, <3>2 DEF InOrder
  <2> QED BY <1>4, <2>6, <2>7
<1> QED BY <1>2, <1>3, <1>4 DEF InOrder

\* A command given later goes to the end.
LEMMA InOrderIssued ==
  ASSUME NEW closed \in Seq(Seq(Nat)), NEW open \in Seq(Nat), NEW n \in Nat,
         NEW S \in SUBSET (1 .. n), InOrder(Append(closed, open), S)
  PROVE  InOrder(Append(closed, Append(open, n + 1)), S \cup {n + 1})
<1> DEFINE L == Len(closed) + 1
           old == Append(closed, open)
           longer == Append(open, n + 1)
           new == Append(closed, longer)
<1>1. /\ L \in Nat /\ Len(old) = L /\ Len(new) = L
      /\ old[L] = open /\ new[L] = longer
      /\ \A f \in 1 .. L : f # L => old[f] = new[f]
  <2>1. longer \in Seq(Nat)
    OBVIOUS
  <2> HIDE DEF longer
  <2> QED BY <2>1
<1>2. /\ Len(open) \in Nat /\ Len(longer) = Len(open) + 1 /\ longer[Len(open) + 1] = n + 1
      /\ \A i \in 1 .. Len(open) : longer[i] = open[i]
  OBVIOUS
<1> HIDE DEF L, longer, old, new
<1>3. /\ \A f \in 1 .. L : \A i \in 1 .. Len(old[f]) : old[f][i] \in S
      /\ \A c \in S : \E f \in 1 .. L : \E i \in 1 .. Len(old[f]) : old[f][i] = c
      /\ \A f, g \in 1 .. L : \A i \in 1 .. Len(old[f]), j \in 1 .. Len(old[g]) :
           f < g \/ (f = g /\ i < j) => old[f][i] < old[g][j]
  BY <1>1 DEF InOrder, old
\* An element of the new queues is one of the old, or the new command.
<1>4. ASSUME NEW f \in 1 .. L, NEW i \in 1 .. Len(new[f])
      PROVE  \/ i \in 1 .. Len(old[f]) /\ new[f][i] = old[f][i]
             \/ f = L /\ i = Len(open) + 1 /\ new[f][i] = n + 1
  <2>1. CASE f # L
    BY <1>1, <2>1
  <2>2. CASE f = L
    <3>1. i = Len(open) + 1 \/ i \in 1 .. Len(open)
      BY <1>1, <1>2, <2>2
    <3> QED BY <1>1, <1>2, <2>2, <3>1
  <2> QED BY <2>1, <2>2
<1>5. ASSUME NEW f \in 1 .. L, NEW i \in 1 .. Len(new[f])
      PROVE  new[f][i] \in S \cup {n + 1}
  BY <1>3, <1>4
<1>6. ASSUME NEW c \in S \cup {n + 1}
      PROVE  \E f \in 1 .. L : \E i \in 1 .. Len(new[f]) : new[f][i] = c
  <2>1. CASE c = n + 1
    <3>1. L \in 1 .. L /\ Len(open) + 1 \in 1 .. Len(new[L]) /\ new[L][Len(open) + 1] = n + 1
      <4>1. L >= 1
        BY DEF L
      <4> QED BY <1>1, <1>2, <4>1
    <3> QED BY <2>1, <3>1
  <2>2. CASE c \in S
    <3>1. PICK f \in 1 .. L : \E i \in 1 .. Len(old[f]) : old[f][i] = c
      BY <1>3, <2>2
    <3>2. PICK i \in 1 .. Len(old[f]) : old[f][i] = c
      BY <3>1
    <3>3. i \in 1 .. Len(new[f]) /\ new[f][i] = old[f][i]
      <4>1. CASE f # L
        BY <1>1, <3>2, <4>1
      <4>2. CASE f = L
        BY <1>1, <1>2, <3>2, <4>2
      <4> QED BY <4>1, <4>2
    <3> QED BY <3>2, <3>3
  <2> QED BY <2>1, <2>2
<1>7. ASSUME NEW f \in 1 .. L, NEW g \in 1 .. L,
             NEW i \in 1 .. Len(new[f]), NEW j \in 1 .. Len(new[g]),
             f < g \/ (f = g /\ i < j)
      PROVE  new[f][i] < new[g][j]
  <2>1. CASE i \in 1 .. Len(old[f]) /\ new[f][i] = old[f][i]
    <3>1. old[f][i] \in S /\ old[f][i] < n + 1
      <4>1. old[f][i] \in S
        BY <1>3, <2>1
      <4>2. old[f][i] \in 1 .. n
        BY <4>1
      <4> QED BY <4>1, <4>2
    <3>2. CASE j \in 1 .. Len(old[g]) /\ new[g][j] = old[g][j]
      BY <1>3, <1>7, <2>1, <3>2
    <3> QED BY <1>4, <2>1, <3>1, <3>2
  <2>2. CASE f = L /\ i = Len(open) + 1 /\ new[f][i] = n + 1
    <3>1. g = L /\ j > Len(open) + 1
      BY <1>1, <1>7, <2>2
    <3>2. Len(new[L]) = Len(open) + 1
      BY <1>1, <1>2
    <3> QED BY <1>2, <3>1, <3>2
  <2> QED BY <1>4, <2>1, <2>2
<1>8. InOrder(new, S \cup {n + 1})
  BY <1>1, <1>5, <1>6, <1>7 DEF InOrder
<1> QED BY <1>8 DEF new, longer

\* Closing puts an empty queue behind.
LEMMA InOrderClosed ==
  ASSUME NEW queues \in Seq(Seq(Nat)), NEW S, InOrder(queues, S)
  PROVE  InOrder(Append(queues, <<>>), S)
<1> DEFINE more == Append(queues, <<>>)
           place == [f \in 1 .. Len(queues) |-> f]
<1>1. <<>> \in Seq(Nat)
  OBVIOUS
<1>2. /\ more \in Seq(Seq(Nat)) /\ Len(queues) \in Nat /\ Len(more) = Len(queues) + 1
      /\ more[Len(queues) + 1] = <<>> /\ \A f \in 1 .. Len(queues) : more[f] = queues[f]
  BY <1>1
<1> HIDE DEF more
<1>3. /\ place \in [1 .. Len(queues) -> 1 .. Len(more)]
      /\ \A f \in 1 .. Len(queues) : place[f] = f
  BY <1>2
<1> HIDE DEF place
<1>4. \A k \in 1 .. Len(more) : more[k] = <<>> \/ \E f \in 1 .. Len(queues) : k = place[f]
  <2> SUFFICES ASSUME NEW k \in 1 .. Len(more)
               PROVE  more[k] = <<>> \/ \E f \in 1 .. Len(queues) : k = place[f]
    OBVIOUS
  <2>1. k = Len(queues) + 1 \/ k \in 1 .. Len(queues)
    BY <1>2
  <2>2. CASE k \in 1 .. Len(queues)
    <3>1. k = place[k]
      BY <1>3, <2>2
    <3> QED BY <2>2, <3>1
  <2> QED BY <1>2, <2>1, <2>2
<1>5. InOrder(more, S)
  <2>1. \A f, g \in 1 .. Len(queues) : f < g => place[f] < place[g]
    BY <1>3
  <2>2. \A f \in 1 .. Len(queues) : more[place[f]] = queues[f]
    BY <1>2, <1>3
  <2>3. more \in Seq(Seq(Nat)) /\ place \in [1 .. Len(queues) -> 1 .. Len(more)]
    BY <1>2, <1>3
  <2> QED BY <1>4, <2>1, <2>2, <2>3, InOrderPlaced
<1> QED BY <1>5 DEF more

\* The commands given so far, but for those behind a trailer, are in the queues
\* closed and the open one.
CommandsInv ==
  /\ late \in [Nations -> SUBSET Nat]
  /\ \A p \in Nations :
       /\ late[p] \subseteq 1 .. issued[p]
       /\ InOrder(Append(closedQueues[p], opened[p]), (1 .. issued[p]) \ late[p])

LEMMA CommandsPrimed ==
  ASSUME late' \in [Nations -> SUBSET Nat],
         \A p \in Nations :
           /\ late'[p] \subseteq 1 .. issued'[p]
           /\ InOrder(Append(closedQueues'[p], opened'[p]), (1 .. issued'[p]) \ late'[p])
  PROVE  CommandsInv'
BY DEF CommandsInv

LEMMA InitCommandsInv ==
  ASSUME alternating_send_rate = 1, Init
  PROVE  CommandsInv
<1>1. /\ late = [p \in Nations |-> {}] /\ issued = [p \in Nations |-> 0]
  BY DEF Init
<1>2. ASSUME NEW p \in Nations
      PROVE  InOrder(Append(closedQueues[p], opened[p]), (1 .. issued[p]) \ late[p])
  <2> DEFINE queues == Append(closedQueues[p], opened[p])
  <2>1. /\ closedQueues = [n \in Nations |-> [f \in 1 .. process_frame_delay |-> <<>>]]
        /\ opened = [n \in Nations |-> <<>>]
    BY FramesInit DEF Frames!Init, closedQueues, opened
  <2>2. queues = Append([f \in 1 .. process_frame_delay |-> <<>>], <<>>)
    BY <2>1
  <2>3. \A f \in 1 .. Len(queues) : queues[f] = <<>>
    BY <2>2, Delay
  <2>4. \A f \in 1 .. Len(queues) : Len(queues[f]) = 0
    BY <2>3
  <2>5. (1 .. issued[p]) \ late[p] = {}
    BY <1>1
  <2> HIDE DEF queues
  <2>6. InOrder(queues, (1 .. issued[p]) \ late[p])
    BY <2>4, <2>5 DEF InOrder
  <2> QED BY <2>6 DEF queues
<1> QED BY <1>1, <1>2 DEF CommandsInv

LEMMA NextCommandsInv ==
  ASSUME alternating_send_rate = 1, LInv, HumansInv, CommandsInv, [Next]_vars
  PROVE  CommandsInv'
<1>1. ASSUME NEW p \in Nations
      PROVE  /\ closedQueues[p] \in Seq(Seq(Nat)) /\ opened[p] \in Seq(Nat)
             /\ Append(closedQueues[p], opened[p]) \in Seq(Seq(Nat))
             /\ issued[p] \in Nat
             /\ late[p] \subseteq 1 .. issued[p]
             /\ InOrder(Append(closedQueues[p], opened[p]), (1 .. issued[p]) \ late[p])
  <2>1. closedQueues[p] \in Seq(Seq(Nat)) /\ opened[p] \in Seq(Nat)
    BY ClosedSequence
  <2>2. Append(closedQueues[p], opened[p]) \in Seq(Seq(Nat))
    BY <2>1
  <2> QED BY <2>1, <2>2 DEF CommandsInv, LInv, TypeInv
<1>2. /\ DOMAIN closedQueues = Nations /\ DOMAIN opened = Nations
      /\ late \in [Nations -> SUBSET Nat] /\ issued \in [Nations -> Nat]
  BY DEF closedQueues, opened, CommandsInv, LInv, TypeInv
<1> HIDE DEF closedQueues, opened
<1>3. ASSUME UNCHANGED <<closedQueues, opened, issued, late>>
      PROVE  CommandsInv'
  BY <1>3, <1>1, <1>2, CommandsPrimed
<1>4. ASSUME NEW p \in Nations, IsMpSync(p)
      PROVE  CommandsInv'
  <2>1. UNCHANGED <<issued, late>>
    BY <1>4, Closes
  <2>2. CASE UNCHANGED <<closedQueues, opened>>
    BY <1>3, <2>1, <2>2
  <2>3. CASE /\ closedQueues' = [closedQueues EXCEPT ![p] = Append(@, opened[p])]
             /\ opened' = [opened EXCEPT ![p] = <<>>]
    <3>1. /\ closedQueues'[p] = Append(closedQueues[p], opened[p]) /\ opened'[p] = <<>>
          /\ \A r \in Nations \ {p} : closedQueues'[r] = closedQueues[r] /\ opened'[r] = opened[r]
      BY <1>2, <2>3
    <3>2. ASSUME NEW r \in Nations
          PROVE  InOrder(Append(closedQueues'[r], opened'[r]), (1 .. issued[r]) \ late[r])
      <4>1. CASE r = p
        BY <1>1, <3>1, <4>1, InOrderClosed
      <4>2. CASE r # p
        BY <1>1, <3>1, <4>2
      <4> QED BY <4>1, <4>2
    <3> QED BY <1>1, <1>2, <2>1, <3>2, CommandsPrimed
  <2> QED BY <1>4, <2>2, <2>3, Closes
<1>5. ASSUME NEW p \in Nations, Issue(p)
      PROVE  CommandsInv'
  <2> DEFINE c == issued[p] + 1
  <2>1. /\ closedQueues' = closedQueues /\ issued' = [issued EXCEPT ![p] = @ + 1]
        /\ \/ opened' = [opened EXCEPT ![p] = Append(@, c)] /\ late' = late
           \/ opened' = opened /\ late' = [late EXCEPT ![p] = @ \cup {c}]
    BY <1>5, IssueOpens
  <2>2. issued'[p] = c /\ \A r \in Nations \ {p} : issued'[r] = issued[r]
    BY <1>2, <2>1
  <2>3. /\ late'[p] = late[p] \/ late'[p] = late[p] \cup {c}
        /\ \A r \in Nations \ {p} : late'[r] = late[r] /\ opened'[r] = opened[r]
        /\ late' \in [Nations -> SUBSET Nat]
    <3>1. issued[p] \in Nat
      BY <1>1
    <3>2. c \in Nat
      BY <3>1
    <3> HIDE DEF c
    <3> QED BY <1>2, <2>1, <3>2
  <2>4. ASSUME NEW r \in Nations
        PROVE  /\ late'[r] \subseteq 1 .. issued'[r]
               /\ InOrder(Append(closedQueues[r], opened'[r]), (1 .. issued'[r]) \ late'[r])
    <3>1. CASE r # p
      BY <1>1, <2>2, <2>3, <3>1
    <3>2. CASE r = p
      <4>0. issued[p] \in Nat /\ late[p] \subseteq 1 .. issued[p]
        BY <1>1
      <4>1. late'[p] \subseteq 1 .. c
        BY <2>3, <4>0
      <4>2. CASE opened' = [opened EXCEPT ![p] = Append(@, c)] /\ late' = late
        <5>1. opened'[p] = Append(opened[p], c)
          BY <1>2, <4>2
        <5>2. (1 .. c) \ late[p] = ((1 .. issued[p]) \ late[p]) \cup {c}
          BY <4>0
        <5>3. ((1 .. issued[p]) \ late[p]) \in SUBSET (1 .. issued[p])
          OBVIOUS
        <5>4. InOrder(Append(closedQueues[p], Append(opened[p], c)),
                      ((1 .. issued[p]) \ late[p]) \cup {c})
          BY <1>1, <5>3, InOrderIssued
        <5> QED BY <2>2, <3>2, <4>1, <4>2, <5>1, <5>2, <5>4
      <4>3. CASE opened' = opened /\ late' = [late EXCEPT ![p] = @ \cup {c}]
        <5>1. late'[p] = late[p] \cup {c}
          BY <1>2, <4>3
        <5>2. (1 .. c) \ late'[p] = (1 .. issued[p]) \ late[p]
          BY <4>0, <5>1
        <5> QED BY <1>1, <2>2, <3>2, <4>1, <4>3, <5>2
      <4> QED BY <2>1, <4>2, <4>3
    <3> QED BY <3>1, <3>2
  <2> QED BY <2>1, <2>3, <2>4, CommandsPrimed
<1>6. CASE \/ UNCHANGED vars
           \/ \E p \in Nations : PollMsg(p)
           \/ \E p \in Nations : LosePlayers(p)
           \/ \E p, q \in Nations : \E n \in 0 .. Sent[q] - 1 : Accept(p, q, n)
  BY <1>3, <1>6, OthersKeep
<1> QED BY <1>4, <1>5, <1>6 DEF Next

LEMMA CommandsInvOrders ==
  ASSUME LInv, HumansInv, CommandsInv
  PROVE  CommandsInOrder
<1> SUFFICES ASSUME NEW p \in Nations
             PROVE  LET last == frame_count[p] + RECEIVE_QUEUE_BACKUP - 1
                        queues == Append([f \in 1 .. last |-> QueueFor(p, f)], OpenQueue(p)) IN
                    /\ UNION {ToSet(queues[f]) : f \in DOMAIN queues} = (1 .. issued[p]) \ late[p]
                    /\ \A f, g \in DOMAIN queues : \A i \in DOMAIN queues[f], j \in DOMAIN queues[g] :
                         f < g \/ (f = g /\ i < j) => queues[f][i] < queues[g][j]
  BY DEF CommandsInOrder
<1> DEFINE L == LastClosed(p)
           last == frame_count[p] + RECEIVE_QUEUE_BACKUP - 1
           frames == [f \in 1 .. last |-> QueueFor(p, f)]
           queues == Append(frames, OpenQueue(p))
           closed == Append(closedQueues[p], opened[p])
           S == (1 .. issued[p]) \ late[p]
           place == [f \in 1 .. L + 1 |-> IF f <= L THEN f ELSE last + 1]
<1>1. L \in Nat /\ last \in Nat /\ L <= last
  <2>1. /\ frame_count[p] \in Nat /\ frame_count[p] >= 1 /\ L \in Nat
        /\ L = frame_count[p] + process_frame_delay \/ L + 1 = frame_count[p] + process_frame_delay
    BY ClosedFrames
  <2>2. RECEIVE_QUEUE_BACKUP \in Nat /\ RECEIVE_QUEUE_BACKUP > process_frame_delay
        /\ process_frame_delay \in Nat
    BY LockstepAssumption
  <2> HIDE DEF L
  <2> QED BY <2>1, <2>2
<1>2. /\ closedQueues[p] \in Seq(Seq(Nat)) /\ Len(closedQueues[p]) = L
      /\ \A f \in 1 .. L : closedQueues[p][f] = QueueFor(p, f)
      /\ opened[p] = OpenQueue(p) /\ OpenQueue(p) \in Seq(Nat)
  BY ClosedSequence
<1>3. /\ closed \in Seq(Seq(Nat)) /\ Len(closed) = L + 1 /\ closed[L + 1] = OpenQueue(p)
      /\ \A f \in 1 .. L : closed[f] = QueueFor(p, f)
  <2> HIDE DEF L
  <2> QED BY <1>1, <1>2
<1>4. \A f \in L + 1 .. last : QueueFor(p, f) = <<>>
  BY QueueForBeyond
<1>5. \A f \in 1 .. L : QueueFor(p, f) \in Seq(Nat)
  BY QueueForMatches
<1> HIDE DEF L, last, closed, place
<1>6. /\ queues \in Seq(Seq(Nat)) /\ Len(queues) = last + 1 /\ queues[last + 1] = OpenQueue(p)
      /\ \A f \in 1 .. last : queues[f] = QueueFor(p, f)
  <2>1. \A f \in 1 .. last : QueueFor(p, f) \in Seq(Nat)
    <3>1. \A f \in 1 .. last : f \in 1 .. L \/ f \in L + 1 .. last
      BY <1>1
    <3>2. <<>> \in Seq(Nat)
      OBVIOUS
    <3> QED BY <1>4, <1>5, <3>1, <3>2
  <2>2. frames \in [1 .. last -> Seq(Nat)] /\ \A f \in 1 .. last : frames[f] = QueueFor(p, f)
    BY <2>1
  <2>3. frames \in Seq(Seq(Nat)) /\ Len(frames) = last
    <3> HIDE DEF frames
    <3> QED BY <1>1, <2>2
  <2> HIDE DEF frames
  <2> QED BY <1>1, <1>2, <2>2, <2>3
<1> HIDE DEF queues, S
<1>7. InOrder(closed, S)
  BY DEF CommandsInv, closed, S
<1>8. /\ place \in [1 .. Len(closed) -> 1 .. Len(queues)]
      /\ \A f \in 1 .. L : place[f] = f
      /\ place[L + 1] = last + 1
  BY <1>1, <1>3, <1>6 DEF place
<1>9. \A f, g \in 1 .. Len(closed) : f < g => place[f] < place[g]
  <2> SUFFICES ASSUME NEW f \in 1 .. L + 1, NEW g \in 1 .. L + 1, f < g
               PROVE  place[f] < place[g]
    BY <1>3
  <2>1. f \in 1 .. L /\ place[f] = f
    BY <1>1, <1>8
  <2>2. CASE g = L + 1
    BY <1>1, <1>8, <2>1, <2>2
  <2>3. CASE g # L + 1
    <3>1. g \in 1 .. L /\ place[g] = g
      BY <1>1, <1>8, <2>3
    <3> QED BY <2>1, <3>1
  <2> QED BY <2>2, <2>3
<1>10. ASSUME NEW f \in 1 .. Len(closed) PROVE queues[place[f]] = closed[f]
  <2>1. f \in 1 .. L \/ f = L + 1
    BY <1>1, <1>3
  <2>2. CASE f \in 1 .. L
    <3>1. f \in 1 .. last
      BY <1>1, <2>2
    <3> QED BY <1>3, <1>6, <1>8, <2>2, <3>1
  <2>3. CASE f = L + 1
    BY <1>3, <1>6, <1>8, <2>3
  <2> QED BY <2>1, <2>2, <2>3
<1>11. ASSUME NEW k \in 1 .. Len(queues)
       PROVE  queues[k] = <<>> \/ \E f \in 1 .. Len(closed) : k = place[f]
  <2>1. k \in 1 .. L \/ k \in L + 1 .. last \/ k = last + 1
    BY <1>1, <1>6
  <2>2. CASE k \in 1 .. L
    <3>1. k \in 1 .. Len(closed) /\ k = place[k]
      BY <1>1, <1>3, <1>8, <2>2
    <3> QED BY <3>1
  <2>3. CASE k \in L + 1 .. last
    <3>1. k \in 1 .. last
      BY <1>1, <2>3
    <3> QED BY <1>4, <1>6, <2>3, <3>1
  <2>4. CASE k = last + 1
    <3>1. L + 1 \in 1 .. Len(closed)
      BY <1>1, <1>3
    <3> QED BY <1>8, <2>4, <3>1
  <2> QED BY <2>1, <2>2, <2>3, <2>4
<1>12. InOrder(queues, S)
  BY <1>3, <1>6, <1>7, <1>8, <1>9, <1>10, <1>11, InOrderPlaced
<1>13. /\ DOMAIN queues = 1 .. Len(queues)
       /\ \A f \in 1 .. Len(queues) : DOMAIN queues[f] = 1 .. Len(queues[f])
  <2>1. \A f \in 1 .. Len(queues) : queues[f] \in Seq(Nat)
    BY <1>6, SeqElement
  <2> QED BY <1>6, <2>1
<1>14. UNION {ToSet(queues[f]) : f \in DOMAIN queues} = S
  <2>1. \A x : x \in UNION {ToSet(queues[f]) : f \in DOMAIN queues}
               <=> \E f \in 1 .. Len(queues) : \E i \in 1 .. Len(queues[f]) : queues[f][i] = x
    BY <1>13 DEF ToSet
  <2>2. \A x : x \in S
               <=> \E f \in 1 .. Len(queues) : \E i \in 1 .. Len(queues[f]) : queues[f][i] = x
    BY <1>12 DEF InOrder
  <2> QED BY <2>1, <2>2
<1>15. \A f, g \in DOMAIN queues : \A i \in DOMAIN queues[f], j \in DOMAIN queues[g] :
         f < g \/ (f = g /\ i < j) => queues[f][i] < queues[g][j]
  <2>1. \A f, g \in 1 .. Len(queues) :
          \A i \in 1 .. Len(queues[f]), j \in 1 .. Len(queues[g]) :
            f < g \/ (f = g /\ i < j) => queues[f][i] < queues[g][j]
    BY <1>12 DEF InOrder
  <2> SUFFICES ASSUME NEW f \in DOMAIN queues, NEW g \in DOMAIN queues,
                      NEW i \in DOMAIN queues[f], NEW j \in DOMAIN queues[g],
                      f < g \/ (f = g /\ i < j)
               PROVE  queues[f][i] < queues[g][j]
    OBVIOUS
  <2>2. /\ f \in 1 .. Len(queues) /\ g \in 1 .. Len(queues)
        /\ i \in 1 .. Len(queues[f]) /\ j \in 1 .. Len(queues[g])
    BY <1>13
  <2> QED BY <2>1, <2>2
<1> QED BY <1>14, <1>15 DEF queues, S, last

\* A player's commands are executed once each and in the order given, except
\* those given behind the trailer of a queue that is broadcast again: for any
\* number of them, in any frames.
THEOREM CommandsStayInOrder ==
  ASSUME alternating_send_rate = 1
  PROVE  Spec => []CommandsInOrder
<1>1. Init => CommandsInv
  BY InitCommandsInv
<1>2. (LInv /\ DInv) /\ CommandsInv /\ [Next]_vars => CommandsInv'
  BY NextCommandsInv DEF DInv
<1>3. (LInv /\ DInv) /\ CommandsInv => CommandsInOrder
  BY CommandsInvOrders DEF DInv
<1> QED BY <1>1, <1>2, <1>3, Invariants, PTL DEF Spec
=============================================================================
