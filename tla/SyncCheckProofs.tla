-------------------------- MODULE SyncCheckProofs --------------------------
(***************************************************************************)
(* Proofs about the checks of synchronisation, for any players, delay and  *)
(* frames: what is compared is of the same frame, an error is signalled    *)
(* only when two worlds did differ, a request to save comes in time, and   *)
(* peers who lost nobody save the game in the same frames.                 *)
(***************************************************************************)
EXTENDS SyncCheck, FoldProofs, SequenceTheorems

-----------------------------------------------------------------------------
(* Types *)

Events == (Peers \X Nat) \cup ({0} \X Nat \X Peers)
Records == [frame : Nat, world : SUBSET Events]
Messages ==
  [id : {"MSG_TELL_RANDOM_SEED"}, nation : Peers, record : Records]
    \cup [id : {"MSG_COMPARE_CRC", "MSG_COMPARE_NATION"}, record : Records]
    \cup [id : {"MSG_REQUEST_SAVE"}, frame : Nat]
    \cup [id : {"MSG_PLAYER_QUIT"}, nation : Peers]
Queues == Seq(Messages)
Levels == {SyncTestLevel, SeedError, CrcError}
Comparisons == {"seed", "crc", "objects"} \X Nat \X Nat

\* The part of a peer's state that orders change
States == [level : Levels, lastNation : Nat, lastRemoteSeed : Records, crc : Records,
           save_flag : BOOLEAN, save_frame : Nat, compared : SUBSET Comparisons, reply : Queues]

IsSeed(m) == m.id = "MSG_TELL_RANDOM_SEED"
IsCrc(m) == m.id = "MSG_COMPARE_CRC"
IsObjects(m) == m.id = "MSG_COMPARE_NATION"
IsSave(m) == m.id = "MSG_REQUEST_SAVE"

\* What an order carries, by its kind.
LEMMA MessageKinds ==
  ASSUME NEW m \in Messages
  PROVE  /\ IsSeed(m) => m.nation \in Peers /\ m.record \in Records
         /\ IsCrc(m) \/ IsObjects(m) => m.record \in Records
         /\ IsSave(m) => m.frame \in Nat
         /\ IsSeed(m) \/ IsCrc(m) \/ IsObjects(m) \/ IsSave(m) \/ m.id = "MSG_PLAYER_QUIT"
BY DEF Messages, IsSeed, IsCrc, IsObjects, IsSave

\* Nations are numbers, none larger than the one a seed is first compared with.
LEMMA PeersAreNumbers ==
  /\ IsFiniteSet(Peers) /\ SHRT_MAX \in Nat
  /\ \A n \in Peers : n \in Nat /\ 1 <= n /\ n <= SHRT_MAX
<1>1. SHRT_MAX \in Nat
  BY DEF SHRT_MAX
<1>2. \A n \in Peers : n \in Nat /\ 1 <= n /\ n <= SHRT_MAX
  BY <1>1, SyncAssumption
<1>3. IsFiniteSet(Peers)
  <2>1. IsFiniteSet(1 .. SHRT_MAX)
    BY <1>1, FS_Interval
  <2> QED BY <2>1, SyncAssumption, FS_Subset
<1> QED BY <1>1, <1>2, <1>3

\* The level is one of those the host sets, or one of the two negative ones of an error.
LEMMA ErrorsAreNegative ==
  /\ SeedError < 0 /\ CrcError < 0 /\ SeedError # CrcError /\ SyncTestLevel \in {1, 2, 3}
  /\ SyncTestLevel >= 0 /\ SyncTestLevel # SeedError /\ SyncTestLevel # CrcError
  /\ \A level \in Levels : level >= 0 <=> level = SyncTestLevel
  /\ Levels \subseteq Int
<1>1. SyncTestLevel \in {1, 2, 3} /\ SyncTestLevel \in Int
  BY SyncAssumption
<1>2. SeedError = -2 /\ CrcError = -3
  BY DEF SeedError, CrcError
<1>3. \A level \in Levels : level = SyncTestLevel \/ level = -2 \/ level = -3
  BY <1>2 DEF Levels
<1>4. \A level \in Levels : level \in Int /\ (level >= 0 <=> level = SyncTestLevel)
  BY <1>1, <1>3
<1>5. SyncTestLevel >= 0
  BY <1>1
<1> QED BY <1>1, <1>2, <1>4, <1>5

-----------------------------------------------------------------------------
(* Orders, one by one *)

\* tell_random_seed keeps the types of the state.
LEMMA SeedTold ==
  ASSUME NEW st \in States, NEW m \in Messages, IsSeed(m)
  PROVE  tell_random_seed(st, m) \in States
<1>1. m.nation \in Peers /\ m.record \in Records /\ m.nation \in Nat
  BY PeersAreNumbers, MessageKinds
<1>2. <<"seed", st.lastRemoteSeed.frame, m.record.frame>> \in Comparisons
  BY <1>1 DEF States, Records, Comparisons
<1> QED BY <1>1, <1>2 DEF tell_random_seed, States, Levels

\* compare_remote_crc keeps the types of the state.
LEMMA CrcCompared ==
  ASSUME NEW st \in States, NEW m \in Messages, IsCrc(m)
  PROVE  compare_remote_crc(st, m) \in States
<1>1. m.record \in Records /\ st.crc \in Records
  BY MessageKinds DEF States
<1>2. <<"crc", st.crc.frame, m.record.frame>> \in Comparisons
  BY <1>1 DEF Records, Comparisons
<1>3. Append(st.reply, CompareObjects(st.crc)) \in Queues /\ st.reply \in Queues
  <2>1. CompareObjects(st.crc) \in Messages
    BY <1>1 DEF CompareObjects, Messages
  <2> QED BY <2>1 DEF States, Queues
<1> QED BY <1>1, <1>2, <1>3 DEF compare_remote_crc, States, Levels

\* Every order keeps the types of the state.
LEMMA ProcessMsgType ==
  ASSUME NEW st \in States, NEW m \in Messages
  PROVE  process_msg(st, m) \in States
<1>1. CASE IsSeed(m)
  BY <1>1, SeedTold DEF process_msg, IsSeed
<1>2. CASE IsCrc(m)
  BY <1>2, CrcCompared DEF process_msg, IsCrc
<1>3. CASE IsObjects(m)
  <2>1. <<"objects", st.crc.frame, m.record.frame>> \in Comparisons
    BY <1>3, MessageKinds DEF States, Records, Comparisons
  <2>2. process_msg(st, m) = compare_remote_object(st, m)
    BY <1>3 DEF process_msg, IsObjects
  <2> QED BY <2>1, <2>2 DEF compare_remote_object, States
<1>4. CASE IsSave(m)
  BY <1>4, MessageKinds DEF process_msg, IsSave, mp_request_save, States
<1>5. CASE m.id = "MSG_PLAYER_QUIT"
  BY <1>5 DEF process_msg
<1> QED BY <1>1, <1>2, <1>3, <1>4, <1>5, MessageKinds

-----------------------------------------------------------------------------
(* Orders, one after the other: what the execution of a queue, and of the   *)
(* queues of several players, has made of the state at each place.          *)

IsQueueRun(h, queue, st) ==
  /\ h \in [0 .. Len(queue) -> States]
  /\ h[0] = st
  /\ \A i \in 1 .. Len(queue) : h[i] = process_msg(h[i - 1], queue[i])

\* Executing a queue goes through one state per order, each by process_msg.
LEMMA QueueRun ==
  ASSUME NEW st \in States, NEW queue \in Queues
  PROVE  \E h : IsQueueRun(h, queue, st) /\ h[Len(queue)] = ExecuteQueue(queue, st)
<1> DEFINE n == Len(queue)
           Places == 1 .. n
           op == [i \in Places |-> [v \in States |-> process_msg(v, queue[i])]]
           pick == [s \in SUBSET Places |-> Max(s)]
           Iterates(g) == g = [s \in SUBSET DOMAIN queue |->
                                IF s = {} THEN st ELSE process_msg(g[s \ {Max(s)}], queue[Max(s)])]
           Walk == CHOOSE g : Iterates(g)
<1>1. n \in Nat /\ DOMAIN queue = Places /\ \A i \in Places : queue[i] \in Messages
  BY LenProperties DEF Queues
<1>2. IsFiniteSet(Places)
  <2> HIDE DEF n
  <2> QED BY <1>1, FS_Interval
<1>3. \A s \in SUBSET Places : s # {} => Max(s) \in s /\ Max(s) \in Places /\ pick[s] = Max(s)
  <2> HIDE DEF n
  <2> QED BY <1>1, LargestOf
<1>4. PICK h \in [SUBSET Places -> States] : \A s \in SUBSET Places :
        h[s] = IF s = {} THEN st ELSE op[pick[s]][h[s \ {pick[s]}]]
  <2>1. op \in [Places -> [States -> States]]
    <3> HIDE DEF Places
    <3> QED BY <1>1, ProcessMsgType
  <2>2. PicksFrom(pick, Places)
    BY <1>3 DEF PicksFrom
  <2>3. \E h \in [SUBSET Places -> States] : IsTable(h, Places, pick, st, op)
    <3> HIDE DEF op, pick, Places, Iterates, Walk
    <3> QED BY <1>2, <2>1, <2>2, FoldTable
  <2> HIDE DEF op, pick, Iterates, Walk
  <2> QED BY <2>3 DEF IsTable
<1>5. Iterates(h)
  <2> DEFINE V(s) == IF s = {} THEN st ELSE process_msg(h[s \ {Max(s)}], queue[Max(s)])
  <2>1. ASSUME NEW s \in SUBSET Places PROVE h[s] = V(s)
    <3>1. CASE s = {}
      BY <1>4, <3>1
    <3>2. CASE s # {}
      <4>1. pick[s] = Max(s) /\ Max(s) \in Places /\ h[s \ {Max(s)}] \in States
        BY <1>3, <3>2
      <4>2. h[s] = op[Max(s)][h[s \ {Max(s)}]]
        BY <1>4, <3>2, <4>1
      <4> HIDE DEF Places
      <4> QED BY <3>2, <4>1, <4>2
    <3> QED BY <3>1, <3>2
  <2>2. h = [s \in SUBSET Places |-> V(s)]
    <3> HIDE DEF V, Places
    <3> QED BY <2>1
  <2> QED BY <1>1, <2>2
<1>6. Iterates(Walk)
  <2> HIDE DEF Iterates
  <2> QED BY <1>5
<1>7. ExecuteQueue(queue, st) = Walk[Places]
  BY <1>1 DEF ExecuteQueue, FoldLeft, MapThenFoldSet, Max
<1>8. /\ Walk[{}] = st
      /\ \A s \in SUBSET Places : s # {} =>
           Walk[s] = process_msg(Walk[s \ {Max(s)}], queue[Max(s)])
  <2> HIDE DEF Walk
  <2> QED BY <1>1, <1>6
<1>9. \A s \in SUBSET Places : Walk[s] \in States
  <2> DEFINE B == {s \in SUBSET Places : Walk[s] \in States}
  <2>1. Completes(B, pick, Places)
    <3>1. {} \in B
      <4> HIDE DEF Walk, Places
      <4> QED BY <1>8
    <3>2. ASSUME NEW s \in SUBSET Places, s # {}, s \ {pick[s]} \in B PROVE s \in B
      <4>1. pick[s] = Max(s) /\ Max(s) \in Places
        BY <1>3, <3>2
      <4>2. Walk[s \ {Max(s)}] \in States /\ queue[Max(s)] \in Messages
        <5> HIDE DEF Walk, Places, pick
        <5> QED BY <1>1, <3>2, <4>1
      <4> HIDE DEF Walk, Places, pick
      <4> QED BY <1>8, <3>2, <4>2, ProcessMsgType
    <3> HIDE DEF B, pick, Places
    <3> QED BY <3>1, <3>2 DEF Completes
  <2>2. PicksFrom(pick, Places)
    BY <1>3 DEF PicksFrom
  <2>3. SUBSET Places \subseteq B
    <3> HIDE DEF B, pick, Places
    <3> QED BY <1>2, <2>1, <2>2, OneByOne
  <2> HIDE DEF Walk, Places
  <2> QED BY <2>3
<1> DEFINE run == [i \in 0 .. n |-> Walk[1 .. i]]
<1>10. \A i \in Places : Max(1 .. i) = i /\ (1 .. i) \ {i} = 1 .. (i - 1) /\ (1 .. i) \in SUBSET Places
  <2> SUFFICES ASSUME NEW i \in Places
               PROVE  /\ Max(1 .. i) = i /\ (1 .. i) \ {i} = 1 .. (i - 1)
                      /\ (1 .. i) \in SUBSET Places
    OBVIOUS
  <2> HIDE DEF n
  <2>1. i \in Nat /\ (1 .. i) \in SUBSET Places /\ i \in 1 .. i
    BY <1>1
  <2>2. Max(1 .. i) \in 1 .. i /\ \A j \in 1 .. i : j <= Max(1 .. i)
    BY <2>1, LargestOf
  <2>3. Max(1 .. i) = i
    BY <2>1, <2>2
  <2> QED BY <2>1, <2>3
<1>11. \A i \in 0 .. n : 1 .. i \in SUBSET Places
  <2> HIDE DEF n
  <2> QED BY <1>1
<1>12. IsQueueRun(run, queue, st)
  <2>1. run \in [0 .. n -> States]
    <3> HIDE DEF Walk, n
    <3> QED BY <1>9, <1>11
  <2>2. run[0] = st
    <3>1. 1 .. 0 = {} /\ 0 \in 0 .. n
      <4> HIDE DEF n
      <4> QED BY <1>1
    <3> HIDE DEF Walk, n
    <3> QED BY <1>8, <3>1
  <2>3. ASSUME NEW i \in 1 .. n PROVE run[i] = process_msg(run[i - 1], queue[i])
    <3>1. i \in 0 .. n /\ i - 1 \in 0 .. n /\ i \in 1 .. i
      <4> HIDE DEF n
      <4> QED BY <1>1
    <3>2. run[i] = Walk[1 .. i] /\ run[i - 1] = Walk[1 .. (i - 1)]
      <4> HIDE DEF Walk, n
      <4> QED BY <3>1
    <3>3. /\ 1 .. i \in SUBSET Places /\ 1 .. i # {}
          /\ Max(1 .. i) = i /\ (1 .. i) \ {i} = 1 .. (i - 1)
      BY <1>10, <3>1
    <3> HIDE DEF Walk, Places, run
    <3> QED BY <1>8, <3>2, <3>3
  <2> HIDE DEF run
  <2> QED BY <2>1, <2>2, <2>3 DEF IsQueueRun
<1>13. run[n] = Walk[Places]
  <2> HIDE DEF Walk
  <2>1. n \in 0 .. n
    BY <1>1
  <2> QED BY <2>1
<1> QED BY <1>7, <1>12, <1>13

\* A queue keeps the types of the state.
LEMMA ExecuteQueueType ==
  ASSUME NEW st \in States, NEW queue \in Queues
  PROVE  ExecuteQueue(queue, st) \in States
<1>1. PICK h : IsQueueRun(h, queue, st) /\ h[Len(queue)] = ExecuteQueue(queue, st)
  BY QueueRun
<1>2. Len(queue) \in 0 .. Len(queue)
  BY LenProperties DEF Queues
<1> QED BY <1>1, <1>2 DEF IsQueueRun

\* What some players have ordered for a frame
OrdersOf(D) == [D -> Queues]
FrameOrders == UNION {OrdersOf(D) : D \in SUBSET Peers}

\* The orders of a frame are one queue per nation.
LEMMA OrdersType ==
  ASSUME NEW orders \in FrameOrders
  PROVE  /\ DOMAIN orders \in SUBSET Peers
         /\ \A n \in DOMAIN orders : orders[n] \in Queues
BY DEF FrameOrders, OrdersOf

\* The queue of the largest number is executed last; every set of nations has one.
LEMMA LastOf ==
  ASSUME NEW S \in SUBSET Peers, S # {}
  PROVE  Max(S) \in S /\ \A n \in S : n <= Max(S)
<1>1. S \in SUBSET (1 .. SHRT_MAX)
  BY SyncAssumption
<1> QED BY <1>1, PeersAreNumbers, LargestOf

IsOrdersRun(h, orders, st) ==
  /\ h \in [SUBSET DOMAIN orders -> States]
  /\ h[{}] = st
  /\ \A S \in SUBSET DOMAIN orders : S # {} =>
       h[S] = ExecuteQueue(orders[Max(S)], h[S \ {Max(S)}])

\* Executing the queues of a frame goes through one state per set of nations done.
LEMMA OrdersRun ==
  ASSUME NEW st \in States, NEW orders \in FrameOrders
  PROVE  \E h : IsOrdersRun(h, orders, st) /\ h[DOMAIN orders] = ExecuteOrders(st, orders)
<1> DEFINE D == DOMAIN orders
           op == [n \in D |-> [v \in States |-> ExecuteQueue(orders[n], v)]]
           pick == [s \in SUBSET D |-> Max(s)]
           Iterates(g) == g = [s \in SUBSET D |->
                                IF s = {} THEN st ELSE ExecuteQueue(orders[Max(s)], g[s \ {Max(s)}])]
           Walk == CHOOSE g : Iterates(g)
<1>1. D \in SUBSET Peers /\ \A n \in D : orders[n] \in Queues
  BY OrdersType
<1>2. IsFiniteSet(D)
  BY <1>1, PeersAreNumbers, FS_Subset
<1>3. \A s \in SUBSET D : s # {} => Max(s) \in s /\ Max(s) \in D /\ pick[s] = Max(s)
  BY <1>1, LastOf
<1>4. PICK h \in [SUBSET D -> States] : \A s \in SUBSET D :
        h[s] = IF s = {} THEN st ELSE op[pick[s]][h[s \ {pick[s]}]]
  <2>1. op \in [D -> [States -> States]]
    <3> HIDE DEF D
    <3> QED BY <1>1, ExecuteQueueType
  <2>2. PicksFrom(pick, D)
    BY <1>3 DEF PicksFrom
  <2>3. \E h \in [SUBSET D -> States] : IsTable(h, D, pick, st, op)
    <3> HIDE DEF op, pick, D, Iterates, Walk
    <3> QED BY <1>2, <2>1, <2>2, FoldTable
  <2> HIDE DEF op, pick, Iterates, Walk
  <2> QED BY <2>3 DEF IsTable
<1>5. Iterates(h)
  <2> DEFINE V(s) == IF s = {} THEN st ELSE ExecuteQueue(orders[Max(s)], h[s \ {Max(s)}])
  <2>1. ASSUME NEW s \in SUBSET D PROVE h[s] = V(s)
    <3>1. CASE s = {}
      BY <1>4, <3>1
    <3>2. CASE s # {}
      <4>1. pick[s] = Max(s) /\ Max(s) \in D /\ h[s \ {Max(s)}] \in States
        BY <1>3, <3>2
      <4>2. h[s] = op[Max(s)][h[s \ {Max(s)}]]
        BY <1>4, <3>2, <4>1
      <4> HIDE DEF D
      <4> QED BY <3>2, <4>1, <4>2
    <3> QED BY <3>1, <3>2
  <2>2. h = [s \in SUBSET D |-> V(s)]
    <3> HIDE DEF V, D
    <3> QED BY <2>1
  <2> QED BY <2>2
<1>6. Iterates(Walk)
  <2> HIDE DEF Iterates
  <2> QED BY <1>5
<1>7. ExecuteOrders(st, orders) = Walk[D]
  BY DEF ExecuteOrders, MapThenFoldSet
<1>8. /\ Walk[{}] = st
      /\ \A s \in SUBSET D : s # {} =>
           Walk[s] = ExecuteQueue(orders[Max(s)], Walk[s \ {Max(s)}])
  <2> HIDE DEF Walk
  <2> QED BY <1>6
<1>9. \A s \in SUBSET D : Walk[s] \in States
  <2> DEFINE B == {s \in SUBSET D : Walk[s] \in States}
  <2>1. Completes(B, pick, D)
    <3>1. {} \in B
      <4> HIDE DEF Walk, D
      <4> QED BY <1>8
    <3>2. ASSUME NEW s \in SUBSET D, s # {}, s \ {pick[s]} \in B PROVE s \in B
      <4>1. pick[s] = Max(s) /\ Max(s) \in D
        BY <1>3, <3>2
      <4>2. Walk[s \ {Max(s)}] \in States /\ orders[Max(s)] \in Queues
        <5> HIDE DEF Walk, D, pick
        <5> QED BY <1>1, <3>2, <4>1
      <4> HIDE DEF Walk, D, pick
      <4> QED BY <1>8, <3>2, <4>2, ExecuteQueueType
    <3> HIDE DEF B, pick, D
    <3> QED BY <3>1, <3>2 DEF Completes
  <2>2. PicksFrom(pick, D)
    BY <1>3 DEF PicksFrom
  <2>3. SUBSET D \subseteq B
    <3> HIDE DEF B, pick, D
    <3> QED BY <1>2, <2>1, <2>2, OneByOne
  <2> HIDE DEF Walk, D
  <2> QED BY <2>3
<1>10. Walk \in [SUBSET D -> States]
  <2>1. Walk = [s \in SUBSET D |-> Walk[s]]
    <3> HIDE DEF Walk
    <3> QED BY <1>6
  <2> HIDE DEF Walk, D
  <2> QED BY <1>9, <2>1
<1>11. IsOrdersRun(Walk, orders, st)
  <2> HIDE DEF Walk
  <2> QED BY <1>8, <1>10 DEF IsOrdersRun
<1> QED BY <1>7, <1>11

\* The orders of a frame keep the types of the state.
LEMMA ExecuteOrdersType ==
  ASSUME NEW st \in States, NEW orders \in FrameOrders
  PROVE  ExecuteOrders(st, orders) \in States
<1>1. PICK h : IsOrdersRun(h, orders, st) /\ h[DOMAIN orders] = ExecuteOrders(st, orders)
  BY OrdersRun
<1> QED BY <1>1 DEF IsOrdersRun

\* What holds before the first player, and after a player when it held before, holds at the end.
LEMMA NationByNation ==
  ASSUME NEW D \in SUBSET Peers, NEW G, {} \in G,
         \A S \in SUBSET D : S # {} /\ S \ {Max(S)} \in G => S \in G
  PROVE  D \in G
<1> DEFINE pick == [S \in SUBSET D |-> Max(S)]
<1>1. IsFiniteSet(D)
  BY PeersAreNumbers, FS_Subset
<1>2. PicksFrom(pick, D) /\ \A S \in SUBSET D : pick[S] = Max(S)
  BY LastOf DEF PicksFrom
<1>3. Completes(G, pick, D)
  <2> HIDE DEF pick
  <2> QED BY <1>2 DEF Completes
<1>4. SUBSET D \subseteq G
  <2> HIDE DEF pick
  <2> QED BY <1>1, <1>2, <1>3, OneByOne
<1> QED BY <1>4

-----------------------------------------------------------------------------
(* What a queue does *)

\* The one seed of a queue is its first message, if the queue begins with a seed at all.
SeedFirst(queue, n, seeded) ==
  /\ seeded => 1 \in DOMAIN queue
  /\ \A i \in DOMAIN queue : IsSeed(queue[i]) <=> seeded /\ i = 1
  /\ seeded => queue[1].nation = n

\* The level from a state to a later one; errors are not taken back.
LevelFrom(st, r) == r.level # st.level => st.level = SyncTestLevel /\ r.level < 0

SeedsAfter(st, r, queue, n, seeded) ==
  IF seeded
  THEN /\ r.lastNation = n
       /\ r.lastRemoteSeed = IF n <= st.lastNation THEN queue[1].record ELSE st.lastRemoteSeed
  ELSE r.lastNation = st.lastNation /\ r.lastRemoteSeed = st.lastRemoteSeed

SeedDiffers(st, queue, n, seeded) ==
  seeded /\ n > st.lastNation /\ st.lastRemoteSeed # queue[1].record

SeedComparison(st, queue, n, seeded, c) ==
  /\ seeded /\ n > st.lastNation
  /\ c = <<"seed", st.lastRemoteSeed.frame, queue[1].record.frame>>

TestedCrc(st, m) == IsCrc(m) /\ st.level = SyncTestLevel /\ TestsCrc(SyncTestLevel)

\* How the first i messages of player n's queue change the state st to r
After(st, r, queue, n, seeded, i) ==
  /\ r.crc = st.crc
  /\ LevelFrom(st, r)
  /\ SeedsAfter(st, r, queue, n, seeded /\ i >= 1)
  /\ \A c \in r.compared : 
       \/ c \in st.compared
       \/ SeedComparison(st, queue, n, seeded, c)
       \/ \E j \in 1 .. i : /\ TestedCrc(st, queue[j])
                            /\ c = <<"crc", st.crc.frame, queue[j].record.frame>>
       \/ \E j \in 1 .. i : /\ IsObjects(queue[j])
                            /\ c = <<"objects", st.crc.frame, queue[j].record.frame>>
  /\ r.level = SeedError /\ st.level # SeedError => SeedDiffers(st, queue, n, seeded)
  /\ r.level = CrcError /\ st.level # CrcError =>
       \E j \in 1 .. i : TestedCrc(st, queue[j]) /\ queue[j].record # st.crc
  /\ r.level = SyncTestLevel =>
       \A j \in 1 .. i : TestedCrc(st, queue[j]) => queue[j].record = st.crc
  /\ \A k \in DOMAIN r.reply :
       \/ \E l \in DOMAIN st.reply : r.reply[k] = st.reply[l]
       \/ r.reply[k] = CompareObjects(st.crc) /\ r.level = CrcError /\ st.level = SyncTestLevel

\* Before its first order a queue has changed nothing.
LEMMA AfterNothing ==
  ASSUME NEW st \in States, NEW queue, NEW n, NEW seeded \in BOOLEAN
  PROVE  After(st, st, queue, n, seeded, 0)
BY ErrorsAreNegative DEF After, LevelFrom, SeedsAfter, States

\* The seed a queue begins with is kept by the first nation, and compared by the others.
LEMMA AfterSeed ==
  ASSUME NEW st \in States, NEW queue \in Queues, NEW n \in Peers, NEW seeded \in BOOLEAN,
         SeedFirst(queue, n, seeded), NEW i \in 1 .. Len(queue), NEW v \in States,
         After(st, v, queue, n, seeded, i - 1), IsSeed(queue[i])
  PROVE  After(st, process_msg(v, queue[i]), queue, n, seeded, i)
<1> DEFINE m == queue[1]
           r == tell_random_seed(v, m)
<1>1. i = 1 /\ seeded /\ m.nation = n /\ m \in Messages /\ n \in Nat
  BY PeersAreNumbers, LenProperties DEF SeedFirst, Queues
<1>2. process_msg(v, queue[i]) = r
  BY <1>1 DEF process_msg, IsSeed
<1>3. /\ v.crc = st.crc /\ v.lastNation = st.lastNation /\ v.lastRemoteSeed = st.lastRemoteSeed
      /\ LevelFrom(st, v)
  BY <1>1 DEF After, SeedsAfter
<1>4. /\ r.crc = v.crc /\ r.lastNation = n /\ r.reply = v.reply
      /\ r.lastRemoteSeed = IF n <= v.lastNation THEN m.record ELSE v.lastRemoteSeed
      /\ r.compared = IF n <= v.lastNation THEN v.compared
                      ELSE v.compared \cup {<<"seed", v.lastRemoteSeed.frame, m.record.frame>>}
      /\ r.level = v.level \/ (v.level >= 0 /\ r.level = SeedError /\ SeedDiffers(v, queue, n, seeded))
  BY <1>1 DEF tell_random_seed, SeedDiffers, States
<1> HIDE DEF r
<1>5. SeedDiffers(v, queue, n, seeded) <=> SeedDiffers(st, queue, n, seeded)
  BY <1>3 DEF SeedDiffers
<1>6. v.level \in Levels /\ v.lastNation \in Nat
  BY DEF States
<1>7. /\ v.level >= 0 => v.level = SyncTestLevel /\ st.level = SyncTestLevel
      /\ r.level = SeedError => r.level < 0
  BY <1>3, <1>6, ErrorsAreNegative DEF LevelFrom
<1>9. LevelFrom(st, r)
  BY <1>3, <1>4, <1>7 DEF LevelFrom
<1>8. SeedsAfter(st, r, queue, n, seeded /\ i >= 1)
  BY <1>1, <1>3, <1>4 DEF SeedsAfter
<1>10. \A c \in r.compared : c \in st.compared \/ SeedComparison(st, queue, n, seeded, c)
  <2>1. \A c \in v.compared : c \in st.compared \/ SeedComparison(st, queue, n, seeded, c)
    <3>1. ~ \E j \in 1 .. (i - 1) : TRUE
      BY <1>1
    <3> QED BY <3>1 DEF After
  <2> QED BY <1>1, <1>3, <1>4, <1>6, <2>1 DEF SeedComparison
<1>11. r.level = SeedError /\ st.level # SeedError => SeedDiffers(st, queue, n, seeded)
  BY <1>1, <1>4, <1>5 DEF After
<1>12. r.level = CrcError => v.level = CrcError
  BY <1>4, ErrorsAreNegative
<1>13. r.level = CrcError => st.level = CrcError
  <2>1. v.level = CrcError => st.level = CrcError
    BY <1>1 DEF After
  <2> QED BY <1>12, <2>1
<1>14. ~TestedCrc(st, queue[1])
  BY <1>1 DEF TestedCrc, IsCrc, IsSeed
<1>15. \A k \in DOMAIN r.reply : \E l \in DOMAIN st.reply : r.reply[k] = st.reply[l]
  <2>1. v.level = CrcError => st.level = CrcError
    BY <1>1 DEF After
  <2>2. \A k \in DOMAIN v.reply :
          \/ \E l \in DOMAIN st.reply : v.reply[k] = st.reply[l]
          \/ v.level = CrcError /\ st.level = SyncTestLevel
    BY DEF After
  <2> QED BY <1>4, <2>1, <2>2, ErrorsAreNegative
<1>16. \A j \in 1 .. i : ~TestedCrc(st, queue[j])
  BY <1>1, <1>14
<1>17. r.crc = st.crc
  BY <1>3, <1>4
<1> HIDE DEF m
<1> QED BY <1>2, <1>8, <1>9, <1>10, <1>11, <1>13, <1>15, <1>16, <1>17 DEF After

\* Seeds come first: whatever follows leaves what is known of them.
LEMMA SeedsStay ==
  ASSUME NEW st \in States, NEW v \in States, NEW r, NEW queue \in Queues, NEW n, NEW seeded,
         SeedFirst(queue, n, seeded), NEW i \in 1 .. Len(queue), ~IsSeed(queue[i]),
         SeedsAfter(st, v, queue, n, seeded /\ i - 1 >= 1),
         r.lastNation = v.lastNation, r.lastRemoteSeed = v.lastRemoteSeed
  PROVE  SeedsAfter(st, r, queue, n, seeded /\ i >= 1)
<1>1. i \in DOMAIN queue /\ i \in Nat /\ i >= 1
  BY LenProperties DEF Queues
<1>2. seeded => i - 1 >= 1
  BY <1>1 DEF SeedFirst
<1> QED BY <1>1, <1>2 DEF SeedsAfter

\* Check numbers are compared with the record, and a difference is an error and sends the record.
LEMMA AfterCrc ==
  ASSUME NEW st \in States, NEW queue \in Queues, NEW n \in Peers, NEW seeded \in BOOLEAN,
         SeedFirst(queue, n, seeded), NEW i \in 1 .. Len(queue), NEW v \in States,
         After(st, v, queue, n, seeded, i - 1), IsCrc(queue[i])
  PROVE  After(st, process_msg(v, queue[i]), queue, n, seeded, i)
<1> DEFINE m == queue[i]
           r == compare_remote_crc(v, m)
           tested == TestsCrc(v.level) /\ v.level >= 0
<1>1. process_msg(v, m) = r /\ m \in Messages /\ ~IsSeed(m) /\ ~IsObjects(m) /\ i \in Nat /\ i >= 1
  BY LenProperties DEF process_msg, IsSeed, IsCrc, IsObjects, Queues
<1>2. /\ r.crc = v.crc /\ r.lastNation = v.lastNation /\ r.lastRemoteSeed = v.lastRemoteSeed
      /\ tested => /\ r.compared = v.compared \cup {<<"crc", v.crc.frame, m.record.frame>>}
                   /\ r.level = IF v.crc = m.record THEN v.level ELSE CrcError
                   /\ r.reply = IF v.crc = m.record THEN v.reply
                                ELSE Append(v.reply, CompareObjects(v.crc))
      /\ ~tested => r = v
  BY DEF compare_remote_crc, States
<1>3. /\ v.crc = st.crc /\ LevelFrom(st, v)
      /\ SeedsAfter(st, v, queue, n, seeded /\ i - 1 >= 1)
  BY DEF After
<1>4. /\ v.level \in Levels /\ v.level \in Int /\ SyncTestLevel >= 0
      /\ v.level >= 0 => v.level = SyncTestLevel /\ st.level = SyncTestLevel
      /\ SeedError < 0 /\ CrcError < 0 /\ SeedError # CrcError /\ SyncTestLevel # CrcError
  <2>1. v.level \in Levels
    BY DEF States
  <2>2. /\ v.level \in Int /\ (v.level >= 0 => v.level = SyncTestLevel)
        /\ v.level # st.level => v.level < 0
    BY <1>3, <2>1, ErrorsAreNegative DEF LevelFrom
  <2>3. v.level >= 0 => v.level = st.level
    BY <2>2
  <2> QED BY <2>1, <2>2, <2>3, ErrorsAreNegative
<1>5. tested <=> v.level = SyncTestLevel /\ TestsCrc(SyncTestLevel)
  BY <1>4
<1>6. tested => TestedCrc(st, m)
  BY <1>4, <1>5 DEF TestedCrc
<1>7. \A j \in 1 .. i : j = i \/ j \in 1 .. (i - 1)
  BY <1>1
<1> HIDE DEF r, tested
<1>8. LevelFrom(st, r)
  BY <1>2, <1>3, <1>4, <1>5 DEF LevelFrom
<1>9. SeedsAfter(st, r, queue, n, seeded /\ i >= 1)
  BY <1>1, <1>2, <1>3, SeedsStay
<1>10. ASSUME NEW c \in r.compared
       PROVE  \/ c \in st.compared
              \/ SeedComparison(st, queue, n, seeded, c)
              \/ \E j \in 1 .. i : /\ TestedCrc(st, queue[j])
                                   /\ c = <<"crc", st.crc.frame, queue[j].record.frame>>
              \/ \E j \in 1 .. i : /\ IsObjects(queue[j])
                                   /\ c = <<"objects", st.crc.frame, queue[j].record.frame>>
  <2>1. CASE c \in v.compared
    <3>1. 1 .. (i - 1) \subseteq 1 .. i
      BY <1>1
    <3> QED BY <2>1, <3>1 DEF After
  <2>2. CASE c \notin v.compared
    <3>1. tested /\ c = <<"crc", st.crc.frame, m.record.frame>>
      BY <1>2, <1>3, <2>2
    <3> QED BY <1>6, <3>1
  <2> QED BY <2>1, <2>2
<1>11. r.level = SeedError => v.level = SeedError
  BY <1>2, <1>4
<1>12. r.level = SeedError /\ st.level # SeedError => SeedDiffers(st, queue, n, seeded)
  BY <1>11 DEF After
<1>13. r.level = CrcError /\ st.level # CrcError =>
         \E j \in 1 .. i : TestedCrc(st, queue[j]) /\ queue[j].record # st.crc
  <2>1. CASE r.level = v.level
    <3>1. 1 .. (i - 1) \subseteq 1 .. i
      BY <1>1
    <3> QED BY <2>1, <3>1 DEF After
  <2>2. CASE r.level # v.level
    <3>1. tested /\ v.crc # m.record
      BY <1>2, <2>2
    <3> QED BY <1>3, <1>6, <3>1
  <2> QED BY <2>1, <2>2
<1>14. r.level = SyncTestLevel =>
         \A j \in 1 .. i : TestedCrc(st, queue[j]) => queue[j].record = st.crc
  <2> SUFFICES ASSUME r.level = SyncTestLevel, NEW j \in 1 .. i, TestedCrc(st, queue[j])
               PROVE  queue[j].record = st.crc
    OBVIOUS
  <2>1. v.level = SyncTestLevel /\ (tested => v.crc = m.record)
    BY <1>2, <1>4
  <2>2. CASE j = i
    BY <1>3, <1>5, <2>1, <2>2 DEF TestedCrc
  <2>3. CASE j \in 1 .. (i - 1)
    BY <2>1, <2>3 DEF After
  <2> QED BY <1>7, <2>2, <2>3
<1>15. ASSUME NEW k \in DOMAIN r.reply
       PROVE  \/ \E l \in DOMAIN st.reply : r.reply[k] = st.reply[l]
              \/ r.reply[k] = CompareObjects(st.crc) /\ r.level = CrcError /\ st.level = SyncTestLevel
  <2>1. CASE r.reply = v.reply /\ r.level = v.level
    BY <2>1 DEF After
  <2>2. CASE ~(r.reply = v.reply /\ r.level = v.level)
    <3>1. /\ tested /\ r.level = CrcError /\ st.level = SyncTestLevel
          /\ r.reply = Append(v.reply, CompareObjects(st.crc))
      BY <1>2, <1>3, <1>4, <1>5, <2>2
    <3>2. \A l \in DOMAIN v.reply : \/ \E o \in DOMAIN st.reply : v.reply[l] = st.reply[o]
                                    \/ v.reply[l] = CompareObjects(st.crc)
      BY DEF After
    <3>3. v.reply \in Queues
      BY DEF States
    <3>4. (k \in DOMAIN v.reply /\ r.reply[k] = v.reply[k]) \/ r.reply[k] = CompareObjects(st.crc)
      BY <3>1, <3>3, AppendProperties DEF Queues
    <3> QED BY <3>1, <3>2, <3>4
  <2> QED BY <2>1, <2>2
<1>16. r.crc = st.crc
  BY <1>2, <1>3
<1> QED BY <1>1, <1>8, <1>9, <1>10, <1>12, <1>13, <1>14, <1>15, <1>16 DEF After

\* Details are compared with the record, and change nothing else.
LEMMA AfterObjects ==
  ASSUME NEW st \in States, NEW queue \in Queues, NEW n \in Peers, NEW seeded \in BOOLEAN,
         SeedFirst(queue, n, seeded), NEW i \in 1 .. Len(queue), NEW v \in States,
         After(st, v, queue, n, seeded, i - 1), ~IsSeed(queue[i]), ~IsCrc(queue[i])
  PROVE  After(st, process_msg(v, queue[i]), queue, n, seeded, i)
<1> DEFINE m == queue[i]
           r == process_msg(v, m)
           more == IF IsObjects(m) THEN {<<"objects", v.crc.frame, m.record.frame>>} ELSE {}
<1>1. m \in Messages /\ i \in Nat /\ i >= 1
  BY LenProperties DEF Queues
<1>2. /\ r.crc = v.crc /\ r.level = v.level /\ r.reply = v.reply
      /\ r.lastNation = v.lastNation /\ r.lastRemoteSeed = v.lastRemoteSeed
      /\ r.compared = v.compared \cup more
  <2>1. CASE IsObjects(m)
    <3>1. r = [v EXCEPT !.compared = v.compared \cup {<<"objects", v.crc.frame, m.record.frame>>}]
      BY <2>1 DEF process_msg, IsObjects, compare_remote_object
    <3> HIDE DEF r
    <3> QED BY <2>1, <3>1 DEF States
  <2>2. CASE IsSave(m)
    <3>1. ~IsObjects(m) /\ r = mp_request_save(v, m)
      BY <2>2 DEF process_msg, IsSave, IsObjects
    <3> HIDE DEF r
    <3> QED BY <3>1 DEF States, mp_request_save
  <2>3. CASE m.id = "MSG_PLAYER_QUIT"
    BY <2>3 DEF process_msg, IsObjects
  <2> QED BY <1>1, <2>1, <2>2, <2>3, MessageKinds
<1>3. /\ v.crc = st.crc /\ LevelFrom(st, v)
      /\ SeedsAfter(st, v, queue, n, seeded /\ i - 1 >= 1)
  BY DEF After
<1>4. /\ \A j \in 1 .. i : j = i \/ j \in 1 .. (i - 1)
      /\ 1 .. (i - 1) \subseteq 1 .. i /\ i \in 1 .. i
  BY <1>1
<1>5. ~TestedCrc(st, m)
  BY DEF TestedCrc
<1> HIDE DEF r
<1>6. ASSUME NEW c \in r.compared
      PROVE  \/ c \in st.compared
             \/ SeedComparison(st, queue, n, seeded, c)
             \/ \E j \in 1 .. i : /\ TestedCrc(st, queue[j])
                                  /\ c = <<"crc", st.crc.frame, queue[j].record.frame>>
             \/ \E j \in 1 .. i : /\ IsObjects(queue[j])
                                  /\ c = <<"objects", st.crc.frame, queue[j].record.frame>>
  <2>1. CASE c \in v.compared
    BY <1>4, <2>1 DEF After
  <2>2. CASE c \notin v.compared
    <3>1. IsObjects(m) /\ c = <<"objects", st.crc.frame, m.record.frame>>
      BY <1>2, <1>3, <2>2
    <3> QED BY <1>4, <3>1
  <2> QED BY <2>1, <2>2
<1>7. SeedsAfter(st, r, queue, n, seeded /\ i >= 1)
  BY <1>2, <1>3, SeedsStay
<1>8. LevelFrom(st, r) /\ r.crc = st.crc
  BY <1>2, <1>3 DEF LevelFrom
<1>9. r.level = CrcError /\ st.level # CrcError =>
         \E j \in 1 .. i : TestedCrc(st, queue[j]) /\ queue[j].record # st.crc
  BY <1>2, <1>4 DEF After
<1>10. r.level = SyncTestLevel =>
         \A j \in 1 .. i : TestedCrc(st, queue[j]) => queue[j].record = st.crc
  BY <1>2, <1>4, <1>5 DEF After
<1>11. /\ r.level = SeedError /\ st.level # SeedError => SeedDiffers(st, queue, n, seeded)
       /\ \A k \in DOMAIN r.reply :
            \/ \E l \in DOMAIN st.reply : r.reply[k] = st.reply[l]
            \/ r.reply[k] = CompareObjects(st.crc) /\ r.level = CrcError /\ st.level = SyncTestLevel
  BY <1>2 DEF After
<1> QED BY <1>6, <1>7, <1>8, <1>9, <1>10, <1>11 DEF After, r

\* What a whole queue does to the level, the last seed, the comparisons and the replies.
LEMMA QueueEffect ==
  ASSUME NEW st \in States, NEW queue \in Queues, NEW n \in Peers, NEW seeded \in BOOLEAN,
         SeedFirst(queue, n, seeded)
  PROVE  After(st, ExecuteQueue(queue, st), queue, n, seeded, Len(queue))
<1>1. PICK h : IsQueueRun(h, queue, st) /\ h[Len(queue)] = ExecuteQueue(queue, st)
  BY QueueRun
<1> DEFINE G == {i \in 0 .. Len(queue) : After(st, h[i], queue, n, seeded, i)}
<1>2. Len(queue) \in Nat
  BY LenProperties DEF Queues
<1>3. 0 \in G
  BY <1>1, <1>2, AfterNothing DEF IsQueueRun
<1>4. ASSUME NEW i \in 1 .. Len(queue), i - 1 \in G PROVE i \in G
  <2>1. h[i - 1] \in States /\ h[i] = process_msg(h[i - 1], queue[i]) /\ i \in 0 .. Len(queue)
    BY <1>1, <1>2 DEF IsQueueRun
  <2>2. After(st, h[i], queue, n, seeded, i)
    BY <1>4, <2>1, AfterSeed, AfterCrc, AfterObjects
  <2> QED BY <2>1, <2>2
<1>5. Len(queue) \in G
  <2>1. \A i \in 0 .. Len(queue) : i \in G
    <3> HIDE DEF G
    <3> QED BY <1>2, <1>3, <1>4, StepByStep
  <2> HIDE DEF G
  <2> QED BY <1>2, <2>1
<1> QED BY <1>1, <1>5

-----------------------------------------------------------------------------
(* What the orders of a frame do *)

FramedSeeds(st, r, orders, S, seeded) ==
  IF seeded /\ S # {}
  THEN r.lastNation = Max(S) /\ \E n \in S : r.lastRemoteSeed = orders[n][1].record
  ELSE r.lastNation = st.lastNation /\ r.lastRemoteSeed = st.lastRemoteSeed

FramedComparison(st, orders, S, seeded, c) ==
  \/ c \in st.compared
  \/ seeded /\ \E m, n \in S : c = <<"seed", orders[m][1].record.frame, orders[n][1].record.frame>>
  \/ \E n \in S : \E j \in DOMAIN orders[n] :
       /\ TestedCrc(st, orders[n][j])
       /\ c = <<"crc", st.crc.frame, orders[n][j].record.frame>>
  \/ \E n \in S : \E j \in DOMAIN orders[n] :
       /\ IsObjects(orders[n][j])
       /\ c = <<"objects", st.crc.frame, orders[n][j].record.frame>>

SeedsDiffer(orders, S, seeded) ==
  seeded /\ \E m, n \in S : m # n /\ orders[m][1].record # orders[n][1].record

CrcDiffers(st, orders, S) ==
  \E n \in S : \E j \in DOMAIN orders[n] :
    TestedCrc(st, orders[n][j]) /\ orders[n][j].record # st.crc

\* How the queues of the players S change the state st to r
AfterAll(st, r, orders, S, seeded) ==
  /\ r.crc = st.crc
  /\ LevelFrom(st, r)
  /\ FramedSeeds(st, r, orders, S, seeded)
  /\ \A c \in r.compared : FramedComparison(st, orders, S, seeded, c)
  /\ r.level = SeedError /\ st.level # SeedError => SeedsDiffer(orders, S, seeded)
  /\ r.level = CrcError /\ st.level # CrcError => CrcDiffers(st, orders, S)
  /\ r.level = SyncTestLevel => ~CrcDiffers(st, orders, S)
  /\ \A k \in DOMAIN r.reply :
       \/ \E l \in DOMAIN st.reply : r.reply[k] = st.reply[l]
       \/ r.reply[k] = CompareObjects(st.crc) /\ r.level = CrcError /\ st.level = SyncTestLevel

\* No queue executed: nothing has changed.
LEMMA AfterAllOfNone ==
  ASSUME NEW st \in States, NEW orders, NEW seeded
  PROVE  AfterAll(st, st, orders, {}, seeded)
BY ErrorsAreNegative DEF AfterAll, LevelFrom, FramedSeeds, FramedComparison, CrcDiffers, States

\* The queue of the next nation compares its seed with that of the first.
LEMMA AfterOneMore ==
  ASSUME NEW st \in States, NEW orders \in FrameOrders, NEW seeded \in BOOLEAN,
         \A n \in DOMAIN orders : SeedFirst(orders[n], n, seeded) /\ n <= st.lastNation,
         NEW S \in SUBSET DOMAIN orders, S # {},
         NEW v \in States, AfterAll(st, v, orders, S \ {Max(S)}, seeded)
  PROVE  AfterAll(st, ExecuteQueue(orders[Max(S)], v), orders, S, seeded)
<1> DEFINE x == Max(S)
           T == S \ {x}
           queue == orders[x]
           r == ExecuteQueue(queue, v)
<1>1. /\ x \in S /\ x \in DOMAIN orders /\ x \in Peers /\ x \in Nat /\ queue \in Queues
      /\ \A n \in S : n \in Nat /\ n <= x
  BY LastOf, OrdersType, PeersAreNumbers
<1>2. SeedFirst(queue, x, seeded) /\ x <= st.lastNation
  BY <1>1
<1>3. After(v, r, queue, x, seeded, Len(queue)) /\ DOMAIN queue = 1 .. Len(queue)
  BY <1>1, <1>2, QueueEffect, LenProperties DEF Queues
<1>4. /\ v.crc = st.crc /\ LevelFrom(st, v) /\ r.crc = v.crc /\ LevelFrom(v, r)
      /\ FramedSeeds(st, v, orders, T, seeded)
      /\ SeedsAfter(v, r, queue, x, seeded /\ Len(queue) >= 1)
  BY <1>3 DEF AfterAll, After
<1>5. r \in States
  BY <1>1, ExecuteQueueType
<1> HIDE DEF r
<1>6. /\ LevelFrom(st, r)
      /\ v.level = SyncTestLevel => st.level = SyncTestLevel
      /\ r.level = SyncTestLevel => v.level = SyncTestLevel
  <2>1. v.level \in Levels /\ r.level \in Levels /\ st.level \in Levels
    BY <1>5 DEF States
  <2>2. \A level \in Levels : level < 0 => level # SyncTestLevel
    BY ErrorsAreNegative
  <2> QED BY <1>4, <2>1, <2>2 DEF LevelFrom
<1>7. seeded => 1 \in DOMAIN queue /\ Len(queue) >= 1
  BY <1>2, <1>3, LenProperties DEF SeedFirst, Queues
<1>8. /\ FramedSeeds(st, r, orders, S, seeded)
      /\ \A c : SeedComparison(v, queue, x, seeded, c) =>
           seeded /\ \E m \in S : c = <<"seed", orders[m][1].record.frame, orders[x][1].record.frame>>
      /\ SeedDiffers(v, queue, x, seeded) => SeedsDiffer(orders, S, seeded)
  <2>1. CASE ~seeded
    BY <1>4, <2>1 DEF FramedSeeds, SeedsAfter, SeedComparison, SeedDiffers
  <2>2. CASE seeded /\ T = {}
    <3>1. v.lastNation = st.lastNation /\ x <= v.lastNation
      BY <1>2, <1>4, <2>2 DEF FramedSeeds
    <3>2. ~(x > v.lastNation)
      <4>1. v.lastNation \in Nat
        BY DEF States
      <4> QED BY <1>1, <3>1, <4>1
    <3>3. r.lastNation = x /\ r.lastRemoteSeed = queue[1].record
      BY <1>4, <1>7, <2>2, <3>1 DEF SeedsAfter
    <3> QED BY <1>1, <2>2, <3>2, <3>3 DEF FramedSeeds, SeedComparison, SeedDiffers
  <2>3. CASE seeded /\ T # {}
    <3>1. PICK m \in T : v.lastRemoteSeed = orders[m][1].record
      BY <1>4, <2>3 DEF FramedSeeds
    <3>2. v.lastNation = Max(T) /\ Max(T) \in T
      <4>1. T \in SUBSET Peers
        BY OrdersType
      <4> QED BY <1>4, <2>3, <4>1, LastOf DEF FramedSeeds
    <3>3. ~(x <= v.lastNation) /\ m # x /\ m \in S
      BY <1>1, <3>2
    <3>4. r.lastNation = x /\ r.lastRemoteSeed = orders[m][1].record
      BY <1>4, <1>7, <2>3, <3>1, <3>3 DEF SeedsAfter
    <3> HIDE DEF x
    <3> QED BY <1>1, <2>3, <3>1, <3>3, <3>4
            DEF FramedSeeds, SeedComparison, SeedDiffers, SeedsDiffer, x
  <2> QED BY <2>1, <2>2, <2>3
<1>9. \A m : TestedCrc(v, m) => TestedCrc(st, m)
  BY <1>6 DEF TestedCrc
<1>10. r.level = SyncTestLevel => \A m : TestedCrc(st, m) => TestedCrc(v, m)
  BY <1>6 DEF TestedCrc
<1>11. T \subseteq S /\ \A n \in S : n = x \/ n \in T
  OBVIOUS
<1> HIDE DEF x, T
<1>12. ASSUME NEW c \in r.compared
       PROVE  FramedComparison(st, orders, S, seeded, c)
  <2>1. CASE c \in v.compared
    <3>1. FramedComparison(st, orders, T, seeded, c)
      BY <2>1 DEF AfterAll, T, x
    <3> QED BY <1>11, <3>1 DEF FramedComparison
  <2>2. CASE SeedComparison(v, queue, x, seeded, c)
    BY <1>1, <1>8, <2>2 DEF FramedComparison
  <2>3. CASE \E j \in 1 .. Len(queue) : /\ TestedCrc(v, queue[j])
                                        /\ c = <<"crc", v.crc.frame, queue[j].record.frame>>
    BY <1>1, <1>3, <1>4, <1>9, <2>3 DEF FramedComparison
  <2>4. CASE \E j \in 1 .. Len(queue) : /\ IsObjects(queue[j])
                                        /\ c = <<"objects", v.crc.frame, queue[j].record.frame>>
    BY <1>1, <1>3, <1>4, <2>4 DEF FramedComparison
  <2> QED BY <1>3, <2>1, <2>2, <2>3, <2>4 DEF After
<1>13. r.level = SeedError /\ st.level # SeedError => SeedsDiffer(orders, S, seeded)
  <2>1. CASE v.level = SeedError
    <3>1. st.level # SeedError => SeedsDiffer(orders, T, seeded)
      BY <2>1 DEF AfterAll, T, x
    <3> QED BY <1>11, <3>1 DEF SeedsDiffer
  <2>2. CASE v.level # SeedError
    BY <1>3, <1>8, <2>2 DEF After
  <2> QED BY <2>1, <2>2
<1>14. r.level = CrcError /\ st.level # CrcError => CrcDiffers(st, orders, S)
  <2>1. CASE v.level = CrcError
    <3>1. st.level # CrcError => CrcDiffers(st, orders, T)
      BY <2>1 DEF AfterAll, T, x
    <3> QED BY <1>11, <3>1 DEF CrcDiffers
  <2>2. CASE v.level # CrcError
    <3>1. r.level = CrcError =>
            \E j \in 1 .. Len(queue) : TestedCrc(v, queue[j]) /\ queue[j].record # v.crc
      BY <1>3, <2>2 DEF After
    <3> QED BY <1>1, <1>3, <1>4, <1>9, <3>1 DEF CrcDiffers
  <2> QED BY <2>1, <2>2
<1>15. r.level = SyncTestLevel => ~CrcDiffers(st, orders, S)
  <2> SUFFICES ASSUME r.level = SyncTestLevel, NEW n \in S, NEW j \in DOMAIN orders[n],
                      TestedCrc(st, orders[n][j])
               PROVE  orders[n][j].record = st.crc
    BY DEF CrcDiffers
  <2>1. CASE n = x
    <3>1. \A k \in 1 .. Len(queue) : TestedCrc(v, queue[k]) => queue[k].record = v.crc
      BY <1>3 DEF After
    <3> QED BY <1>3, <1>4, <1>10, <2>1, <3>1
  <2>2. CASE n \in T
    <3>1. ~CrcDiffers(st, orders, T)
      BY <1>6 DEF AfterAll, T, x
    <3> QED BY <2>2, <3>1 DEF CrcDiffers
  <2> QED BY <1>11, <2>1, <2>2
<1>16. ASSUME NEW k \in DOMAIN r.reply
       PROVE  \/ \E l \in DOMAIN st.reply : r.reply[k] = st.reply[l]
              \/ r.reply[k] = CompareObjects(st.crc) /\ r.level = CrcError /\ st.level = SyncTestLevel
  <2>1. CASE \E l \in DOMAIN v.reply : r.reply[k] = v.reply[l]
    <3>1. PICK l \in DOMAIN v.reply : r.reply[k] = v.reply[l]
      BY <2>1
    <3>2. \/ \E o \in DOMAIN st.reply : v.reply[l] = st.reply[o]
          \/ v.reply[l] = CompareObjects(st.crc) /\ v.level = CrcError /\ st.level = SyncTestLevel
      BY DEF AfterAll
    <3>3. v.level = CrcError => r.level = CrcError
      BY <1>4, ErrorsAreNegative DEF LevelFrom
    <3> QED BY <3>1, <3>2, <3>3
  <2>2. CASE r.reply[k] = CompareObjects(v.crc) /\ r.level = CrcError /\ v.level = SyncTestLevel
    BY <1>4, <1>6, <2>2
  <2> QED BY <1>3, <2>1, <2>2 DEF After
<1> QED BY <1>4, <1>6, <1>8, <1>12, <1>13, <1>14, <1>15, <1>16 DEF AfterAll, r, x

\* What the orders of a frame do to the level, the last seed, the comparisons and the replies.
LEMMA OrdersEffect ==
  ASSUME NEW st \in States, NEW orders \in FrameOrders, NEW seeded \in BOOLEAN,
         \A n \in DOMAIN orders : SeedFirst(orders[n], n, seeded) /\ n <= st.lastNation
  PROVE  AfterAll(st, ExecuteOrders(st, orders), orders, DOMAIN orders, seeded)
<1> DEFINE D == DOMAIN orders
<1>1. PICK h : IsOrdersRun(h, orders, st) /\ h[D] = ExecuteOrders(st, orders)
  BY OrdersRun
<1> DEFINE G == {S \in SUBSET D : AfterAll(st, h[S], orders, S, seeded)}
<1>2. {} \in G
  BY <1>1, AfterAllOfNone DEF IsOrdersRun
<1>3. ASSUME NEW S \in SUBSET D, S # {}, S \ {Max(S)} \in G PROVE S \in G
  <2>1. h[S \ {Max(S)}] \in States /\ h[S] = ExecuteQueue(orders[Max(S)], h[S \ {Max(S)}])
    BY <1>1, <1>3 DEF IsOrdersRun
  <2>2. AfterAll(st, h[S], orders, S, seeded)
    BY <1>3, <2>1, AfterOneMore
  <2> QED BY <2>2
<1>4. D \in G
  <2> HIDE DEF G
  <2>1. D \in SUBSET Peers
    BY OrdersType
  <2> HIDE DEF D
  <2> QED BY <1>2, <1>3, <2>1, NationByNation
<1> QED BY <1>1, <1>4

-----------------------------------------------------------------------------
(* Requests to save *)

SaveAlike(v, w) == v.save_flag = w.save_flag /\ v.save_frame = w.save_frame

\* A request is taken up unless another one is pending.
SaveHeard(r, v, m) ==
  IF IsSave(m)
  THEN r.save_flag /\ r.save_frame = IF v.save_flag THEN v.save_frame ELSE m.frame
  ELSE SaveAlike(r, v)

\* An order other than a request leaves the save alone; a request is heard unless there is one.
LEMMA SavePart ==
  ASSUME NEW v \in States, NEW m \in Messages
  PROVE  SaveHeard(process_msg(v, m), v, m)
<1> DEFINE r == process_msg(v, m)
<1>1. v.save_flag \in BOOLEAN
  BY DEF States
<1>2. CASE IsSave(m)
  <2>1. r = IF v.save_flag THEN v ELSE [v EXCEPT !.save_flag = TRUE, !.save_frame = m.frame]
    BY <1>2 DEF process_msg, IsSave, mp_request_save
  <2> HIDE DEF r
  <2>2. CASE v.save_flag
    BY <1>2, <2>1, <2>2 DEF SaveHeard, r
  <2>3. CASE ~v.save_flag
    <3>1. r = [v EXCEPT !.save_flag = TRUE, !.save_frame = m.frame]
      BY <2>1, <2>3
    <3>2. r.save_flag /\ r.save_frame = m.frame
      BY <3>1 DEF States
    <3> QED BY <1>2, <2>3, <3>2 DEF SaveHeard, r
  <2> QED BY <2>2, <2>3
<1>3. CASE ~IsSave(m)
  <2>1. r.save_flag = v.save_flag /\ r.save_frame = v.save_frame
    <3>1. CASE IsSeed(m)
      <4>1. r = tell_random_seed(v, m)
        BY <3>1 DEF process_msg, IsSeed
      <4> QED BY <4>1 DEF tell_random_seed, States
    <3>2. CASE IsCrc(m)
      <4>1. r = compare_remote_crc(v, m)
        BY <3>2 DEF process_msg, IsCrc
      <4> HIDE DEF r
      <4> QED BY <4>1 DEF compare_remote_crc, States
    <3>3. CASE IsObjects(m)
      <4>1. r = compare_remote_object(v, m)
        BY <3>3 DEF process_msg, IsObjects
      <4> QED BY <4>1 DEF compare_remote_object, States
    <3>4. CASE m.id = "MSG_PLAYER_QUIT"
      BY <3>4 DEF process_msg
    <3> QED BY <1>3, <3>1, <3>2, <3>3, <3>4, MessageKinds
  <2> HIDE DEF r
  <2> QED BY <1>3, <2>1 DEF SaveHeard, SaveAlike, r
<1> QED BY <1>2, <1>3

\* A request that is pending is for a frame after K.
InTime(v, K) == v.save_flag => v.save_frame > K
SavesAfter(queue, K) == \A i \in DOMAIN queue : IsSave(queue[i]) => queue[i].frame > K

\* A queue whose requests are in time leaves the save in time.
LEMMA QueueInTime ==
  ASSUME NEW v \in States, NEW queue \in Queues, NEW K \in Nat, InTime(v, K), SavesAfter(queue, K)
  PROVE  InTime(ExecuteQueue(queue, v), K)
<1>1. PICK h : IsQueueRun(h, queue, v) /\ h[Len(queue)] = ExecuteQueue(queue, v)
  BY QueueRun
<1>2. Len(queue) \in Nat /\ \A i \in 1 .. Len(queue) : i \in DOMAIN queue /\ queue[i] \in Messages
  BY LenProperties DEF Queues
<1> DEFINE G == {i \in 0 .. Len(queue) : InTime(h[i], K)}
<1>3. 0 \in G
  BY <1>1, <1>2 DEF IsQueueRun
<1>4. ASSUME NEW i \in 1 .. Len(queue), i - 1 \in G PROVE i \in G
  <2>1. h[i - 1] \in States /\ h[i] = process_msg(h[i - 1], queue[i]) /\ i \in 0 .. Len(queue)
    BY <1>1, <1>2, <1>4 DEF IsQueueRun
  <2>2. IsSave(queue[i]) => queue[i].frame > K
    BY <1>2 DEF SavesAfter
  <2>3. SaveHeard(h[i], h[i - 1], queue[i])
    BY <1>2, <2>1, SavePart
  <2>4. InTime(h[i], K)
    BY <1>4, <2>2, <2>3 DEF InTime, SaveHeard, SaveAlike
  <2> QED BY <2>1, <2>4
<1>5. \A i \in 0 .. Len(queue) : i \in G
  <2> HIDE DEF G
  <2> QED BY <1>2, <1>3, <1>4, StepByStep
<1> QED BY <1>1, <1>2, <1>5

\* So do the orders of a frame.
LEMMA OrdersInTime ==
  ASSUME NEW st \in States, NEW orders \in FrameOrders, NEW K \in Nat, InTime(st, K),
         \A n \in DOMAIN orders : SavesAfter(orders[n], K)
  PROVE  InTime(ExecuteOrders(st, orders), K)
<1> DEFINE D == DOMAIN orders
<1>1. PICK h : IsOrdersRun(h, orders, st) /\ h[D] = ExecuteOrders(st, orders)
  BY OrdersRun
<1>2. D \in SUBSET Peers /\ \A n \in D : orders[n] \in Queues
  BY OrdersType
<1> DEFINE G == {S \in SUBSET D : InTime(h[S], K)}
<1>3. {} \in G
  BY <1>1 DEF IsOrdersRun
<1>4. ASSUME NEW S \in SUBSET D, S # {}, S \ {Max(S)} \in G PROVE S \in G
  <2>1. h[S \ {Max(S)}] \in States /\ h[S] = ExecuteQueue(orders[Max(S)], h[S \ {Max(S)}])
    BY <1>1, <1>4 DEF IsOrdersRun
  <2>2. Max(S) \in D
    BY <1>2, <1>4, LastOf
  <2>3. InTime(h[S], K)
    BY <1>2, <1>4, <2>1, <2>2, QueueInTime
  <2> QED BY <2>3
<1>5. D \in G
  <2> HIDE DEF G, D
  <2> QED BY <1>2, <1>3, <1>4, NationByNation
<1> QED BY <1>1, <1>5

\* What becomes of the requests depends on the requests only.
LEMMA QueueAlike ==
  ASSUME NEW v \in States, NEW w \in States, NEW queue \in Queues, SaveAlike(v, w)
  PROVE  SaveAlike(ExecuteQueue(queue, v), ExecuteQueue(queue, w))
<1>1. PICK h : IsQueueRun(h, queue, v) /\ h[Len(queue)] = ExecuteQueue(queue, v)
  BY QueueRun
<1>2. PICK g : IsQueueRun(g, queue, w) /\ g[Len(queue)] = ExecuteQueue(queue, w)
  BY QueueRun
<1>3. Len(queue) \in Nat /\ \A i \in 1 .. Len(queue) : queue[i] \in Messages
  BY LenProperties DEF Queues
<1> DEFINE G == {i \in 0 .. Len(queue) : SaveAlike(h[i], g[i])}
<1>4. 0 \in G
  BY <1>1, <1>2, <1>3 DEF IsQueueRun
<1>5. ASSUME NEW i \in 1 .. Len(queue), i - 1 \in G PROVE i \in G
  <2>1. /\ h[i - 1] \in States /\ h[i] = process_msg(h[i - 1], queue[i]) /\ i \in 0 .. Len(queue)
        /\ g[i - 1] \in States /\ g[i] = process_msg(g[i - 1], queue[i])
    BY <1>1, <1>2, <1>3, <1>5 DEF IsQueueRun
  <2>2. SaveAlike(h[i], g[i])
    <3> DEFINE m == queue[i]
               a == h[i - 1]
               b == g[i - 1]
               c == process_msg(a, m)
               d == process_msg(b, m)
    <3>1. SaveHeard(c, a, m) /\ SaveHeard(d, b, m)
      BY <1>3, <2>1, SavePart
    <3>3. SaveAlike(a, b) /\ a.save_flag \in BOOLEAN /\ c \in States /\ d \in States
      BY <1>3, <1>5, <2>1, ProcessMsgType DEF States
    <3>4. c.save_flag \in BOOLEAN /\ d.save_flag \in BOOLEAN
      BY <3>3 DEF States
    <3> HIDE DEF a, b, c, d, m
    <3>5. SaveAlike(c, d)
      BY <3>1, <3>3, <3>4 DEF SaveHeard, SaveAlike
    <3> QED BY <2>1, <3>5 DEF a, b, c, d, m
  <2> QED BY <2>1, <2>2
<1>6. \A i \in 0 .. Len(queue) : i \in G
  <2> HIDE DEF G
  <2> QED BY <1>3, <1>4, <1>5, StepByStep
<1> QED BY <1>1, <1>2, <1>3, <1>6

\* The orders of a frame do the same to two states that want the same save.
LEMMA OrdersAlike ==
  ASSUME NEW v \in States, NEW w \in States, NEW orders \in FrameOrders, SaveAlike(v, w)
  PROVE  SaveAlike(ExecuteOrders(v, orders), ExecuteOrders(w, orders))
<1> DEFINE D == DOMAIN orders
<1>1. PICK h : IsOrdersRun(h, orders, v) /\ h[D] = ExecuteOrders(v, orders)
  BY OrdersRun
<1>2. PICK g : IsOrdersRun(g, orders, w) /\ g[D] = ExecuteOrders(w, orders)
  BY OrdersRun
<1>3. D \in SUBSET Peers /\ \A n \in D : orders[n] \in Queues
  BY OrdersType
<1> DEFINE G == {S \in SUBSET D : SaveAlike(h[S], g[S])}
<1>4. {} \in G
  BY <1>1, <1>2 DEF IsOrdersRun
<1>5. ASSUME NEW S \in SUBSET D, S # {}, S \ {Max(S)} \in G PROVE S \in G
  <2>1. /\ h[S \ {Max(S)}] \in States /\ h[S] = ExecuteQueue(orders[Max(S)], h[S \ {Max(S)}])
        /\ g[S \ {Max(S)}] \in States /\ g[S] = ExecuteQueue(orders[Max(S)], g[S \ {Max(S)}])
    BY <1>1, <1>2, <1>5 DEF IsOrdersRun
  <2>2. Max(S) \in D
    BY <1>3, <1>5, LastOf
  <2>3. SaveAlike(h[S], g[S])
    BY <1>3, <1>5, <2>1, <2>2, QueueAlike
  <2> QED BY <2>3
<1>6. D \in G
  <2> HIDE DEF G, D
  <2> QED BY <1>3, <1>4, <1>5, NationByNation
<1> QED BY <1>1, <1>2, <1>6

-----------------------------------------------------------------------------
(* The invariant.  A queue is known by the frame it is executed in; what is  *)
(* in it was said process_frame_delay frames before.                         *)

\* p's queue for frame g; the one it is filling is the last.
QueueAt(p, g) == IF g <= Len(closed[p]) THEN closed[p][g] ELSE open[p]
Places(p) == 1 .. Len(closed[p]) + 1

TypeInv ==
  /\ frame_count \in [Peers -> Nat \ {0}]
  /\ open \in [Peers -> Queues]
  /\ closed \in [Peers -> Seq(Queues)]
  /\ humans \in [Peers -> SUBSET Peers]
  /\ executed \in [Peers -> Seq(FrameOrders)]
  /\ world \in [Peers -> SUBSET Events] /\ seed \in [Peers -> SUBSET Events]
  /\ crc_store \in [Peers -> Records] /\ lastRemoteSeed \in [Peers -> Records]
  /\ sync_test_level \in [Peers -> Levels] /\ lastNation \in [Peers -> Nat]
  /\ mp_save_flag \in [Peers -> BOOLEAN] /\ mp_save_frame \in [Peers -> Nat]
  /\ saved \in [Peers -> SUBSET Nat] /\ compared \in [Peers -> SUBSET Comparisons]

FramesInv ==
  \A p \in Peers :
    /\ Len(closed[p]) \in {frame_count[p] + process_frame_delay - 1,
                           frame_count[p] + process_frame_delay}
    /\ Len(executed[p]) = frame_count[p] - 1
    /\ p \in humans[p]
    /\ \A n \in humans[p] : n <= lastNation[p] /\ frame_count[p] <= Len(closed[n]) + 1

\* What sets p apart happened in frames p has seen; a player is replaced
\* after the seed of the frame was sent.
IsFault(e) == e[1] = 0
NoFault(p, frame) == \A e \in world[p] : e[2] <= frame => ~IsFault(e)
WorldInv ==
  \A p \in Peers :
    /\ \A e \in world[p] : /\ e[2] <= frame_count[p]
                           /\ IsFault(e) => e[3] = p
                           /\ IsFault(e) \/ Cast!IsClosed(p) \/ e[2] < frame_count[p]
    /\ (\A e \in world[p] : ~IsFault(e)) => seed[p] = world[p]

AllHuman == \A q \in Peers : humans[q] = Peers

\* Two players' check numbers of frame r differed, for the first time.
Decided(r) == \A q \in Peers : r + process_frame_delay <= Len(closed[q])
SaysCrc(q, r, record) ==
  /\ r + process_frame_delay <= Len(closed[q])
  /\ \E i \in DOMAIN closed[q][r + process_frame_delay] :
       closed[q][r + process_frame_delay][i] = CompareCrc(record)
Disputed(r) ==
  \E m, n \in Peers : \E a, b \in Records : SaysCrc(m, r, a) /\ SaysCrc(n, r, b) /\ a # b
FirstDispute(r) == Decided(r) /\ Disputed(r) /\ \A s \in 1 .. r - 1 : ~Disputed(s)

SeedRight(p, g, m) ==
  /\ m.record.frame = g - process_frame_delay - 1
  /\ NoFault(p, m.record.frame) => m.record.world = WorldAt(p, m.record.frame)
CrcRight(p, g, m) ==
  /\ m.record.frame = g - process_frame_delay /\ m.record.frame <= frame_count[p]
  /\ m.record.frame % period = 0 /\ m.record.world = WorldAt(p, m.record.frame)
ObjectsRight(g, m) ==
  /\ g = m.record.frame + process_frame_delay + process_frame_delay + 1
  /\ TestsCrc(SyncTestLevel) /\ m.record.frame > 0
  /\ AllHuman => FirstDispute(m.record.frame)

MessageRight(p, g, m) ==
  /\ process_frame_delay < g
  /\ IsSeed(m) => SeedRight(p, g, m)
  /\ IsCrc(m) => CrcRight(p, g, m)
  /\ IsObjects(m) => ObjectsRight(g, m)
  /\ IsSave(m) => m.frame > g
QueueRight(p, g, queue) ==
  /\ SeedFirst(queue, p, g > process_frame_delay + 1)
  /\ \A i \in DOMAIN queue : MessageRight(p, g, queue[i])
QueueInv == \A p \in Peers : \A g \in Places(p) : QueueRight(p, g, QueueAt(p, g))

\* The record p compares with is of the world of its frame, was sent to the
\* others, and is the last there could be.
Sent(p, m, g) == \E i \in DOMAIN QueueAt(p, g) : QueueAt(p, g)[i] = m
CrcInv ==
  \A p \in Peers : LET frame == crc_store[p].frame IN
    /\ frame <= frame_count[p] /\ frame % period = 0
    /\ crc_store[p].world = WorldAt(p, frame)
    /\ frame > 0 => Sent(p, CompareCrc(crc_store[p]), frame + process_frame_delay)
    /\ sync_test_level[p] = SyncTestLevel /\ TestsCrc(SyncTestLevel) =>
         frame_count[p] < frame + period

\* Worlds that differed, of players whose orders p executed in one frame
ApartIn(p, f) ==
  \E m, n \in DOMAIN executed[p][f] :
    /\ f <= Len(closed[m]) /\ f <= Len(closed[n])
    /\ WorldAt(m, f - process_frame_delay) # WorldAt(n, f - process_frame_delay)
AlarmInv == \A p \in Peers : sync_test_level[p] < 0 => \E f \in DOMAIN executed[p] : ApartIn(p, f)

\* Who still tests has passed no dispute, who stopped has stopped at the first.
DisputeInv ==
  AllHuman /\ TestsCrc(SyncTestLevel) =>
    \A p \in Peers :
      /\ sync_test_level[p] = SyncTestLevel =>
           \A r \in Nat \ {0} : r + process_frame_delay < frame_count[p] => ~Disputed(r)
      /\ sync_test_level[p] = CrcError => crc_store[p].frame > 0 /\ FirstDispute(crc_store[p].frame)

\* The delay and the period are positive, and the period is three frames longer.
LEMMA Delay ==
  /\ process_frame_delay \in Nat /\ process_frame_delay >= 1
  /\ period \in Nat /\ period = process_frame_delay + 3 /\ period > 0
BY SyncAssumption DEF period

\* The second part of an event is the frame it happened in.
LEMMA EventParts ==
  \A e \in Events : e[2] \in Nat
BY DEF Events

\* Multiples of a number are not closer than that.
LEMMA Multiples ==
  ASSUME NEW k \in Nat, k > 0, NEW a \in Nat, NEW b \in Nat,
         a % k = 0, b % k = 0, a < b
  PROVE  a + k <= b
<1> DEFINE s == a \div k
           t == b \div k
<1>1. s \in Int /\ a = k * s + (a % k)
  OBVIOUS
<1>2. t \in Int /\ b = k * t + (b % k)
  OBVIOUS
<1>3. a = k * s /\ b = k * t
  BY <1>1, <1>2
<1> HIDE DEF s, t
<1>4. k * s < k * t
  BY <1>3
<1>5. s < t
  BY <1>1, <1>2, <1>4
<1>6. k * (s + 1) <= k * t
  BY <1>1, <1>2, <1>5
<1>7. k * (s + 1) = k * s + k
  BY <1>1
<1> QED BY <1>3, <1>6, <1>7

\* A multiple and its divisor have a sum that is a multiple.
LEMMA NextMultiple ==
  ASSUME NEW k \in Nat, k > 0, NEW a \in Nat, a % k = 0
  PROVE  (a + k) % k = 0
<1> DEFINE s == a \div k
           u == (a + k) \div k
           r == (a + k) % k
<1>1. s \in Int /\ a = k * s + (a % k)
  OBVIOUS
<1>2. u \in Int /\ r \in Int /\ a + k = k * u + r /\ 0 <= r /\ r < k
  OBVIOUS
<1> HIDE DEF s, u, r
<1>3. a = k * s
  BY <1>1
<1>4. k * (s + 1) = k * s + k /\ k * (s + 2) = k * s + k + k
  BY <1>1
<1>5. ~(u <= s)
  <2>1. u <= s => k * u <= k * s
    BY <1>1, <1>2
  <2> QED BY <1>1, <1>2, <1>3, <2>1
<1>6. ~(u >= s + 2)
  <2>1. u >= s + 2 => k * u >= k * (s + 2)
    BY <1>1, <1>2
  <2> QED BY <1>1, <1>2, <1>3, <1>4, <2>1
<1>7. u = s + 1
  BY <1>1, <1>2, <1>5, <1>6
<1>8. k * u = k * s + k
  BY <1>4, <1>7
<1>9. r = 0
  BY <1>1, <1>2, <1>3, <1>8
<1> QED BY <1>9 DEF r

-----------------------------------------------------------------------------
(* A frame *)

Before(p) ==
  [level |-> sync_test_level[p], lastNation |-> lastNation[p],
   lastRemoteSeed |-> lastRemoteSeed[p], crc |-> crc_store[p],
   save_flag |-> mp_save_flag[p], save_frame |-> mp_save_frame[p],
   compared |-> compared[p], reply |-> <<>>]
FrameOrdersOf(p) == Cast!Orders(p, closed)
Executed(p) == ExecuteOrders(Before(p), FrameOrdersOf(p))

\* The orders a peer executes are the queues of the players it takes for human.
LEMMA OrdersOfFrame ==
  ASSUME TypeInv, NEW p \in Peers, Cast!Ready(p, closed)
  PROVE  /\ FrameOrdersOf(p) \in FrameOrders /\ DOMAIN FrameOrdersOf(p) = humans[p]
         /\ \A n \in humans[p] : /\ n \in Peers
                                 /\ frame_count[p] \in 1 .. Len(closed[n])
                                 /\ FrameOrdersOf(p)[n] = closed[n][frame_count[p]]
                                 /\ FrameOrdersOf(p)[n] = QueueAt(n, frame_count[p])
                                 /\ FrameOrdersOf(p)[n] \in Queues
<1>1. humans[p] \in SUBSET Peers /\ frame_count[p] \in Nat /\ frame_count[p] >= 1
  BY DEF TypeInv
<1>2. ASSUME NEW n \in humans[p]
      PROVE  /\ n \in Peers
             /\ frame_count[p] \in 1 .. Len(closed[n])
             /\ closed[n][frame_count[p]] \in Queues
             /\ closed[n][frame_count[p]] = QueueAt(n, frame_count[p])
  <2>1. n \in Peers /\ closed[n] \in Seq(Queues)
    BY <1>1 DEF TypeInv
  <2>2. frame_count[p] <= Len(closed[n])
    BY DEF Cast!Ready
  <2> QED BY <1>1, <2>1, <2>2 DEF QueueAt
<1> DEFINE orders == FrameOrdersOf(p)
<1>3. orders = [n \in humans[p] |-> closed[n][frame_count[p]]]
  BY DEF FrameOrdersOf, Cast!Orders
<1>4. orders \in OrdersOf(humans[p])
  BY <1>2, <1>3 DEF OrdersOf
<1>5. orders \in FrameOrders
  BY <1>1, <1>4 DEF FrameOrders
<1> QED BY <1>2, <1>3, <1>5

\* The state orders are executed on has its types, and begins with no reply.
LEMMA BeforeType ==
  ASSUME TypeInv, NEW p \in Peers
  PROVE  /\ Before(p) \in States
         /\ Before(p).level = sync_test_level[p] /\ Before(p).lastNation = lastNation[p]
         /\ Before(p).lastRemoteSeed = lastRemoteSeed[p] /\ Before(p).crc = crc_store[p]
         /\ Before(p).save_flag = mp_save_flag[p] /\ Before(p).save_frame = mp_save_frame[p]
         /\ Before(p).compared = compared[p] /\ Before(p).reply = <<>>
<1>1. <<>> \in Queues
  BY DEF Queues
<1> QED BY <1>1 DEF TypeInv, Before, States

RecordOf(p) == Record(frame_count[p] + 1, world[p])
RecordsThen(p) == RecordsCrc(Executed(p).level, frame_count[p] + 1)
SavesThen(p) == SavesNow(Executed(p), frame_count[p] + 1)
Said(p) == Executed(p).reply \o (IF RecordsThen(p) THEN <<CompareCrc(RecordOf(p))>> ELSE <<>>)

\* The effect of ProcessFrame, with names for its parts.
LEMMA FrameDone ==
  ASSUME TypeInv, NEW p \in Peers, ProcessFrame(p)
  PROVE  /\ Cast!Ready(p, closed) /\ p \in playing
         /\ frame_count' = [frame_count EXCEPT ![p] = frame_count[p] + 1]
         /\ executed' = [executed EXCEPT ![p] = Append(executed[p], FrameOrdersOf(p))]
         /\ sync_test_level' = [sync_test_level EXCEPT ![p] = Executed(p).level]
         /\ lastNation' = [lastNation EXCEPT ![p] = Executed(p).lastNation]
         /\ lastRemoteSeed' = [lastRemoteSeed EXCEPT ![p] = Executed(p).lastRemoteSeed]
         /\ compared' = [compared EXCEPT ![p] = Executed(p).compared]
         /\ crc_store' = [crc_store EXCEPT ![p] = IF RecordsThen(p) THEN RecordOf(p) ELSE crc_store[p]]
         /\ open' = [open EXCEPT ![p] = open[p] \o Said(p)]
         /\ mp_save_flag' = [mp_save_flag EXCEPT ![p] = Executed(p).save_flag /\ ~SavesThen(p)]
         /\ mp_save_frame' = [mp_save_frame EXCEPT ![p] = Executed(p).save_frame]
         /\ saved' = [saved EXCEPT ![p] = IF SavesThen(p) THEN saved[p] \cup {frame_count[p] + 1} ELSE saved[p]]
         /\ UNCHANGED <<closed, humans, world, seed, requests, playing>>
BY DEF ProcessFrame, Cast!Advance, Before, FrameOrdersOf, Executed, RecordOf, RecordsThen, SavesThen, Said

\* The state after the orders of a frame has its types.
LEMMA ExecutedType ==
  ASSUME TypeInv, NEW p \in Peers, Cast!Ready(p, closed)
  PROVE  Executed(p) \in States
BY OrdersOfFrame, BeforeType, ExecuteOrdersType DEF Executed

\* So have the record of a frame and the order that sends it.
LEMMA RecordType ==
  ASSUME TypeInv, NEW p \in Peers
  PROVE  /\ RecordOf(p) \in Records /\ CompareCrc(RecordOf(p)) \in Messages
         /\ RecordOf(p).frame = frame_count[p] + 1 /\ RecordOf(p).world = world[p]
<1>1. RecordOf(p) \in Records
  BY DEF TypeInv, RecordOf, Record, Records
<1>2. CompareCrc(RecordOf(p)) \in Messages
  BY <1>1 DEF CompareCrc, Messages
<1> QED BY <1>1, <1>2 DEF RecordOf, Record

-----------------------------------------------------------------------------
(* Types *)

\* The types hold at the start.
LEMMA InitTypes ==
  Init => TypeInv
<1> SUFFICES ASSUME Init PROVE TypeInv
  OBVIOUS
<1>1. <<>> \in Queues /\ <<>> \in Seq(FrameOrders)
  BY DEF Queues
<1>2. [f \in 1 .. process_frame_delay |-> <<>>] \in Seq(Queues)
  BY <1>1, Delay, IsASeq
<1>3. SHRT_MAX \in Nat
  BY PeersAreNumbers
<1>4. Record(0, {}) \in Records
  BY DEF Record, Records
<1>5. SyncTestLevel \in Levels
  BY DEF Levels
<1> QED BY <1>1, <1>2, <1>3, <1>4, <1>5 DEF Init, Cast!Init, TypeInv

\* Sending the queue keeps the types.
LEMMA CloseTypes ==
  ASSUME TypeInv, NEW p \in Peers, CloseQueue(p)
  PROVE  TypeInv'
<1>1. RandomSeed(p, Record(frame_count[p], seed[p])) \in Messages
  BY DEF TypeInv, RandomSeed, Record, Records, Messages
<1>2. <<RandomSeed(p, Record(frame_count[p], seed[p]))>> \in Queues
  BY <1>1 DEF Queues
<1>3. Append(closed[p], open[p]) \in Seq(Queues)
  BY DEF TypeInv
<1> QED BY <1>2, <1>3 DEF CloseQueue, SendQueue, Cast!Close, TypeInv, checkVars, saveVars

\* A frame keeps the types.
LEMMA FrameTypes ==
  ASSUME TypeInv, NEW p \in Peers, ProcessFrame(p)
  PROVE  TypeInv'
<1>1. Cast!Ready(p, closed)
  BY DEF ProcessFrame, Cast!Advance
<1> DEFINE st == Executed(p)
           new == open[p] \o Said(p)
<1>2. st \in States
  BY <1>1, ExecutedType
<1>3. CompareCrc(RecordOf(p)) \in Messages /\ RecordOf(p) \in Records
  BY RecordType
<1>4. new \in Queues
  <2>1. open[p] \in Seq(Messages) /\ st.reply \in Seq(Messages)
    BY <1>2 DEF TypeInv, States, Queues
  <2>2. (IF RecordsThen(p) THEN <<CompareCrc(RecordOf(p))>> ELSE <<>>) \in Seq(Messages)
    BY <1>3
  <2> QED BY <2>1, <2>2 DEF Queues, Said
<1>5. Append(executed[p], FrameOrdersOf(p)) \in Seq(FrameOrders)
  BY <1>1, OrdersOfFrame DEF TypeInv
<1>6. /\ st.level \in Levels /\ st.lastNation \in Nat /\ st.lastRemoteSeed \in Records
      /\ st.save_flag \in BOOLEAN /\ st.save_frame \in Nat /\ st.compared \in SUBSET Comparisons
  BY <1>2 DEF States
<1>7. frame_count[p] + 1 \in Nat \ {0}
  BY DEF TypeInv
<1> DEFINE crc == IF RecordsThen(p) THEN RecordOf(p) ELSE crc_store[p]
           done == IF SavesThen(p) THEN saved[p] \cup {frame_count[p] + 1} ELSE saved[p]
           more == Append(executed[p], FrameOrdersOf(p))
           flag == st.save_flag /\ ~SavesThen(p)
<1>8. /\ frame_count' = [frame_count EXCEPT ![p] = frame_count[p] + 1]
      /\ executed' = [executed EXCEPT ![p] = more]
      /\ open' = [open EXCEPT ![p] = new]
  BY FrameDone
<1>9. /\ sync_test_level' = [sync_test_level EXCEPT ![p] = st.level]
      /\ lastNation' = [lastNation EXCEPT ![p] = st.lastNation]
      /\ lastRemoteSeed' = [lastRemoteSeed EXCEPT ![p] = st.lastRemoteSeed]
      /\ compared' = [compared EXCEPT ![p] = st.compared]
      /\ crc_store' = [crc_store EXCEPT ![p] = crc]
  BY FrameDone
<1>10. /\ mp_save_flag' = [mp_save_flag EXCEPT ![p] = flag]
       /\ mp_save_frame' = [mp_save_frame EXCEPT ![p] = st.save_frame]
       /\ saved' = [saved EXCEPT ![p] = done]
       /\ UNCHANGED <<closed, humans, world, seed>>
  BY FrameDone
<1>11. crc \in Records /\ done \in SUBSET Nat /\ flag \in BOOLEAN
  <2>1. crc \in Records
    BY <1>3 DEF TypeInv
  <2>2. done \in SUBSET Nat
    BY <1>7 DEF TypeInv
  <2> QED BY <2>1, <2>2
<1> HIDE DEF st, new, crc, done, more, flag
<1>12. /\ frame_count' \in [Peers -> Nat \ {0}]
       /\ open' \in [Peers -> Queues]
  BY <1>4, <1>7, <1>8 DEF TypeInv
<1>13. executed' \in [Peers -> Seq(FrameOrders)]
  BY <1>5, <1>8 DEF TypeInv, more
<1>14. /\ crc_store' \in [Peers -> Records] /\ lastRemoteSeed' \in [Peers -> Records]
       /\ sync_test_level' \in [Peers -> Levels] /\ lastNation' \in [Peers -> Nat]
       /\ compared' \in [Peers -> SUBSET Comparisons]
  BY <1>6, <1>9, <1>11 DEF TypeInv
<1>15. /\ mp_save_flag' \in [Peers -> BOOLEAN] /\ mp_save_frame' \in [Peers -> Nat]
       /\ saved' \in [Peers -> SUBSET Nat]
  BY <1>6, <1>10, <1>11 DEF TypeInv
<1> QED BY <1>10, <1>12, <1>13, <1>14, <1>15 DEF TypeInv

\* Replacing a player keeps the types.
LEMMA TakeOverTypes ==
  ASSUME TypeInv, NEW p \in Peers, NEW n \in Peers, TakeOver(p, n)
  PROVE  TypeInv'
<1>1. <<n, frame_count[p]>> \in Events
  BY DEF TypeInv, Events
<1> QED BY <1>1 DEF TakeOver, Cast!TakeOver, TypeInv, checkVars, saveVars

\* The other actions keep the types.
LEMMA OtherTypes ==
  ASSUME TypeInv, NEW p \in Peers,
         save_game(p) \/ Quit(p) \/ Diverge(p) \/ SeedFollows(p)
  PROVE  TypeInv'
<1>1. CASE save_game(p)
  <2>1. RequestSave(frame_count[p] + SaveOffset) \in Messages
    BY Delay DEF TypeInv, RequestSave, Messages, SaveOffset
  <2>2. Append(open[p], RequestSave(frame_count[p] + SaveOffset)) \in Queues
    BY <2>1 DEF Queues, TypeInv
  <2> QED BY <1>1, <2>2 DEF save_game, Cast!Issue, TypeInv, checkVars, saveVars
<1>2. CASE Quit(p)
  <2>1. PlayerQuit(p) \in Messages
    BY DEF PlayerQuit, Messages
  <2>2. Append(open[p], PlayerQuit(p)) \in Queues
    BY <2>1 DEF Queues, TypeInv
  <2> QED BY <1>2, <2>2 DEF Quit, Cast!Issue, TypeInv, checkVars, saveVars
<1>3. CASE Diverge(p)
  <2>1. <<0, frame_count[p], p>> \in Events
    BY DEF TypeInv, Events
  <2> QED BY <1>3, <2>1 DEF Diverge, TypeInv, castVars, checkVars, saveVars
<1>4. CASE SeedFollows(p)
  BY <1>4 DEF SeedFollows, TypeInv, castVars, checkVars, saveVars
<1> QED BY <1>1, <1>2, <1>3, <1>4

\* Every step keeps the types.
LEMMA TypeStep == TypeInv /\ [Next]_vars => TypeInv'
<1> SUFFICES ASSUME TypeInv, [Next]_vars PROVE TypeInv'
  OBVIOUS
<1>1. CASE UNCHANGED vars
  BY <1>1 DEF vars, castVars, checkVars, saveVars, TypeInv
<1>2. CASE Next
  BY <1>2, CloseTypes, FrameTypes, TakeOverTypes, OtherTypes DEF Next
<1> QED BY <1>1, <1>2

-----------------------------------------------------------------------------
(* Frames *)

\* What orders a peer has for a frame is as the invariant says.
LEMMA FrameEffect ==
  ASSUME TypeInv, FramesInv, QueueInv, NEW p \in Peers, Cast!Ready(p, closed)
  PROVE  /\ \A n \in humans[p] :
              QueueRight(n, frame_count[p], FrameOrdersOf(p)[n])
         /\ AfterAll(Before(p), Executed(p), FrameOrdersOf(p), humans[p],
                     frame_count[p] > process_frame_delay + 1)
<1> DEFINE seeded == frame_count[p] > process_frame_delay + 1
           orders == FrameOrdersOf(p)
<1>1. seeded \in BOOLEAN
  BY Delay DEF TypeInv
<1>2. ASSUME NEW n \in humans[p]
      PROVE  QueueRight(n, frame_count[p], orders[n])
  <2>1. /\ n \in Peers /\ frame_count[p] \in 1 .. Len(closed[n])
        /\ orders[n] = QueueAt(n, frame_count[p])
    BY OrdersOfFrame
  <2>2. frame_count[p] \in Places(n)
    BY <2>1 DEF Places, TypeInv
  <2> QED BY <2>1, <2>2 DEF QueueInv
<1>3. orders \in FrameOrders /\ DOMAIN orders = humans[p]
  BY OrdersOfFrame
<1>4. Before(p) \in States /\ Before(p).lastNation = lastNation[p]
  BY BeforeType
<1>5. \A n \in DOMAIN orders : SeedFirst(orders[n], n, seeded) /\ n <= Before(p).lastNation
  BY <1>2, <1>3, <1>4 DEF FramesInv, QueueRight
<1>6. AfterAll(Before(p), ExecuteOrders(Before(p), orders), orders, DOMAIN orders, seeded)
  <2> HIDE DEF seeded, orders
  <2> QED BY <1>1, <1>3, <1>4, <1>5, OrdersEffect
<1> QED BY <1>2, <1>3, <1>6 DEF Executed

\* At the start every peer has sent the queues of the first frames.
LEMMA InitFrames == Init => FramesInv
<1> SUFFICES ASSUME Init PROVE FramesInv
  OBVIOUS
<1>1. Len([f \in 1 .. process_frame_delay |-> <<>>]) = process_frame_delay
  BY Delay
<1> QED BY <1>1, Delay, PeersAreNumbers DEF Init, Cast!Init, FramesInv

\* A frame is executed once all queues are there, and its own queue is still to be sent.
LEMMA FrameFrames ==
  ASSUME TypeInv, FramesInv, QueueInv, NEW p \in Peers, ProcessFrame(p)
  PROVE  FramesInv'
<1> DEFINE seeded == frame_count[p] > process_frame_delay + 1
<1>1. /\ Cast!Ready(p, closed)
      /\ frame_count' = [frame_count EXCEPT ![p] = frame_count[p] + 1]
      /\ executed' = [executed EXCEPT ![p] = Append(executed[p], FrameOrdersOf(p))]
      /\ lastNation' = [lastNation EXCEPT ![p] = Executed(p).lastNation]
      /\ closed' = closed /\ humans' = humans
  BY FrameDone
<1>2. FramedSeeds(Before(p), Executed(p), FrameOrdersOf(p), humans[p], seeded)
  BY <1>1, FrameEffect DEF AfterAll
<1>3. \A n \in humans[p] : n <= Executed(p).lastNation
  <2>1. humans[p] \in SUBSET Peers
    BY DEF TypeInv
  <2>2. Before(p).lastNation = lastNation[p]
    BY BeforeType
  <2>3. humans[p] # {} => \A n \in humans[p] : n <= Max(humans[p])
    BY <2>1, LastOf
  <2> QED BY <1>2, <2>2, <2>3 DEF FramedSeeds, FramesInv
<1>4. /\ Len(closed[p]) = frame_count[p] + process_frame_delay
      /\ \A n \in humans[p] : frame_count[p] <= Len(closed[n])
  BY <1>1 DEF Cast!Ready
<1>5. /\ frame_count'[p] = frame_count[p] + 1 /\ Len(executed'[p]) = Len(executed[p]) + 1
      /\ lastNation'[p] = Executed(p).lastNation
      /\ frame_count[p] \in Nat /\ \A n \in Peers : Len(closed[n]) \in Nat
  BY <1>1 DEF TypeInv
<1>6. ASSUME NEW q \in Peers, q # p
      PROVE  frame_count'[q] = frame_count[q] /\ executed'[q] = executed[q] /\ lastNation'[q] = lastNation[q]
  BY <1>1, <1>6 DEF TypeInv
<1>7. humans[p] \in SUBSET Peers
  BY DEF TypeInv
<1>8. /\ Len(closed[p]) \in {frame_count'[p] + process_frame_delay - 1,
                             frame_count'[p] + process_frame_delay}
      /\ Len(executed'[p]) = frame_count'[p] - 1
      /\ p \in humans[p]
      /\ \A n \in humans[p] : n <= lastNation'[p] /\ frame_count'[p] <= Len(closed[n]) + 1
  <2>1. Len(executed[p]) = frame_count[p] - 1 /\ p \in humans[p]
    BY DEF FramesInv
  <2>2. /\ Len(closed[p]) = frame_count'[p] + process_frame_delay - 1
        /\ Len(executed'[p]) = frame_count'[p] - 1
    BY <1>4, <1>5, <2>1, Delay
  <2>3. ASSUME NEW n \in humans[p]
        PROVE  n <= lastNation'[p] /\ frame_count'[p] <= Len(closed[n]) + 1
    BY <1>3, <1>4, <1>5, <1>7, <2>3
  <2> QED BY <2>1, <2>2, <2>3
<1> QED BY <1>1, <1>6, <1>8 DEF FramesInv

\* A queue is sent once for each frame.
LEMMA CloseFrames ==
  ASSUME TypeInv, FramesInv, NEW p \in Peers, CloseQueue(p)
  PROVE  FramesInv'
<1>1. /\ ~Cast!IsClosed(p) /\ closed' = [closed EXCEPT ![p] = Append(closed[p], open[p])]
      /\ UNCHANGED <<frame_count, humans, executed, lastNation>>
  BY DEF CloseQueue, SendQueue, Cast!Close, checkVars
<1>2. /\ Len(closed'[p]) = Len(closed[p]) + 1 /\ \A q \in Peers : q # p => closed'[q] = closed[q]
      /\ frame_count[p] \in Nat
      /\ \A q \in Peers : Len(closed[q]) \in Nat /\ humans[q] \in SUBSET Peers /\ frame_count[q] \in Nat
  BY <1>1 DEF TypeInv
<1>3. Len(closed'[p]) = frame_count[p] + process_frame_delay
  BY <1>1, <1>2, Delay DEF Cast!IsClosed, FramesInv
<1>4. ASSUME NEW q \in Peers, NEW n \in Peers, frame_count[q] <= Len(closed[n]) + 1
      PROVE  frame_count[q] <= Len(closed'[n]) + 1
  BY <1>2, <1>4
<1> QED BY <1>1, <1>2, <1>3, <1>4 DEF FramesInv

\* Replacing a player leaves the frames.
LEMMA TakeOverFrames ==
  ASSUME TypeInv, FramesInv, NEW p \in Peers, NEW n \in Peers, TakeOver(p, n)
  PROVE  FramesInv'
BY DEF TakeOver, Cast!TakeOver, checkVars, FramesInv, TypeInv

\* The other actions leave the frames.
LEMMA OtherFrames ==
  ASSUME TypeInv, FramesInv, NEW p \in Peers,
         save_game(p) \/ Quit(p) \/ Diverge(p) \/ SeedFollows(p)
  PROVE  FramesInv'
<1>1. UNCHANGED <<frame_count, closed, humans, executed, lastNation>>
  BY DEF save_game, Quit, Diverge, SeedFollows, Cast!Issue, castVars, checkVars
<1> QED BY <1>1 DEF FramesInv

\* Every step keeps the relation of a peer's frame to the queues it sent.
LEMMA FramesStep == TypeInv /\ FramesInv /\ QueueInv /\ [Next]_vars => FramesInv'
<1> SUFFICES ASSUME TypeInv, FramesInv, QueueInv, [Next]_vars PROVE FramesInv'
  OBVIOUS
<1>1. CASE UNCHANGED vars
  BY <1>1 DEF vars, castVars, checkVars, FramesInv
<1>2. CASE Next
  BY <1>2, CloseFrames, FrameFrames, TakeOverFrames, OtherFrames DEF Next
<1> QED BY <1>1, <1>2

-----------------------------------------------------------------------------
(* What a step leaves as it was *)

Onward ==
  /\ \A p \in Peers : frame_count[p] <= frame_count'[p]
  /\ \A p \in Peers : \A g \in 1 .. Len(closed[p]) :
       g \in 1 .. Len(closed'[p]) /\ closed'[p][g] = closed[p][g]
  /\ \A p \in Peers : \A e \in world[p] : e \in world'[p]
  /\ \A p \in Peers : \A e \in world'[p] : e \in world[p] \/ e[2] = frame_count[p]
  /\ \A p \in Peers : humans'[p] \subseteq humans[p]

\* Frames go on, sent queues stay, worlds grow by what happens now, and no player comes back.
LEMMA StepsOnward == TypeInv /\ [Next]_vars => Onward
<1> SUFFICES ASSUME TypeInv, [Next]_vars PROVE Onward
  OBVIOUS
<1>1. \A p \in Peers : frame_count[p] \in Nat /\ closed[p] \in Seq(Queues)
  BY DEF TypeInv
<1>2. CASE UNCHANGED vars
  BY <1>1, <1>2 DEF vars, castVars, Onward
<1>3. ASSUME NEW p \in Peers, CloseQueue(p)
      PROVE  Onward
  <2>1. /\ closed' = [closed EXCEPT ![p] = Append(closed[p], open[p])]
        /\ UNCHANGED <<frame_count, humans, world>>
    BY <1>3 DEF CloseQueue, SendQueue, Cast!Close
  <2>2. ASSUME NEW q \in Peers, NEW g \in 1 .. Len(closed[q])
        PROVE  g \in 1 .. Len(closed'[q]) /\ closed'[q][g] = closed[q][g]
    <3>1. CASE q = p
      <4>1. closed'[q] = Append(closed[q], open[q])
        BY <2>1, <3>1 DEF TypeInv
      <4> QED BY <1>1, <4>1
    <3>2. CASE q # p
      BY <2>1, <3>2 DEF TypeInv
    <3> QED BY <3>1, <3>2
  <2> QED BY <1>1, <2>1, <2>2 DEF Onward
<1>4. ASSUME NEW p \in Peers, ProcessFrame(p)
      PROVE  Onward
  <2>1. /\ frame_count' = [frame_count EXCEPT ![p] = frame_count[p] + 1]
        /\ UNCHANGED <<closed, humans, world>>
    BY <1>4, FrameDone
  <2>2. \A q \in Peers : frame_count[q] <= frame_count'[q]
    BY <1>1, <2>1 DEF TypeInv
  <2> QED BY <2>1, <2>2 DEF Onward
<1>5. ASSUME NEW p \in Peers, NEW n \in Peers, TakeOver(p, n)
      PROVE  Onward
  <2>1. /\ humans' = [humans EXCEPT ![p] = @ \ {n}]
        /\ world' = [world EXCEPT ![p] = @ \cup {<<n, frame_count[p]>>}]
        /\ UNCHANGED <<frame_count, closed>>
    BY <1>5 DEF TakeOver, Cast!TakeOver
  <2>2. ASSUME NEW q \in Peers
        PROVE  /\ \A e \in world[q] : e \in world'[q]
               /\ \A e \in world'[q] : e \in world[q] \/ e[2] = frame_count[q]
               /\ humans'[q] \subseteq humans[q]
    BY <2>1 DEF TypeInv
  <2> QED BY <1>1, <2>1, <2>2 DEF Onward
<1>6. ASSUME NEW p \in Peers, save_game(p) \/ Quit(p) \/ SeedFollows(p)
      PROVE  Onward
  <2>1. UNCHANGED <<frame_count, closed, humans, world>>
    BY <1>6 DEF save_game, Quit, SeedFollows, Cast!Issue, castVars
  <2> QED BY <1>1, <2>1 DEF Onward
<1>7. ASSUME NEW p \in Peers, Diverge(p)
      PROVE  Onward
  <2>1. /\ world' = [world EXCEPT ![p] = @ \cup {<<0, frame_count[p], p>>}]
        /\ UNCHANGED <<frame_count, closed, humans>>
    BY <1>7 DEF Diverge, castVars
  <2>2. ASSUME NEW q \in Peers
        PROVE  /\ \A e \in world[q] : e \in world'[q]
               /\ \A e \in world'[q] : e \in world[q] \/ e[2] = frame_count[q]
    BY <2>1 DEF TypeInv
  <2> QED BY <1>1, <2>1, <2>2 DEF Onward
<1> QED BY <1>2, <1>3, <1>4, <1>5, <1>6, <1>7 DEF Next

\* The world at the end of a frame a peer has seen is settled.
LEMMA WorldStays ==
  ASSUME TypeInv, TypeInv', Onward, NEW p \in Peers, NEW r \in Int, r <= frame_count[p]
  PROVE  WorldAt(p, r)' = WorldAt(p, r) /\ r <= frame_count'[p]
<1>1. \A e \in world'[p] : e[2] \in Nat
  BY EventParts DEF TypeInv
<1>2. frame_count[p] \in Nat /\ frame_count'[p] \in Nat
  BY DEF TypeInv
<1>3. /\ \A e \in world[p] : e \in world'[p]
      /\ \A e \in world'[p] : e \in world[p] \/ e[2] = frame_count[p]
      /\ frame_count[p] <= frame_count'[p]
  BY DEF Onward
<1> QED BY <1>1, <1>2, <1>3 DEF WorldAt

\* Whether a sent queue holds a record does not change.
LEMMA SaidStays ==
  ASSUME TypeInv, TypeInv', Onward, NEW q \in Peers, NEW r \in Nat, NEW record,
         r + process_frame_delay <= Len(closed[q]), r > 0
  PROVE  SaysCrc(q, r, record)' <=> SaysCrc(q, r, record)
<1>1. Len(closed[q]) \in Nat /\ Len(closed'[q]) \in Nat
  BY DEF TypeInv
<1>2. r + process_frame_delay \in 1 .. Len(closed[q])
  BY <1>1, Delay
<1>3. /\ r + process_frame_delay \in 1 .. Len(closed'[q])
      /\ closed'[q][r + process_frame_delay] = closed[q][r + process_frame_delay]
  BY <1>2 DEF Onward
<1> QED BY <1>2, <1>3 DEF SaysCrc

\* Whether a frame is decided, and disputed, stays once all queues of it are sent.
LEMMA DisputeStays ==
  ASSUME TypeInv, TypeInv', Onward, NEW r \in Nat, r > 0, Decided(r)
  PROVE  Decided(r)' /\ (Disputed(r)' <=> Disputed(r))
<1>1. ASSUME NEW q \in Peers
      PROVE  /\ r + process_frame_delay <= Len(closed[q]) 
             /\ r + process_frame_delay <= Len(closed'[q])
             /\ \A a \in Records : SaysCrc(q, r, a)' <=> SaysCrc(q, r, a)
  <2>1. r + process_frame_delay <= Len(closed[q]) 
    BY DEF Decided
  <2>2. Len(closed[q]) \in Nat /\ Len(closed'[q]) \in Nat
    BY DEF TypeInv
  <2>3. r + process_frame_delay \in 1 .. Len(closed[q])
    BY <2>1, <2>2, Delay
  <2>4. r + process_frame_delay \in 1 .. Len(closed'[q])
    BY <2>3 DEF Onward
  <2> QED BY <2>1, <2>4, SaidStays
<1>2. Decided(r)'
  BY <1>1 DEF Decided
<1>3. Disputed(r)' <=> Disputed(r)
  BY <1>1 DEF Disputed
<1> QED BY <1>2, <1>3

\* So the first dispute stays the first.
LEMMA FirstDisputeStays ==
  ASSUME TypeInv, TypeInv', Onward, NEW r \in Nat, r > 0, FirstDispute(r)
  PROVE  FirstDispute(r)'
<1>1. Decided(r)' /\ Disputed(r)'
  BY DisputeStays DEF FirstDispute
<1>2. ASSUME NEW s \in 1 .. r - 1
      PROVE  ~Disputed(s)'
  <2>1. s \in Nat /\ s > 0 /\ s < r
    OBVIOUS
  <2>2. \A q \in Peers : Len(closed[q]) \in Nat
    BY DEF TypeInv
  <2>3. Decided(s)
    BY <2>1, <2>2, Delay DEF FirstDispute, Decided
  <2> QED BY <2>1, <2>3, DisputeStays DEF FirstDispute
<1> QED BY <1>1, <1>2 DEF FirstDispute

\* Who has all players after a step had them before it.
LEMMA AllStayHuman ==
  ASSUME TypeInv, TypeInv', Onward, AllHuman'
  PROVE  AllHuman
<1>1. \A q \in Peers : humans[q] \in SUBSET Peers
  BY DEF TypeInv
<1>2. \A q \in Peers : humans'[q] \subseteq humans[q]
  BY DEF Onward
<1>3. \A q \in Peers : humans'[q] = Peers
  BY DEF AllHuman
<1> QED BY <1>1, <1>2, <1>3 DEF AllHuman

\* What a message says stays true of the frame it speaks of.
LEMMA MessageStays ==
  ASSUME TypeInv, TypeInv', FramesInv, Onward, NEW p \in Peers, NEW g \in Places(p),
         NEW m \in Messages, MessageRight(p, g, m)
  PROVE  MessageRight(p, g, m)'
<1>1. g \in Nat /\ g <= frame_count[p] + process_frame_delay + 1 /\ frame_count[p] \in Nat
  <2>1. Len(closed[p]) \in Nat /\ frame_count[p] \in Nat
    BY DEF TypeInv
  <2>2. Len(closed[p]) <= frame_count[p] + process_frame_delay
    BY <2>1, Delay DEF FramesInv
  <2> QED BY <2>1, <2>2, Delay DEF Places
<1>2. ASSUME IsSeed(m) PROVE SeedRight(p, g, m)'
  <2> DEFINE frame == m.record.frame
  <2>1. SeedRight(p, g, m)
    BY <1>2 DEF MessageRight
  <2>2. frame \in Int /\ frame <= frame_count[p]
    BY <1>1, <2>1, Delay DEF SeedRight
  <2>3. WorldAt(p, frame)' = WorldAt(p, frame)
    <3> HIDE DEF frame
    <3> QED BY <2>2, WorldStays
  <2>4. NoFault(p, frame)' => NoFault(p, frame)
    BY DEF NoFault, Onward
  <2> QED BY <2>1, <2>3, <2>4 DEF SeedRight
<1>3. ASSUME IsCrc(m) PROVE CrcRight(p, g, m)'
  <2> DEFINE frame == m.record.frame
  <2>1. CrcRight(p, g, m)
    BY <1>3 DEF MessageRight
  <2>2. frame \in Int /\ frame <= frame_count[p]
    BY <1>1, <2>1, Delay DEF CrcRight
  <2>3. WorldAt(p, frame)' = WorldAt(p, frame) /\ frame <= frame_count'[p]
    <3> HIDE DEF frame
    <3> QED BY <2>2, WorldStays
  <2> QED BY <2>1, <2>3 DEF CrcRight
<1>4. ASSUME IsObjects(m) PROVE ObjectsRight(g, m)'
  <2> DEFINE frame == m.record.frame
  <2>1. ObjectsRight(g, m)
    BY <1>4 DEF MessageRight
  <2>2. frame \in Nat /\ frame > 0
    <3>1. m.record \in Records
      BY <1>4, MessageKinds
    <3> QED BY <2>1, <3>1 DEF ObjectsRight, Records
  <2>3. AllHuman' => FirstDispute(frame)'
    <3>1. AllHuman' => FirstDispute(frame)
      BY <2>1, AllStayHuman DEF ObjectsRight
    <3> HIDE DEF frame
    <3> QED BY <2>2, <3>1, FirstDisputeStays
  <2> QED BY <2>1, <2>3 DEF ObjectsRight
<1> QED BY <1>2, <1>3, <1>4 DEF MessageRight

-----------------------------------------------------------------------------
(* Worlds *)

\* The worlds are alike at the start.
LEMMA InitWorlds == Init => WorldInv
BY DEF Init, WorldInv

\* A world has only events of frames it was in.
LEMMA WorldStep ==
  TypeInv /\ FramesInv /\ WorldInv /\ [Next]_vars => WorldInv'
<1> SUFFICES ASSUME TypeInv, FramesInv, WorldInv, [Next]_vars PROVE WorldInv'
  OBVIOUS
<1>1. /\ \A q \in Peers : /\ frame_count[q] \in Nat /\ Len(closed[q]) \in Nat
                          /\ \A e \in world[q] : e[2] \in Nat
      /\ \A q \in Peers : q # 0
  BY EventParts, PeersAreNumbers DEF TypeInv
<1>2. CASE UNCHANGED vars
  BY <1>2 DEF vars, castVars, WorldInv, Cast!IsClosed
<1>3. ASSUME NEW p \in Peers, CloseQueue(p)
      PROVE  WorldInv'
  <2>1. /\ ~Cast!IsClosed(p) /\ closed' = [closed EXCEPT ![p] = Append(closed[p], open[p])]
        /\ UNCHANGED <<frame_count, world, seed>>
    BY <1>3 DEF CloseQueue, SendQueue, Cast!Close
  <2>2. \A q \in Peers : Cast!IsClosed(q) => Cast!IsClosed(q)'
    BY <2>1 DEF TypeInv, Cast!IsClosed
  <2> QED BY <2>1, <2>2 DEF WorldInv
<1>4. ASSUME NEW p \in Peers, ProcessFrame(p)
      PROVE  WorldInv'
  <2>1. /\ frame_count' = [frame_count EXCEPT ![p] = frame_count[p] + 1]
        /\ UNCHANGED <<closed, world, seed>>
    BY <1>4, FrameDone
  <2>2. /\ \A e \in world[p] : e[2] < frame_count'[p] 
        /\ \A q \in Peers : q # p => frame_count'[q] = frame_count[q]
    BY <1>1, <2>1 DEF TypeInv, WorldInv
  <2>3. \A q \in Peers : q # p => (Cast!IsClosed(q)' <=> Cast!IsClosed(q))
    BY <2>1, <2>2 DEF Cast!IsClosed
  <2>4. \A e \in world[p] : e[2] <= frame_count'[p]
    BY <1>1, <2>1, <2>2 DEF TypeInv
  <2> QED BY <2>1, <2>2, <2>3, <2>4 DEF WorldInv
<1>5. ASSUME NEW p \in Peers, NEW n \in Peers, TakeOver(p, n)
      PROVE  WorldInv'
  <2> DEFINE e == <<n, frame_count[p]>>
  <2>1. /\ Cast!IsClosed(p) /\ world' = [world EXCEPT ![p] = world[p] \cup {e}]
        /\ seed' = [seed EXCEPT ![p] = seed[p] \cup {e}]
        /\ UNCHANGED <<frame_count, closed>>
    BY <1>5 DEF TakeOver, Cast!TakeOver
  <2>2. e[2] = frame_count[p] /\ ~IsFault(e)
    BY <1>1 DEF IsFault
  <2> HIDE DEF e
  <2>3. /\ world'[p] = world[p] \cup {e} /\ seed'[p] = seed[p] \cup {e}
        /\ \A q \in Peers : q # p => world'[q] = world[q] /\ seed'[q] = seed[q]
    BY <2>1 DEF TypeInv
  <2>4. \A q \in Peers : Cast!IsClosed(q)' <=> Cast!IsClosed(q)
    BY <2>1 DEF Cast!IsClosed
  <2>5. \A f \in world'[p] : /\ f[2] <= frame_count[p] 
                             /\ IsFault(f) => f[3] = p
    BY <1>1, <2>2, <2>3 DEF WorldInv
  <2>6. (\A f \in world'[p] : ~IsFault(f)) => seed'[p] = world'[p]
    BY <2>3 DEF WorldInv
  <2> QED BY <2>1, <2>3, <2>4, <2>5, <2>6 DEF WorldInv
<1>6. ASSUME NEW p \in Peers, save_game(p) \/ Quit(p)
      PROVE  WorldInv'
  <2>1. UNCHANGED <<frame_count, closed, world, seed>>
    BY <1>6 DEF save_game, Quit, Cast!Issue
  <2> QED BY <2>1 DEF WorldInv, Cast!IsClosed
<1>7. ASSUME NEW p \in Peers, Diverge(p)
      PROVE  WorldInv'
  <2> DEFINE e == <<0, frame_count[p], p>>
  <2>1. /\ world' = [world EXCEPT ![p] = world[p] \cup {e}]
        /\ UNCHANGED <<frame_count, closed, seed>>
    BY <1>7 DEF Diverge, castVars
  <2>2. e[2] = frame_count[p] /\ IsFault(e) /\ e[3] = p
    BY DEF IsFault
  <2> HIDE DEF e
  <2>3. /\ world'[p] = world[p] \cup {e}
        /\ \A q \in Peers : q # p => world'[q] = world[q]
    BY <2>1 DEF TypeInv
  <2>4. \A q \in Peers : Cast!IsClosed(q)' <=> Cast!IsClosed(q)
    BY <2>1 DEF Cast!IsClosed
  <2> QED BY <1>1, <2>1, <2>2, <2>3, <2>4 DEF WorldInv
<1>8. ASSUME NEW p \in Peers, SeedFollows(p)
      PROVE  WorldInv'
  <2>1. /\ seed' = [seed EXCEPT ![p] = world[p]]
        /\ UNCHANGED <<frame_count, closed, world>>
    BY <1>8 DEF SeedFollows, castVars
  <2>2. \A q \in Peers : Cast!IsClosed(q)' <=> Cast!IsClosed(q)
    BY <2>1 DEF Cast!IsClosed
  <2> QED BY <2>1, <2>2 DEF WorldInv, TypeInv
<1> QED BY <1>2, <1>3, <1>4, <1>5, <1>6, <1>7, <1>8 DEF Next

-----------------------------------------------------------------------------
(* Queues *)

Longer(a, b) == \A i \in DOMAIN a : i \in DOMAIN b /\ b[i] = a[i]
QueuesGrow ==
  \A q \in Peers : \A g \in Places(q) : g \in Places(q)' /\ Longer(QueueAt(q, g), QueueAt(q, g)')

\* A queue with more messages that are no seeds
LEMMA Extended ==
  ASSUME NEW queue \in Queues, NEW extra \in Queues
  PROVE  /\ Longer(queue, queue \o extra)
         /\ \A i \in DOMAIN (queue \o extra) :
              \/ i \in DOMAIN queue /\ (queue \o extra)[i] = queue[i]
              \/ i \notin DOMAIN queue /\ \E k \in DOMAIN extra : (queue \o extra)[i] = extra[k]
<1>1. /\ DOMAIN queue = 1 .. Len(queue) /\ DOMAIN extra = 1 .. Len(extra)
      /\ DOMAIN (queue \o extra) = 1 .. Len(queue) + Len(extra)
      /\ Len(queue) \in Nat /\ Len(extra) \in Nat
      /\ \A i \in 1 .. Len(queue) + Len(extra) :
           (queue \o extra)[i] = IF i <= Len(queue) THEN queue[i] ELSE extra[i - Len(queue)]
  BY DEF Queues
<1> DEFINE all == queue \o extra
<1> HIDE DEF all
<1>2. Longer(queue, all)
  BY <1>1 DEF Longer, all
<1>3. ASSUME NEW i \in DOMAIN all, i \notin DOMAIN queue
      PROVE  \E k \in DOMAIN extra : all[i] = extra[k]
  <2>1. i - Len(queue) \in DOMAIN extra /\ all[i] = extra[i - Len(queue)]
    BY <1>1, <1>3 DEF all
  <2> QED BY <2>1
<1>4. \A i \in DOMAIN all : i \in DOMAIN queue => all[i] = queue[i]
  BY <1>2 DEF Longer
<1> QED BY <1>2, <1>3, <1>4 DEF all

\* What is put in a queue comes behind its seed.
LEMMA SeedStaysFirst ==
  ASSUME NEW queue \in Queues, NEW extra \in Queues, NEW n, NEW seeded,
         SeedFirst(queue, n, seeded), \A k \in DOMAIN extra : ~IsSeed(extra[k])
  PROVE  SeedFirst(queue \o extra, n, seeded)
<1> DEFINE all == queue \o extra
<1>1. /\ \A i \in DOMAIN queue : i \in DOMAIN all /\ all[i] = queue[i]
      /\ \A i \in DOMAIN all : \/ i \in DOMAIN queue /\ all[i] = queue[i]
                               \/ i \notin DOMAIN queue /\ \E k \in DOMAIN extra : all[i] = extra[k]
  BY Extended DEF Longer
<1> HIDE DEF all
<1>2. SeedFirst(all, n, seeded)
  <2>1. seeded => 1 \in DOMAIN queue /\ 1 \in DOMAIN all /\ all[1] = queue[1]
    BY <1>1 DEF SeedFirst
  <2>2. ASSUME NEW i \in DOMAIN all
        PROVE  IsSeed(all[i]) <=> seeded /\ i = 1
    <3>1. CASE i \in DOMAIN queue
      BY <1>1, <3>1 DEF SeedFirst
    <3>2. CASE i \notin DOMAIN queue
      <4>1. PICK k \in DOMAIN extra : all[i] = extra[k]
        BY <1>1, <3>2
      <4>2. ~(seeded /\ i = 1)
        BY <2>1, <3>2
      <4> QED BY <4>1, <4>2
    <3> QED BY <3>1, <3>2
  <2> QED BY <2>1, <2>2 DEF SeedFirst
<1> QED BY <1>2 DEF all

\* The queue a peer is filling gets longer.
LEMMA OpenGrows ==
  ASSUME TypeInv, NEW p \in Peers, closed' = closed, NEW extra \in Queues,
         open' = [open EXCEPT ![p] = open[p] \o extra]
  PROVE  /\ QueuesGrow
         /\ \A q \in Peers : /\ Places(q)' = Places(q) 
                             /\ \A g \in Places(q) : \/ QueueAt(q, g)' = QueueAt(q, g)
                                                     \/ /\ q = p /\ g = Len(closed[p]) + 1
                                                        /\ QueueAt(q, g) = open[p]
                                                        /\ QueueAt(q, g)' = open[p] \o extra
<1>1. /\ open'[p] = open[p] \o extra /\ \A q \in Peers : q # p => open'[q] = open[q]
      /\ \A q \in Peers : Len(closed[q]) \in Nat /\ open[q] \in Queues
  BY DEF TypeInv
<1>2. Longer(open[p], open[p] \o extra)
  BY <1>1, Extended
<1>3. ASSUME NEW q \in Peers
      PROVE  Places(q)' = Places(q)
  BY DEF Places
<1>4. ASSUME NEW q \in Peers, NEW g \in Places(q)
      PROVE  \/ QueueAt(q, g)' = QueueAt(q, g)
             \/ /\ q = p /\ g = Len(closed[p]) + 1
                /\ QueueAt(q, g) = open[p]
                /\ QueueAt(q, g)' = open[p] \o extra
  <2>1. g \in 1 .. Len(closed[q]) + 1
    BY DEF Places
  <2>2. CASE g <= Len(closed[q])
    BY <2>2 DEF QueueAt
  <2>3. CASE ~(g <= Len(closed[q]))
    <3>1. g = Len(closed[q]) + 1
      BY <1>1, <2>1, <2>3
    <3>2. QueueAt(q, g) = open[q] /\ QueueAt(q, g)' = open'[q]
      BY <2>3 DEF QueueAt
    <3> QED BY <1>1, <3>1, <3>2
  <2> QED BY <2>2, <2>3
<1>5. QueuesGrow
  <2>1. \A a : Longer(a, a)
    BY DEF Longer
  <2> QED BY <1>2, <1>3, <1>4, <2>1 DEF QueuesGrow
<1> QED BY <1>3, <1>4, <1>5

\* A queue consists of messages.
LEMMA QueueTypes ==
  ASSUME TypeInv, NEW q \in Peers, NEW g \in Places(q)
  PROVE  QueueAt(q, g) \in Queues /\ \A i \in DOMAIN QueueAt(q, g) : QueueAt(q, g)[i] \in Messages
<1>1. QueueAt(q, g) \in Queues
  BY DEF TypeInv, Places, QueueAt
<1> HIDE DEF QueueAt
<1> QED BY <1>1 DEF Queues

\* A queue a step leaves alone stays right.
LEMMA SameQueueRight ==
  ASSUME TypeInv, TypeInv', FramesInv, QueueInv, Onward, NEW q \in Peers, NEW g \in Places(q),
         QueueAt(q, g)' = QueueAt(q, g)
  PROVE  QueueRight(q, g, QueueAt(q, g))'
<1>1. QueueRight(q, g, QueueAt(q, g))
  BY DEF QueueInv
<1>2. \A i \in DOMAIN QueueAt(q, g) : MessageRight(q, g, QueueAt(q, g)[i])'
  BY <1>1, QueueTypes, MessageStays DEF QueueRight
<1>3. SeedFirst(QueueAt(q, g), q, g > process_frame_delay + 1)
  BY <1>1 DEF QueueRight
<1> QED BY <1>2, <1>3 DEF QueueRight

\* Messages that are right, put in the open queue, keep all queues right.
LEMMA OpenStaysRight ==
  ASSUME TypeInv, TypeInv', FramesInv, QueueInv, Onward, NEW p \in Peers, closed' = closed,
         NEW extra \in Queues, open' = [open EXCEPT ![p] = open[p] \o extra],
         \A k \in DOMAIN extra : /\ ~IsSeed(extra[k])
                                 /\ MessageRight(p, Len(closed[p]) + 1, extra[k])'
  PROVE  QueueInv'
<1> SUFFICES ASSUME NEW q \in Peers, NEW g \in Places(q)
             PROVE  QueueRight(q, g, QueueAt(q, g))'
  BY OpenGrows DEF QueueInv
<1>1. CASE QueueAt(q, g)' = QueueAt(q, g)
  BY <1>1, SameQueueRight
<1>2. CASE /\ q = p /\ g = Len(closed[p]) + 1
           /\ QueueAt(q, g) = open[p]
           /\ QueueAt(q, g)' = open[p] \o extra
  <2>1. PICK queue : queue = open[p]
    OBVIOUS
  <2>2. PICK all : all = queue \o extra
    OBVIOUS
  <2>3. queue \in Queues /\ \A i \in DOMAIN queue : queue[i] \in Messages
    BY <1>2, <2>1, QueueTypes
  <2>4. QueueRight(p, g, queue)
    BY <1>2, <2>1 DEF QueueInv
  <2>5. SeedFirst(all, p, g > process_frame_delay + 1)
    BY <2>2, <2>3, <2>4, SeedStaysFirst DEF QueueRight
  <2>6. \A i \in DOMAIN queue : MessageRight(p, g, queue[i])'
    BY <1>2, <2>3, <2>4, MessageStays DEF QueueRight
  <2>7. ASSUME NEW k \in DOMAIN extra
        PROVE  MessageRight(p, g, extra[k])'
    <3>1. closed[p]' = closed[p] /\ g = Len(closed[p]) + 1
      BY <1>2
    <3> QED BY <3>1
  <2>8. \A i \in DOMAIN all :
          \/ i \in DOMAIN queue /\ all[i] = queue[i]
          \/ i \notin DOMAIN queue /\ \E k \in DOMAIN extra : all[i] = extra[k]
    BY <2>2, <2>3, Extended
  <2>9. \A i \in DOMAIN all : MessageRight(p, g, all[i])'
    BY <2>6, <2>7, <2>8
  <2>10. QueueAt(q, g)' = all
    BY <1>2, <2>1, <2>2
  <2> QED BY <1>2, <2>5, <2>9, <2>10 DEF QueueRight
<1> QED BY <1>1, <1>2, OpenGrows

\* Steps that touch no queue keep all queues right.
LEMMA SameOpenRight ==
  ASSUME TypeInv, TypeInv', FramesInv, QueueInv, Onward, closed' = closed, open' = open
  PROVE  QueuesGrow /\ QueueInv'
<1>1. \A q \in Peers : Places(q)' = Places(q) /\ \A g \in Places(q) : QueueAt(q, g)' = QueueAt(q, g)
  BY DEF Places, QueueAt
<1>2. QueuesGrow
  BY <1>1 DEF QueuesGrow, Longer
<1> QED BY <1>1, <1>2, SameQueueRight DEF QueueInv

\* A queue is closed; the next one begins with the seed.
LEMMA CloseGrows ==
  ASSUME TypeInv, FramesInv, NEW p \in Peers, CloseQueue(p)
  PROVE  /\ QueuesGrow
         /\ \A q \in Peers : \A g \in Places(q)' :
              \/ g \in Places(q) /\ QueueAt(q, g)' = QueueAt(q, g)
              \/ /\ q = p /\ g = frame_count[p] + process_frame_delay + 1
                 /\ QueueAt(q, g)' = <<RandomSeed(p, Record(frame_count[p], seed[p]))>>
<1> DEFINE opening == <<RandomSeed(p, Record(frame_count[p], seed[p]))>>
<1>1. /\ ~Cast!IsClosed(p) /\ closed' = [closed EXCEPT ![p] = Append(closed[p], open[p])]
      /\ open' = [open EXCEPT ![p] = opening]
  BY DEF CloseQueue, SendQueue, Cast!Close
<1> HIDE DEF opening
<1>2. /\ closed[p] \in Seq(Queues) /\ Len(closed[p]) \in Nat /\ frame_count[p] \in Nat
      /\ closed'[p] = Append(closed[p], open[p]) /\ open'[p] = opening
      /\ \A q \in Peers : q # p => closed'[q] = closed[q] /\ open'[q] = open[q]
  BY <1>1 DEF TypeInv
<1>3. /\ Len(closed'[p]) = Len(closed[p]) + 1
      /\ closed'[p][Len(closed[p]) + 1] = open[p]
      /\ \A g \in 1 .. Len(closed[p]) : closed'[p][g] = closed[p][g]
  BY <1>2
<1>4. Len(closed[p]) + 1 = frame_count[p] + process_frame_delay
  <2>1. \/ Len(closed[p]) = frame_count[p] + process_frame_delay - 1
        \/ Len(closed[p]) = frame_count[p] + process_frame_delay
    BY DEF FramesInv
  <2>2. Len(closed[p]) # frame_count[p] + process_frame_delay
    BY <1>1 DEF Cast!IsClosed
  <2>3. Len(closed[p]) \in Nat /\ frame_count[p] \in Nat
    BY <1>2
  <2>4. process_frame_delay \in Nat
    BY Delay
  <2> QED BY <2>1, <2>2, <2>3, <2>4
<1>5. ASSUME NEW q \in Peers, NEW g \in Places(q)
      PROVE  g \in Places(q)' /\ QueueAt(q, g)' = QueueAt(q, g)
  <2>1. CASE q # p
    BY <1>2, <2>1 DEF Places, QueueAt
  <2>2. CASE q = p
    <3>1. g \in 1 .. Len(closed[p]) + 1
      BY <2>2 DEF Places
    <3>2. g \in Places(p)'
      BY <1>2, <1>3, <3>1 DEF Places
    <3>3. CASE g <= Len(closed[p])
      BY <1>2, <1>3, <2>2, <3>1, <3>2, <3>3 DEF QueueAt
    <3>4. CASE g = Len(closed[p]) + 1
      BY <1>2, <1>3, <2>2, <3>2, <3>4 DEF QueueAt
    <3> QED BY <1>2, <3>1, <3>3, <3>4
  <2> QED BY <2>1, <2>2
<1>6. ASSUME NEW q \in Peers, NEW g \in Places(q)', g \notin Places(q)
      PROVE  /\ q = p /\ g = frame_count[p] + process_frame_delay + 1
             /\ QueueAt(q, g)' = opening
  <2>1. q = p
    BY <1>2, <1>6 DEF Places
  <2>2. g = Len(closed[p]) + 2
    BY <1>2, <1>3, <1>6, <2>1 DEF Places
  <2>3. QueueAt(q, g)' = opening
    BY <1>2, <1>3, <2>1, <2>2 DEF QueueAt
  <2> QED BY <1>2, <1>4, <2>1, <2>2, <2>3, Delay
<1> QED BY <1>5, <1>6 DEF QueuesGrow, Longer, opening

\* The queue sent stays right, and the new one begins with the seed of its frame.
LEMMA CloseQueues ==
  ASSUME TypeInv, TypeInv', FramesInv, WorldInv, QueueInv, Onward, NEW p \in Peers, CloseQueue(p)
  PROVE  QueueInv'
<1> SUFFICES ASSUME NEW q \in Peers, NEW g \in Places(q)'
             PROVE  QueueRight(q, g, QueueAt(q, g))'
  BY DEF QueueInv
<1>1. CASE g \in Places(q) /\ QueueAt(q, g)' = QueueAt(q, g)
  BY <1>1, SameQueueRight
<1>2. CASE /\ q = p /\ g = frame_count[p] + process_frame_delay + 1
           /\ QueueAt(q, g)' = <<RandomSeed(p, Record(frame_count[p], seed[p]))>>
  <2>1. PICK fc : fc = frame_count[p]
    OBVIOUS
  <2>2. PICK m : m = RandomSeed(p, Record(fc, seed[p]))
    OBVIOUS
  <2>3. /\ IsSeed(m) /\ ~IsCrc(m) /\ ~IsObjects(m) /\ ~IsSave(m) /\ m.nation = p
        /\ m.record.frame = fc /\ m.record.world = seed[p]
    BY <2>2 DEF RandomSeed, Record, IsSeed, IsCrc, IsObjects, IsSave
  <2>4. fc \in Nat /\ fc >= 1
    BY <2>1 DEF TypeInv
  <2>5. world' = world /\ ~Cast!IsClosed(p)
    BY DEF CloseQueue, SendQueue, Cast!Close
  <2>6. NoFault(p, fc) => seed[p] = WorldAt(p, fc)
    <3> SUFFICES ASSUME NoFault(p, fc) PROVE seed[p] = WorldAt(p, fc)
      OBVIOUS
    <3>1. \A e \in world[p] : ~IsFault(e) /\ e[2] < fc
      BY <2>1, <2>5 DEF NoFault, WorldInv
    <3>2. seed[p] = world[p]
      BY <3>1 DEF WorldInv
    <3> QED BY <3>1, <3>2 DEF WorldAt
  <2>7. NoFault(p, fc)' <=> NoFault(p, fc)
    BY <2>5 DEF NoFault
  <2>8. WorldAt(p, fc)' = WorldAt(p, fc)
    BY <2>5 DEF WorldAt
  <2>9. fc = g - process_frame_delay - 1
    BY <1>2, <2>1, <2>4, Delay
  <2>10. SeedRight(p, g, m)'
    <3>1. NoFault(p, fc)' => m.record.world = WorldAt(p, fc)'
      BY <2>3, <2>6, <2>7, <2>8
    <3> QED BY <2>3, <2>9, <3>1 DEF SeedRight
  <2>11. process_frame_delay < g /\ (g > process_frame_delay + 1) = TRUE
    BY <1>2, <2>1, <2>4, Delay
  <2>12. MessageRight(p, g, m)'
    BY <2>3, <2>10, <2>11 DEF MessageRight, IsCrc, IsObjects, IsSave
  <2>13. PICK queue : queue = <<m>>
    OBVIOUS
  <2>14. DOMAIN queue = {1} /\ queue[1] = m
    BY <2>13
  <2>15. SeedFirst(queue, p, g > process_frame_delay + 1)
    BY <2>3, <2>11, <2>14 DEF SeedFirst
  <2>16. QueueAt(q, g)' = queue
    BY <1>2, <2>1, <2>2, <2>13
  <2>17. QueueRight(p, g, queue)'
    BY <2>12, <2>14, <2>15 DEF QueueRight
  <2> QED BY <1>2, <2>16, <2>17
<1> QED BY <1>1, <1>2, CloseGrows

-----------------------------------------------------------------------------
(* Check numbers *)

\* A message of check numbers is its record.
LEMMA CrcMessage ==
  ASSUME NEW m \in Messages, IsCrc(m)
  PROVE  m = CompareCrc(m.record) /\ m.record \in Records
<1>1. m \in [id : {"MSG_COMPARE_CRC", "MSG_COMPARE_NATION"}, record : Records]
  BY DEF Messages, IsCrc
<1> QED BY <1>1 DEF IsCrc, CompareCrc

\* What is compared is of the same frame, although the peer's own record is overwritten.
LEMMA SameFrameCrc ==
  ASSUME TypeInv, FramesInv, QueueInv, CrcInv, NEW p \in Peers, Cast!Ready(p, closed),
         NEW n \in humans[p], NEW j \in DOMAIN FrameOrdersOf(p)[n], NEW m,
         m = FrameOrdersOf(p)[n][j], TestedCrc(Before(p), m)
  PROVE  /\ sync_test_level[p] = SyncTestLevel /\ TestsCrc(SyncTestLevel)
         /\ m.record \in Records /\ m = CompareCrc(m.record)
         /\ crc_store[p].frame = m.record.frame /\ m.record.frame > 0
         /\ m.record.frame + process_frame_delay = frame_count[p]
         /\ m.record.world = WorldAt(n, m.record.frame)
<1>1. sync_test_level[p] = SyncTestLevel /\ TestsCrc(SyncTestLevel) /\ IsCrc(m)
  BY BeforeType DEF TestedCrc
<1>2. m \in Messages
  <2>1. FrameOrdersOf(p)[n] \in Queues
    BY OrdersOfFrame
  <2> QED BY <2>1 DEF Queues
<1>3. m.record \in Records /\ m = CompareCrc(m.record)
  BY <1>1, <1>2, CrcMessage
<1>4. process_frame_delay < frame_count[p] /\ CrcRight(n, frame_count[p], m)
  BY <1>1, FrameEffect DEF QueueRight, MessageRight
<1> DEFINE own == crc_store[p].frame
           frame == m.record.frame
           fc == frame_count[p]
<1>5. own \in Nat /\ frame \in Nat /\ fc \in Nat /\ process_frame_delay \in Nat
      /\ period = process_frame_delay + 3 /\ period \in Nat /\ period > 0
  BY <1>3, Delay DEF TypeInv, Records
<1>6. own <= fc /\ own % period = 0 /\ fc < own + period
  BY <1>1 DEF CrcInv
<1>7. frame = fc - process_frame_delay /\ frame % period = 0 /\ m.record.world = WorldAt(n, frame)
  BY <1>4 DEF CrcRight
<1> HIDE DEF own, frame, fc
<1>8. ~(own < frame)
  <2>1. own < frame => own + period <= frame
    BY <1>5, <1>6, <1>7, Multiples
  <2> QED BY <1>5, <1>6, <1>7, <2>1
<1>9. ~(frame < own)
  <2>1. frame < own => frame + period <= own
    BY <1>5, <1>6, <1>7, Multiples
  <2> QED BY <1>5, <1>6, <1>7, <2>1
<1>10. own = frame /\ frame > 0 /\ frame + process_frame_delay = fc
  BY <1>4, <1>5, <1>7, <1>8, <1>9 DEF fc
<1> QED BY <1>1, <1>3, <1>7, <1>10 DEF own, frame, fc

\* An error of check numbers comes from a record in the queue of a human that differs.
LEMMA CrcDifference ==
  ASSUME TypeInv, FramesInv, QueueInv, CrcInv, NEW p \in Peers, Cast!Ready(p, closed),
         CrcDiffers(Before(p), FrameOrdersOf(p), humans[p])
  PROVE  \E n \in humans[p] : \E record \in Records :
           /\ record # crc_store[p] /\ record.frame = crc_store[p].frame
           /\ record.frame > 0 /\ record.frame + process_frame_delay = frame_count[p]
           /\ SaysCrc(n, record.frame, record) /\ SaysCrc(p, record.frame, crc_store[p])
           /\ record.world = WorldAt(n, record.frame)
           /\ sync_test_level[p] = SyncTestLevel /\ TestsCrc(SyncTestLevel)
<1>1. PICK n \in humans[p] : \E j \in DOMAIN FrameOrdersOf(p)[n] :
        /\ TestedCrc(Before(p), FrameOrdersOf(p)[n][j])
        /\ FrameOrdersOf(p)[n][j].record # Before(p).crc
  BY DEF CrcDiffers
<1>2. PICK j \in DOMAIN FrameOrdersOf(p)[n] :
        /\ TestedCrc(Before(p), FrameOrdersOf(p)[n][j])
        /\ FrameOrdersOf(p)[n][j].record # Before(p).crc
  BY <1>1
<1>3. PICK m : m = FrameOrdersOf(p)[n][j]
  OBVIOUS
<1>4. /\ sync_test_level[p] = SyncTestLevel /\ TestsCrc(SyncTestLevel)
      /\ m.record \in Records /\ m = CompareCrc(m.record)
      /\ crc_store[p].frame = m.record.frame /\ m.record.frame > 0
      /\ m.record.frame + process_frame_delay = frame_count[p]
      /\ m.record.world = WorldAt(n, m.record.frame)
  BY <1>2, <1>3, SameFrameCrc
<1>5. m.record # crc_store[p]
  BY <1>2, <1>3, BeforeType
<1>6. SaysCrc(n, m.record.frame, m.record)
  <2>1. frame_count[p] \in 1 .. Len(closed[n]) /\ FrameOrdersOf(p)[n] = closed[n][frame_count[p]]
    BY OrdersOfFrame
  <2>2. m.record.frame + process_frame_delay <= Len(closed[n])
    BY <1>4, <2>1
  <2>3. FrameOrdersOf(p)[n] = closed[n][m.record.frame + process_frame_delay]
    BY <1>4, <2>1
  <2> QED BY <1>3, <1>4, <2>2, <2>3 DEF SaysCrc
<1>7. SaysCrc(p, m.record.frame, crc_store[p])
  <2>1. p \in humans[p]
    BY DEF FramesInv
  <2>2. frame_count[p] \in 1 .. Len(closed[p])
    BY <2>1, OrdersOfFrame
  <2>3. Sent(p, CompareCrc(crc_store[p]), frame_count[p])
    BY <1>4 DEF CrcInv
  <2>4. QueueAt(p, frame_count[p]) = closed[p][frame_count[p]]
    BY <2>2 DEF QueueAt
  <2> QED BY <1>4, <2>2, <2>3, <2>4 DEF SaysCrc, Sent
<1> QED BY <1>4, <1>5, <1>6, <1>7

\* While nobody is lost, the first peer to see that difference sees the first dispute.
LEMMA DisputeFound ==
  ASSUME TypeInv, FramesInv, QueueInv, CrcInv, DisputeInv, NEW p \in Peers, Cast!Ready(p, closed),
         AllHuman, CrcDiffers(Before(p), FrameOrdersOf(p), humans[p])
  PROVE  FirstDispute(crc_store[p].frame)
<1> DEFINE frame == crc_store[p].frame
<1>1. PICK n \in humans[p], record \in Records :
           /\ record # crc_store[p] /\ record.frame = frame
           /\ frame > 0 /\ frame + process_frame_delay = frame_count[p]
           /\ SaysCrc(n, frame, record) /\ SaysCrc(p, frame, crc_store[p])
           /\ sync_test_level[p] = SyncTestLevel /\ TestsCrc(SyncTestLevel)
  BY CrcDifference
<1>2. crc_store[p] \in Records /\ n \in Peers /\ frame \in Nat
  BY DEF TypeInv, Records
<1>3. Disputed(frame)
  BY <1>1, <1>2 DEF Disputed
<1>4. Decided(frame)
  <2>1. \A q \in Peers : frame_count[p] <= Len(closed[q])
    BY DEF Cast!Ready, AllHuman
  <2> QED BY <1>1, <2>1 DEF Decided
<1>5. ASSUME NEW s \in 1 .. frame - 1
      PROVE  ~Disputed(s)
  <2>1. s \in Nat \ {0} /\ s + process_frame_delay < frame_count[p]
    BY <1>1, <1>2, Delay
  <2> QED BY <1>1, <2>1 DEF DisputeInv
<1> QED BY <1>3, <1>4, <1>5 DEF FirstDispute

\* What a frame puts in the queue that is being filled
LEMMA Replies ==
  ASSUME TypeInv, FramesInv, QueueInv, CrcInv, NEW p \in Peers, Cast!Ready(p, closed),
         NEW k \in DOMAIN Executed(p).reply
  PROVE  /\ Executed(p).reply[k] = CompareObjects(crc_store[p])
         /\ CrcDiffers(Before(p), FrameOrdersOf(p), humans[p])
         /\ sync_test_level[p] = SyncTestLevel
<1>1. /\ Before(p).reply = <<>> /\ Before(p).crc = crc_store[p]
      /\ Before(p).level = sync_test_level[p]
  BY BeforeType
<1>2. /\ Executed(p).reply[k] = CompareObjects(crc_store[p])
      /\ Executed(p).level = CrcError /\ sync_test_level[p] = SyncTestLevel
  BY <1>1, FrameEffect DEF AfterAll
<1>3. CrcDiffers(Before(p), FrameOrdersOf(p), humans[p])
  <2>1. SyncTestLevel # CrcError
    BY ErrorsAreNegative
  <2> QED BY <1>1, <1>2, <2>1, FrameEffect DEF AfterAll
<1> QED BY <1>2, <1>3

\* The record of a frame is the world at its end.
LEMMA WorldRecorded ==
  ASSUME TypeInv, TypeInv', WorldInv, NEW p \in Peers, NEW frame, frame = frame_count[p] + 1, world' = world
  PROVE  WorldAt(p, frame)' = world[p]
<1>1. \A e \in world[p] : e[2] \in Nat /\ e[2] <= frame_count[p]
  BY EventParts DEF WorldInv, TypeInv
<1>2. frame_count[p] \in Nat
  BY DEF TypeInv
<1>3. \A e \in world[p] : e[2] < frame
  BY <1>1, <1>2
<1> QED BY <1>3 DEF WorldAt

\* The element appended is the last.
LEMMA LastJoined ==
  ASSUME NEW b \in Seq(Messages), NEW c \in Seq(Messages)
  PROVE  Len(c) = 1 => Len(b) + 1 \in DOMAIN (b \o c) /\ (b \o c)[Len(b) + 1] = c[1]
<1>1. /\ Len(b \o c) = Len(b) + Len(c) /\ Len(b) \in Nat
      /\ b \o c \in Seq(Messages)
      /\ \A i \in 1 .. Len(b) + Len(c) : (b \o c)[i] = IF i <= Len(b) THEN b[i] ELSE c[i - Len(b)]
  OBVIOUS
<1> SUFFICES ASSUME Len(c) = 1
             PROVE  Len(b) + 1 \in DOMAIN (b \o c) /\ (b \o c)[Len(b) + 1] = c[1]
  OBVIOUS
<1>2. DOMAIN (b \o c) = 1 .. Len(b) + 1
  BY <1>1
<1>3. Len(b) + 1 \in 1 .. Len(b) + Len(c) /\ ~(Len(b) + 1 <= Len(b)) /\ Len(b) + 1 - Len(b) = 1
  BY <1>1
<1> QED BY <1>1, <1>2, <1>3

\* A frame puts the replies and its record in the open queue.
LEMMA FrameSays ==
  ASSUME TypeInv, NEW p \in Peers, ProcessFrame(p)
  PROVE  /\ Said(p) \in Queues /\ open' = [open EXCEPT ![p] = open[p] \o Said(p)]
         /\ \A k \in DOMAIN Said(p) :
              \/ \E l \in DOMAIN Executed(p).reply : Said(p)[k] = Executed(p).reply[l]
              \/ RecordsThen(p) /\ Said(p)[k] = CompareCrc(RecordOf(p))
         /\ RecordsThen(p) => \E k \in DOMAIN Said(p) : Said(p)[k] = CompareCrc(RecordOf(p))
<1> DEFINE own == IF RecordsThen(p) THEN <<CompareCrc(RecordOf(p))>> ELSE <<>>
           reply == Executed(p).reply
<1>1. reply \in Seq(Messages) /\ open[p] \in Seq(Messages)
  BY ExecutedType, FrameDone DEF States, Queues, TypeInv
<1>2. own \in Seq(Messages)
  BY RecordType
<1>3. open' = [open EXCEPT ![p] = open[p] \o Said(p)] /\ Said(p) = reply \o own
  BY FrameDone DEF Said
<1>4. \A k \in DOMAIN own : RecordsThen(p) /\ own[k] = CompareCrc(RecordOf(p))
  OBVIOUS
<1>5. RecordsThen(p) => Len(own) = 1 /\ own[1] = CompareCrc(RecordOf(p))
  OBVIOUS
<1> HIDE DEF own, reply
<1>7. reply \o own \in Queues
  BY <1>1, <1>2 DEF Queues
<1>8. ASSUME NEW k \in DOMAIN (reply \o own)
      PROVE  \/ \E l \in DOMAIN reply : (reply \o own)[k] = reply[l]
             \/ \E l \in DOMAIN own : (reply \o own)[k] = own[l]
  BY <1>1, <1>2, Extended DEF Queues
<1>9. RecordsThen(p) => \E k \in DOMAIN (reply \o own) : (reply \o own)[k] = CompareCrc(RecordOf(p))
  <2>1. Len(own) = 1 => Len(reply) + 1 \in DOMAIN (reply \o own) /\ (reply \o own)[Len(reply) + 1] = own[1]
    BY <1>1, <1>2, LastJoined
  <2> QED BY <1>5, <2>1
<1> QED BY <1>3, <1>4, <1>7, <1>8, <1>9 DEF reply

\* A peer has sent the queues up to the delay, but for the last one at most.
LEMMA Reach ==
  ASSUME TypeInv, FramesInv, NEW p \in Peers
  PROVE  /\ Len(closed[p]) \in Nat /\ frame_count[p] \in Nat /\ frame_count[p] >= 1
         /\ frame_count[p] + process_frame_delay <= Len(closed[p]) + 1
         /\ Len(closed[p]) <= frame_count[p] + process_frame_delay
<1>1. Len(closed[p]) \in Nat /\ frame_count[p] \in Nat /\ frame_count[p] >= 1
  BY DEF TypeInv
<1>2. \/ Len(closed[p]) = frame_count[p] + process_frame_delay - 1
      \/ Len(closed[p]) = frame_count[p] + process_frame_delay
  BY DEF FramesInv
<1>3. process_frame_delay \in Nat
  BY Delay
<1> QED BY <1>1, <1>2, <1>3

\* A frame keeps all queues right.
LEMMA FrameQueues ==
  ASSUME TypeInv, TypeInv', FramesInv, WorldInv, QueueInv, CrcInv, DisputeInv, Onward,
         NEW p \in Peers, ProcessFrame(p)
  PROVE  QueuesGrow /\ QueueInv'
<1>1. /\ Cast!Ready(p, closed) /\ closed' = closed /\ world' = world /\ humans' = humans
      /\ frame_count' = [frame_count EXCEPT ![p] = frame_count[p] + 1]
  BY FrameDone
<1>2. PICK extra \in Queues : extra = Said(p)
  BY FrameSays
<1>3. open' = [open EXCEPT ![p] = open[p] \o extra]
  BY <1>2, FrameSays
<1>4. PICK g \in Nat : g = Len(closed[p]) + 1
  BY DEF TypeInv
<1>5. PICK fc \in Nat : fc = frame_count[p] /\ fc >= 1
  BY DEF TypeInv
<1>6. g = fc + process_frame_delay + 1 /\ process_frame_delay < g /\ frame_count'[p] = fc + 1
  BY <1>1, <1>4, <1>5, Delay DEF Cast!Ready, TypeInv
<1>7. ASSUME NEW m, m = CompareObjects(crc_store[p]),
             CrcDiffers(Before(p), FrameOrdersOf(p), humans[p])
      PROVE  ~IsSeed(m) /\ MessageRight(p, g, m)'
  <2>1. /\ IsObjects(m) /\ ~IsSeed(m) /\ ~IsCrc(m) /\ ~IsSave(m) /\ m.record = crc_store[p]
    BY <1>7 DEF CompareObjects, IsSeed, IsCrc, IsObjects, IsSave
  <2>2. PICK frame \in Nat : frame = m.record.frame
    BY <2>1 DEF TypeInv, Records
  <2>3. frame > 0 /\ frame + process_frame_delay = fc /\ TestsCrc(SyncTestLevel)
    BY <1>1, <1>5, <1>7, <2>1, <2>2, CrcDifference
  <2>4. AllHuman' => FirstDispute(frame)'
    <3>1. AllHuman' => FirstDispute(frame)
      BY <1>1, <1>7, <2>1, <2>2, AllStayHuman, DisputeFound
    <3> QED BY <2>3, <3>1, FirstDisputeStays
  <2>5. g = frame + process_frame_delay + process_frame_delay + 1
    BY <1>6, <2>3, Delay
  <2>6. ObjectsRight(g, m)'
    BY <2>2, <2>3, <2>4, <2>5 DEF ObjectsRight
  <2> QED BY <1>6, <2>1, <2>6 DEF MessageRight
<1>8. ASSUME NEW m, m = CompareCrc(RecordOf(p)), RecordsThen(p)
      PROVE  ~IsSeed(m) /\ MessageRight(p, g, m)'
  <2>1. /\ IsCrc(m) /\ ~IsSeed(m) /\ ~IsObjects(m) /\ ~IsSave(m) /\ m.record = RecordOf(p)
    BY <1>8 DEF CompareCrc, IsSeed, IsCrc, IsObjects, IsSave
  <2>2. m.record.frame = fc + 1 /\ m.record.world = world[p]
    BY <1>5, <2>1, RecordType
  <2>3. PICK frame : frame = m.record.frame
    OBVIOUS
  <2>4. WorldAt(p, frame)' = world[p]
    BY <1>1, <1>5, <2>2, <2>3, WorldRecorded
  <2>5. frame % period = 0
    BY <1>5, <1>8, <2>2, <2>3 DEF RecordsThen, RecordsCrc
  <2>6. frame = g - process_frame_delay /\ frame <= frame_count'[p]
    BY <1>6, <2>2, <2>3, Delay
  <2>7. CrcRight(p, g, m)'
    BY <2>2, <2>3, <2>4, <2>5, <2>6 DEF CrcRight
  <2> QED BY <1>6, <2>1, <2>7 DEF MessageRight
<1>9. ASSUME NEW k \in DOMAIN extra
      PROVE  ~IsSeed(extra[k]) /\ MessageRight(p, g, extra[k])'
  <2>1. PICK m : m = extra[k]
    OBVIOUS
  <2>2. \/ m = CompareObjects(crc_store[p]) /\ CrcDiffers(Before(p), FrameOrdersOf(p), humans[p])
        \/ m = CompareCrc(RecordOf(p)) /\ RecordsThen(p)
    <3>1. \/ \E l \in DOMAIN Executed(p).reply : m = Executed(p).reply[l]
          \/ m = CompareCrc(RecordOf(p)) /\ RecordsThen(p)
      BY <1>2, <2>1, FrameSays
    <3> QED BY <1>1, <3>1, Replies
  <2>3. ~IsSeed(m) /\ MessageRight(p, g, m)'
    BY <1>7, <1>8, <2>2
  <2> QED BY <2>1, <2>3
<1>10. \A k \in DOMAIN extra : MessageRight(p, Len(closed[p]) + 1, extra[k])'
  <2>1. g = Len(closed'[p]) + 1
    BY <1>1, <1>4
  <2> QED BY <1>9, <2>1
<1> QED BY <1>1, <1>3, <1>9, <1>10, OpenGrows, OpenStaysRight

\* A request to save is in time for the frame it will be executed in.
LEMMA SaveQueues ==
  ASSUME TypeInv, TypeInv', FramesInv, QueueInv, Onward, NEW p \in Peers, save_game(p)
  PROVE  QueuesGrow /\ QueueInv'
<1>1. PICK m : m = RequestSave(frame_count[p] + SaveOffset)
  OBVIOUS
<1>2. open' = [open EXCEPT ![p] = Append(open[p], m)] /\ closed' = closed
  BY <1>1 DEF save_game, Cast!Issue
<1>3. m \in Messages /\ IsSave(m) /\ ~IsSeed(m) /\ ~IsCrc(m) /\ ~IsObjects(m)
      /\ m.frame = frame_count[p] + SaveOffset
  <2>1. frame_count[p] + SaveOffset \in Nat
    BY Delay DEF TypeInv, SaveOffset
  <2> QED BY <1>1, <2>1 DEF RequestSave, Messages, IsSave, IsSeed, IsCrc, IsObjects
<1>4. PICK extra : extra = <<m>>
  OBVIOUS
<1>5. extra \in Queues /\ Append(open[p], m) = open[p] \o extra
      /\ \A k \in DOMAIN extra : extra[k] = m
  <2>1. open[p] \in Seq(Messages) 
    BY DEF TypeInv, Queues
  <2> QED BY <1>3, <1>4, <2>1, AppendIsConcat DEF Queues
<1>6. /\ process_frame_delay < Len(closed'[p]) + 1
      /\ m.frame > Len(closed'[p]) + 1
  <2>1. frame_count[p] \in Nat /\ frame_count[p] >= 1 /\ Len(closed[p]) \in Nat
    BY DEF TypeInv
  <2>2. \/ Len(closed[p]) = frame_count[p] + process_frame_delay - 1
        \/ Len(closed[p]) = frame_count[p] + process_frame_delay
    BY DEF FramesInv
  <2> QED BY <1>2, <1>3, <2>1, <2>2, Delay DEF SaveOffset
<1>7. \A k \in DOMAIN extra : ~IsSeed(extra[k]) /\ MessageRight(p, Len(closed[p]) + 1, extra[k])'
  BY <1>3, <1>5, <1>6 DEF MessageRight
<1>8. open' = [open EXCEPT ![p] = open[p] \o extra]
  BY <1>2, <1>5
<1> QED BY <1>2, <1>5, <1>7, <1>8, OpenGrows, OpenStaysRight

\* The notice of a player who quits is right.
LEMMA QuitQueues ==
  ASSUME TypeInv, TypeInv', FramesInv, QueueInv, Onward, NEW p \in Peers, Quit(p)
  PROVE  QueuesGrow /\ QueueInv'
<1>1. PICK m : m = PlayerQuit(p)
  OBVIOUS
<1>2. open' = [open EXCEPT ![p] = Append(open[p], m)] /\ closed' = closed
  BY <1>1 DEF Quit, Cast!Issue
<1>3. m \in Messages /\ ~IsSave(m) /\ ~IsSeed(m) /\ ~IsCrc(m) /\ ~IsObjects(m)
  BY <1>1 DEF PlayerQuit, Messages, IsSave, IsSeed, IsCrc, IsObjects
<1>4. PICK extra : extra = <<m>>
  OBVIOUS
<1>5. extra \in Queues /\ Append(open[p], m) = open[p] \o extra
      /\ \A k \in DOMAIN extra : extra[k] = m
  <2>1. open[p] \in Seq(Messages) 
    BY DEF TypeInv, Queues
  <2> QED BY <1>3, <1>4, <2>1, AppendIsConcat DEF Queues
<1>6. process_frame_delay < Len(closed'[p]) + 1
  <2>1. frame_count[p] \in Nat /\ frame_count[p] >= 1 /\ Len(closed[p]) \in Nat
    BY DEF TypeInv
  <2>2. \/ Len(closed[p]) = frame_count[p] + process_frame_delay - 1
        \/ Len(closed[p]) = frame_count[p] + process_frame_delay
    BY DEF FramesInv
  <2> QED BY <1>2, <2>1, <2>2, Delay
<1>7. \A k \in DOMAIN extra : ~IsSeed(extra[k]) /\ MessageRight(p, Len(closed[p]) + 1, extra[k])'
  BY <1>3, <1>5, <1>6 DEF MessageRight
<1>8. open' = [open EXCEPT ![p] = open[p] \o extra]
  BY <1>2, <1>5
<1> QED BY <1>2, <1>5, <1>7, <1>8, OpenGrows, OpenStaysRight

\* Every step keeps all queues right.
LEMMA QueueStep ==
  ASSUME TypeInv, TypeInv', FramesInv, WorldInv, QueueInv, CrcInv, DisputeInv, Onward, [Next]_vars
  PROVE  QueuesGrow /\ QueueInv'
<1>1. CASE UNCHANGED vars
  BY <1>1, SameOpenRight DEF vars, castVars
<1>2. ASSUME NEW p \in Peers, NEW n \in Peers, TakeOver(p, n)
      PROVE  QueuesGrow /\ QueueInv'
  <2>1. closed' = closed /\ open' = open
    BY <1>2 DEF TakeOver
  <2> QED BY <2>1, SameOpenRight
<1>3. ASSUME NEW p \in Peers, Diverge(p) \/ SeedFollows(p)
      PROVE  QueuesGrow /\ QueueInv'
  <2>1. closed' = closed /\ open' = open
    BY <1>3 DEF Diverge, SeedFollows, castVars
  <2> QED BY <2>1, SameOpenRight
<1>4. ASSUME NEW p \in Peers, CloseQueue(p)
      PROVE  QueuesGrow /\ QueueInv'
  BY <1>4, CloseGrows, CloseQueues
<1> QED BY <1>1, <1>2, <1>3, <1>4, FrameQueues, SaveQueues, QuitQueues DEF Next

\* The queues are right at the start.
LEMMA InitQueues == Init => QueueInv
<1> SUFFICES ASSUME Init, NEW p \in Peers, NEW g \in Places(p)
             PROVE  QueueRight(p, g, QueueAt(p, g))
  BY DEF QueueInv
<1>1. closed[p] = [f \in 1 .. process_frame_delay |-> <<>>] /\ open[p] = <<>>
  BY DEF Init, Cast!Init
<1>2. Len(closed[p]) = process_frame_delay
  BY <1>1, Delay
<1>3. QueueAt(p, g) = <<>> /\ ~(g > process_frame_delay + 1)
  BY <1>1, <1>2, Delay DEF Places, QueueAt
<1>4. DOMAIN <<>> = {}
  OBVIOUS
<1> QED BY <1>3, <1>4 DEF QueueRight, SeedFirst

-----------------------------------------------------------------------------
(* The record a peer compares with *)

\* The first record is right.
LEMMA InitCrc == Init => CrcInv
<1> SUFFICES ASSUME Init, NEW p \in Peers
             PROVE  LET frame == crc_store[p].frame IN
                      /\ frame <= frame_count[p] /\ frame % period = 0
                      /\ crc_store[p].world = WorldAt(p, frame)
                      /\ frame > 0 => Sent(p, CompareCrc(crc_store[p]), frame + process_frame_delay)
                      /\ sync_test_level[p] = SyncTestLevel /\ TestsCrc(SyncTestLevel) =>
                           frame_count[p] < frame + period
  BY DEF CrcInv
<1>1. crc_store[p].frame = 0 /\ crc_store[p].world = {} /\ frame_count[p] = 1 /\ world[p] = {}
  BY DEF Init, Cast!Init, Record
<1>2. 0 % period = 0 /\ 1 < 0 + period
  BY Delay
<1>3. WorldAt(p, 0) = {}
  BY <1>1 DEF WorldAt
<1> QED BY <1>1, <1>2, <1>3

CrcRecordRight(p, record) ==
  /\ record.frame <= frame_count[p] /\ record.frame % period = 0
  /\ record.world = WorldAt(p, record.frame)
  /\ record.frame > 0 => Sent(p, CompareCrc(record), record.frame + process_frame_delay)

\* A record stays what was true and was sent.
LEMMA RecordStays ==
  ASSUME TypeInv, TypeInv', FramesInv, Onward, QueuesGrow, NEW p \in Peers,
         NEW record \in Records, CrcRecordRight(p, record)
  PROVE  CrcRecordRight(p, record)'
<1>1. PICK frame \in Nat : frame = record.frame
  BY DEF Records
<1>2. WorldAt(p, frame)' = WorldAt(p, frame) /\ frame <= frame_count'[p]
  BY <1>1, WorldStays DEF CrcRecordRight
<1>3. PICK m : m = CompareCrc(record)
  OBVIOUS
<1>4. ASSUME frame > 0
      PROVE  Sent(p, m, frame + process_frame_delay)'
  <2>1. PICK g : g = frame + process_frame_delay
    OBVIOUS
  <2>2. /\ frame_count[p] \in Nat /\ Len(closed[p]) \in Nat
        /\ frame_count[p] + process_frame_delay <= Len(closed[p]) + 1
    BY Reach
  <2>3. g \in Places(p)
    <3>1. frame <= frame_count[p]
      BY <1>1 DEF CrcRecordRight
    <3>2. g \in Nat /\ 1 <= g /\ g <= Len(closed[p]) + 1
      BY <1>4, <2>1, <2>2, <3>1, Delay
    <3> QED BY <2>2, <3>2 DEF Places
  <2>4. Sent(p, m, g)
    BY <1>1, <1>3, <1>4, <2>1 DEF CrcRecordRight
  <2>5. Sent(p, m, g)'
    BY <2>3, <2>4 DEF Sent, QueuesGrow, Longer
  <2> QED BY <2>1, <2>5
<1> QED BY <1>1, <1>2, <1>3, <1>4 DEF CrcRecordRight

\* The record of a peer is the last multiple of the period, as long as it is to be compared.
LEMMA CrcStep ==
  ASSUME TypeInv, TypeInv', FramesInv, WorldInv, QueueInv, CrcInv, DisputeInv, Onward, QueuesGrow,
         [Next]_vars
  PROVE  CrcInv'
<1> DEFINE Latest(p) == sync_test_level[p] = SyncTestLevel /\ TestsCrc(SyncTestLevel) =>
                          frame_count[p] < crc_store[p].frame + period
<1>1. CrcInv <=> \A q \in Peers : CrcRecordRight(q, crc_store[q]) /\ Latest(q)
  BY DEF CrcInv, CrcRecordRight
<1>2. CrcInv' <=> \A q \in Peers : CrcRecordRight(q, crc_store[q])' /\ Latest(q)'
  BY DEF CrcInv, CrcRecordRight
<1>3. ASSUME NEW q \in Peers, crc_store'[q] = crc_store[q]
      PROVE  CrcRecordRight(q, crc_store[q])'
  <2>1. PICK record \in Records : record = crc_store[q]
    BY DEF TypeInv
  <2>2. CrcRecordRight(q, record)'
    BY <1>1, <2>1, RecordStays
  <2> QED BY <1>3, <2>1, <2>2
<1>4. ASSUME UNCHANGED <<crc_store, sync_test_level, frame_count>>
      PROVE  CrcInv'
  BY <1>1, <1>2, <1>3, <1>4
<1>5. ASSUME NEW p \in Peers, ProcessFrame(p)
      PROVE  CrcInv'
  <2>1. /\ Cast!Ready(p, closed) /\ world' = world
        /\ frame_count' = [frame_count EXCEPT ![p] = frame_count[p] + 1]
        /\ sync_test_level' = [sync_test_level EXCEPT ![p] = Executed(p).level]
        /\ crc_store' = [crc_store EXCEPT ![p] = IF RecordsThen(p) THEN RecordOf(p) ELSE crc_store[p]]
    BY <1>5, FrameDone
  <2>2. /\ frame_count'[p] = frame_count[p] + 1 /\ sync_test_level'[p] = Executed(p).level
        /\ crc_store'[p] = IF RecordsThen(p) THEN RecordOf(p) ELSE crc_store[p]
        /\ frame_count[p] \in Nat /\ period \in Nat /\ period > 0 /\ crc_store[p].frame \in Nat
    BY <2>1, Delay DEF TypeInv, Records
  <2>3. ASSUME NEW q \in Peers, q # p
        PROVE  /\ frame_count'[q] = frame_count[q] /\ sync_test_level'[q] = sync_test_level[q]
               /\ crc_store'[q] = crc_store[q]
    BY <2>1, <2>3 DEF TypeInv
  <2>4. CASE RecordsThen(p)
    <3>1. PICK record : record = RecordOf(p)
      OBVIOUS
    <3>2. record.frame = frame_count[p] + 1 /\ record.world = world[p] /\ crc_store'[p] = record
      BY <2>2, <2>4, <3>1, RecordType
    <3>3. PICK frame : frame = frame_count[p] + 1
      OBVIOUS
    <3>4. WorldAt(p, frame)' = world[p]
      BY <2>1, <3>3, WorldRecorded
    <3>5. frame % period = 0
      BY <2>4, <3>3 DEF RecordsThen, RecordsCrc
    <3>6. Sent(p, CompareCrc(record), frame + process_frame_delay)'
      <4>1. PICK g : g = frame + process_frame_delay
        OBVIOUS
      <4>2. g = Len(closed[p]) + 1 /\ ~(g <= Len(closed[p])) /\ closed' = closed
        <5>1. Len(closed[p]) = frame_count[p] + process_frame_delay /\ closed' = closed
          BY <1>5, <2>1, FrameDone DEF Cast!Ready
        <5> QED BY <2>2, <3>3, <4>1, <5>1, Delay
      <4>3. QueueAt(p, g)' = open[p] \o Said(p) /\ open[p] \in Queues /\ Said(p) \in Queues
        <5>1. Said(p) \in Queues /\ open' = [open EXCEPT ![p] = open[p] \o Said(p)]
          BY <1>5, FrameSays
        <5>2. open'[p] = open[p] \o Said(p) /\ open[p] \in Queues
          BY <5>1 DEF TypeInv
        <5> QED BY <4>2, <5>1, <5>2 DEF QueueAt
      <4>4. PICK k \in DOMAIN Said(p) : Said(p)[k] = CompareCrc(record)
        BY <1>5, <2>4, <3>1, FrameSays
      <4>5. \E i \in DOMAIN (open[p] \o Said(p)) : (open[p] \o Said(p))[i] = CompareCrc(record)
        <5>1. PICK a \in Queues : a = open[p]
          BY <4>3
        <5>2. PICK b \in Queues : b = Said(p)
          BY <4>3
        <5>3. /\ Len(a) + k \in DOMAIN (a \o b) /\ (a \o b)[Len(a) + k] = b[k]
          BY <4>4, <5>1, <5>2 DEF Queues
        <5> QED BY <4>4, <5>1, <5>2, <5>3
      <4> QED BY <4>1, <4>3, <4>5 DEF Sent
    <3>7. CrcRecordRight(p, crc_store[p])'
      BY <2>2, <3>2, <3>3, <3>4, <3>5, <3>6 DEF CrcRecordRight
    <3>8. Latest(p)'
      BY <2>2, <3>2
    <3> QED BY <1>1, <1>2, <1>3, <2>3, <3>7, <3>8
  <2>5. CASE ~RecordsThen(p)
    <3>1. crc_store'[p] = crc_store[p]
      BY <2>2, <2>5
    <3>2. ASSUME sync_test_level'[p] = SyncTestLevel, TestsCrc(SyncTestLevel)
          PROVE  frame_count'[p] < crc_store[p].frame + period
      <4>1. Executed(p).level = SyncTestLevel
        BY <2>2, <3>2
      <4>2. sync_test_level[p] = SyncTestLevel
        <5>1. LevelFrom(Before(p), Executed(p))
          BY <2>1, FrameEffect DEF AfterAll
        <5>2. SyncTestLevel >= 0 /\ SyncTestLevel \in Int /\ Before(p).level = sync_test_level[p]
          BY ErrorsAreNegative, BeforeType
        <5> QED BY <4>1, <5>1, <5>2 DEF LevelFrom
      <4>3. (frame_count[p] + 1) % period # 0
        BY <2>5, <3>2, <4>1 DEF RecordsThen, RecordsCrc
      <4>4. frame_count[p] < crc_store[p].frame + period /\ crc_store[p].frame % period = 0
        BY <3>2, <4>2 DEF CrcInv
      <4>5. (crc_store[p].frame + period) % period = 0
        BY <2>2, <4>4, NextMultiple
      <4> QED BY <2>2, <4>3, <4>4, <4>5
    <3>3. Latest(p)'
      BY <3>1, <3>2
    <3> QED BY <1>1, <1>2, <1>3, <2>3, <3>1, <3>3
  <2> QED BY <2>4, <2>5
<1>6. CASE UNCHANGED vars
  BY <1>4, <1>6 DEF vars, castVars, checkVars
<1>7. ASSUME NEW p \in Peers,
             \/ CloseQueue(p) \/ save_game(p) \/ Quit(p) \/ Diverge(p) \/ SeedFollows(p)
             \/ \E n \in Peers : TakeOver(p, n)
      PROVE  CrcInv'
  <2>1. UNCHANGED <<crc_store, sync_test_level, frame_count>>
    BY <1>7 DEF CloseQueue, save_game, Quit, Diverge, SeedFollows, TakeOver, Cast!TakeOver, Cast!Issue,
                castVars, checkVars
  <2> QED BY <1>4, <2>1
<1> QED BY <1>5, <1>6, <1>7 DEF Next

-----------------------------------------------------------------------------
(* Alarms *)

\* The level changes by an error only, and an error stays.
LEMMA LevelOnward ==
  ASSUME TypeInv, FramesInv, QueueInv, NEW p \in Peers, Cast!Ready(p, closed)
  PROVE  /\ Executed(p).level \in Levels /\ sync_test_level[p] \in Levels
         /\ Executed(p).level # sync_test_level[p] =>
              sync_test_level[p] = SyncTestLevel /\ Executed(p).level < 0
<1>1. LevelFrom(Before(p), Executed(p)) /\ Before(p).level = sync_test_level[p]
  BY FrameEffect, BeforeType DEF AfterAll
<1>2. Executed(p).level \in Levels /\ sync_test_level[p] \in Levels
  BY ExecutedType DEF States, TypeInv
<1> QED BY <1>1, <1>2 DEF LevelFrom

\* Seeds of two players that differ show worlds that differ.
LEMMA SeedsApart ==
  ASSUME TypeInv, WorldInv, NEW m \in Peers, NEW n \in Peers, m # n, NEW f \in Nat,
         NEW a \in Messages, NEW b \in Messages, IsSeed(a), IsSeed(b),
         SeedRight(m, f, a), SeedRight(n, f, b), a.record # b.record
  PROVE  WorldAt(m, f - process_frame_delay) # WorldAt(n, f - process_frame_delay)
<1> SUFFICES ASSUME WorldAt(m, f - process_frame_delay) = WorldAt(n, f - process_frame_delay)
             PROVE  FALSE
  OBVIOUS
<1>1. PICK frame : frame = f - process_frame_delay - 1
  OBVIOUS
<1>2. frame \in Int /\ f - process_frame_delay = frame + 1
  BY <1>1, Delay
<1>3. a.record \in Records /\ b.record \in Records
  BY MessageKinds
<1>4. /\ a.record.frame = frame /\ b.record.frame = frame
      /\ NoFault(m, frame) => a.record.world = WorldAt(m, frame)
      /\ NoFault(n, frame) => b.record.world = WorldAt(n, frame)
  BY <1>1 DEF SeedRight
<1>5. \A q \in Peers : \A e \in world[q] : e[2] \in Nat /\ (IsFault(e) => e[3] = q)
  BY EventParts DEF TypeInv, WorldInv
<1>6. WorldAt(m, frame + 1) = WorldAt(n, frame + 1)
  BY <1>2
<1>7. \A e : e \in world[m] /\ e[2] < frame + 1 <=> e \in world[n] /\ e[2] < frame + 1
  BY <1>6 DEF WorldAt
<1>8. \A k \in Nat : (k <= frame => k < frame + 1) /\ (k < frame => k < frame + 1)
  BY <1>2
<1>9. NoFault(m, frame)
  BY <1>5, <1>7, <1>8 DEF NoFault
<1>10. NoFault(n, frame)
  BY <1>5, <1>7, <1>8 DEF NoFault
<1>11. WorldAt(m, frame) = WorldAt(n, frame)
  BY <1>5, <1>7, <1>8 DEF WorldAt
<1>12. a.record.frame = b.record.frame /\ a.record.world = b.record.world
  BY <1>4, <1>9, <1>10, <1>11
<1> QED BY <1>3, <1>12 DEF Records

\* A difference found in a frame is one between the worlds of two humans.
LEMMA AlarmFound ==
  ASSUME TypeInv, FramesInv, WorldInv, QueueInv, CrcInv, NEW p \in Peers, Cast!Ready(p, closed),
         Executed(p).level < 0, ~(sync_test_level[p] < 0)
  PROVE  \E m, n \in humans[p] : WorldAt(m, frame_count[p] - process_frame_delay)
                                   # WorldAt(n, frame_count[p] - process_frame_delay)
<1> DEFINE orders == FrameOrdersOf(p)
           seeded == frame_count[p] > process_frame_delay + 1
           fc == frame_count[p]
<1>1. /\ Executed(p).level = SeedError \/ Executed(p).level = CrcError
      /\ sync_test_level[p] # SeedError /\ sync_test_level[p] # CrcError
  BY LevelOnward, ErrorsAreNegative DEF Levels
<1>2. /\ Executed(p).level = SeedError => SeedsDiffer(orders, humans[p], seeded)
      /\ Executed(p).level = CrcError => CrcDiffers(Before(p), orders, humans[p])
  BY <1>1, FrameEffect, BeforeType DEF AfterAll
<1>3. fc \in Nat /\ humans[p] \in SUBSET Peers /\ p \in humans[p]
  BY DEF TypeInv, FramesInv
<1>4. CASE Executed(p).level = SeedError
  <2>1. seeded /\ \E m, n \in humans[p] : m # n /\ orders[m][1].record # orders[n][1].record
    BY <1>2, <1>4 DEF SeedsDiffer
  <2>2. PICK m, n \in humans[p] : m # n /\ orders[m][1].record # orders[n][1].record
    BY <2>1
  <2>3. ASSUME NEW q \in humans[p]
        PROVE  /\ orders[q][1] \in Messages /\ IsSeed(orders[q][1])
               /\ SeedRight(q, fc, orders[q][1])
    <3>1. orders[q] \in Queues /\ QueueRight(q, fc, orders[q])
      BY OrdersOfFrame, FrameEffect
    <3>2. 1 \in DOMAIN orders[q] /\ IsSeed(orders[q][1]) /\ MessageRight(q, fc, orders[q][1])
      BY <2>1, <3>1 DEF QueueRight, SeedFirst
    <3>3. orders[q][1] \in Messages
      BY <3>1, <3>2 DEF Queues
    <3> QED BY <3>2, <3>3 DEF MessageRight
  <2>4. WorldAt(m, fc - process_frame_delay) # WorldAt(n, fc - process_frame_delay)
    <3>1. PICK a : a = orders[m][1]
      OBVIOUS
    <3>2. PICK b : b = orders[n][1]
      OBVIOUS
    <3>3. PICK f : f = fc
      OBVIOUS
    <3>4. /\ a \in Messages /\ b \in Messages /\ IsSeed(a) /\ IsSeed(b)
          /\ SeedRight(m, f, a) /\ SeedRight(n, f, b) /\ a.record # b.record
      BY <2>2, <2>3, <3>1, <3>2, <3>3
    <3>5. m \in Peers /\ n \in Peers /\ f \in Nat
      BY <1>3, <3>3
    <3> QED BY <2>2, <3>3, <3>4, <3>5, SeedsApart
  <2> QED BY <2>4
<1>5. CASE Executed(p).level = CrcError
  <2>1. PICK n \in humans[p], record \in Records :
           /\ record # crc_store[p] /\ record.frame = crc_store[p].frame
           /\ record.frame + process_frame_delay = fc
           /\ record.world = WorldAt(n, record.frame)
    BY <1>2, <1>5, CrcDifference
  <2>2. crc_store[p] \in Records /\ crc_store[p].world = WorldAt(p, crc_store[p].frame)
    BY DEF TypeInv, CrcInv
  <2>3. WorldAt(n, record.frame) # WorldAt(p, record.frame)
    BY <2>1, <2>2 DEF Records
  <2>4. record.frame = fc - process_frame_delay
    <3>1. record.frame \in Nat
      BY DEF Records
    <3> QED BY <1>3, <2>1, <3>1, Delay
  <2> QED BY <1>3, <2>3, <2>4
<1> QED BY <1>1, <1>4, <1>5

\* The history of executed orders only grows.
LEMMA ExecutedStays ==
  ASSUME TypeInv, [Next]_vars, NEW p \in Peers, NEW f \in DOMAIN executed[p]
  PROVE  f \in DOMAIN executed'[p] /\ executed'[p][f] = executed[p][f]
<1>1. executed[p] \in Seq(FrameOrders)
  BY DEF TypeInv
<1>2. ASSUME NEW q \in Peers, ProcessFrame(q)
      PROVE  f \in DOMAIN executed'[p] /\ executed'[p][f] = executed[p][f]
  <2>1. executed' = [executed EXCEPT ![q] = Append(executed[q], FrameOrdersOf(q))]
    BY <1>2, FrameDone
  <2>2. CASE p = q
    <3>1. executed'[p] = Append(executed[p], FrameOrdersOf(p))
      BY <2>1, <2>2 DEF TypeInv
    <3> QED BY <1>1, <3>1
  <2>3. CASE p # q
    BY <2>1, <2>3 DEF TypeInv
  <2> QED BY <2>2, <2>3
<1>3. ASSUME \/ UNCHANGED vars
             \/ \E q \in Peers : \/ CloseQueue(q) \/ save_game(q) \/ Quit(q) \/ Diverge(q) \/ SeedFollows(q)
                                 \/ \E n \in Peers : TakeOver(q, n)
      PROVE  executed' = executed
  BY <1>3 DEF CloseQueue, save_game, Quit, Diverge, SeedFollows, TakeOver, Cast!TakeOver, Cast!Issue,
              vars, castVars
<1> QED BY <1>2, <1>3 DEF Next

\* So the difference an error was signalled for stays.
LEMMA ApartStays ==
  ASSUME TypeInv, TypeInv', FramesInv, Onward, [Next]_vars, NEW p \in Peers, NEW f \in DOMAIN executed[p],
         ApartIn(p, f)
  PROVE  f \in DOMAIN executed'[p] /\ ApartIn(p, f)'
<1>1. f \in DOMAIN executed'[p] /\ executed'[p][f] = executed[p][f]
  BY ExecutedStays
<1>2. PICK m, n \in DOMAIN executed[p][f] :
        /\ f <= Len(closed[m]) /\ f <= Len(closed[n])
        /\ WorldAt(m, f - process_frame_delay) # WorldAt(n, f - process_frame_delay)
  BY DEF ApartIn
<1>3. f \in Nat /\ f >= 1 /\ DOMAIN executed[p][f] \in SUBSET Peers
  <2>1. executed[p] \in Seq(FrameOrders)
    BY DEF TypeInv
  <2>2. f \in Nat /\ f >= 1 /\ executed[p][f] \in FrameOrders
    BY <2>1
  <2> QED BY <2>2, OrdersType
<1>4. ASSUME NEW q \in DOMAIN executed[p][f], f <= Len(closed[q])
      PROVE  /\ f <= Len(closed'[q])
             /\ WorldAt(q, f - process_frame_delay)' = WorldAt(q, f - process_frame_delay)
  <2>1. q \in Peers
    BY <1>3
  <2>2. /\ Len(closed[q]) \in Nat /\ frame_count[q] \in Nat
        /\ Len(closed[q]) <= frame_count[q] + process_frame_delay
    BY <2>1, Reach
  <2>3. f \in 1 .. Len(closed[q])
    BY <1>3, <1>4, <2>2
  <2>4. f <= Len(closed'[q])
    BY <2>1, <2>3 DEF Onward
  <2>5. PICK r \in Int : r = f - process_frame_delay
    BY <1>3, Delay
  <2>6. r <= frame_count[q]
    BY <1>3, <1>4, <2>2, <2>5, Delay
  <2> QED BY <2>1, <2>4, <2>5, <2>6, WorldStays
<1> QED BY <1>1, <1>2, <1>4 DEF ApartIn

\* Every step keeps errors justified.
LEMMA AlarmStep ==
  ASSUME TypeInv, TypeInv', FramesInv, WorldInv, QueueInv, CrcInv, AlarmInv, Onward, [Next]_vars
  PROVE  AlarmInv'
<1> SUFFICES ASSUME NEW p \in Peers, sync_test_level'[p] < 0
             PROVE  \E f \in DOMAIN executed'[p] : ApartIn(p, f)'
  BY DEF AlarmInv
<1>1. CASE sync_test_level[p] < 0
  <2>1. PICK f \in DOMAIN executed[p] : ApartIn(p, f)
    BY <1>1 DEF AlarmInv
  <2> QED BY <2>1, ApartStays
<1>2. CASE ~(sync_test_level[p] < 0)
  <2>1. sync_test_level' # sync_test_level
    BY <1>2
  <2>2. PICK q \in Peers : ProcessFrame(q)
    BY <2>1 DEF Next, CloseQueue, save_game, Quit, Diverge, SeedFollows, TakeOver, vars, checkVars
  <2>3. /\ Cast!Ready(q, closed) /\ UNCHANGED <<closed, world>>
        /\ sync_test_level' = [sync_test_level EXCEPT ![q] = Executed(q).level]
        /\ executed' = [executed EXCEPT ![q] = Append(executed[q], FrameOrdersOf(q))]
    BY <2>2, FrameDone
  <2>4. p = q /\ Executed(p).level < 0
    BY <1>2, <2>3 DEF TypeInv
  <2>5. PICK m, n \in humans[p] : WorldAt(m, frame_count[p] - process_frame_delay)
                                    # WorldAt(n, frame_count[p] - process_frame_delay)
    BY <1>2, <2>3, <2>4, AlarmFound
  <2>6. PICK f \in Nat : f = frame_count[p]
    BY DEF TypeInv
  <2>7. f \in DOMAIN executed'[p] /\ executed'[p][f] = FrameOrdersOf(p)
    <3>1. /\ executed'[p] = Append(executed[p], FrameOrdersOf(p))
          /\ executed[p] \in Seq(FrameOrders) /\ Len(executed[p]) = f - 1
      BY <2>3, <2>4, <2>6 DEF TypeInv, FramesInv
    <3> QED BY <2>6, <3>1
  <2>8. DOMAIN FrameOrdersOf(p) = humans[p] /\ \A k \in humans[p] : f <= Len(closed[k])
    BY <2>3, <2>4, <2>6, OrdersOfFrame DEF Cast!Ready
  <2>9. \A k : WorldAt(k, f - process_frame_delay)' = WorldAt(k, f - process_frame_delay)
    BY <2>3 DEF WorldAt
  <2>10. ApartIn(p, f)'
    BY <2>3, <2>5, <2>6, <2>7, <2>8, <2>9 DEF ApartIn
  <2> QED BY <2>7, <2>10
<1> QED BY <1>1, <1>2

\* There is no error at the start.
LEMMA InitAlarm == Init => AlarmInv
BY ErrorsAreNegative DEF Init, AlarmInv

-----------------------------------------------------------------------------
(* Disputes *)

\* There is no dispute at the start.
LEMMA InitDispute == Init => DisputeInv
<1> SUFFICES ASSUME Init PROVE DisputeInv
  OBVIOUS
<1>1. \A p \in Peers : frame_count[p] = 1 /\ sync_test_level[p] = SyncTestLevel
  BY DEF Init, Cast!Init
<1>2. \A r \in Nat \ {0} : ~(r + process_frame_delay < 1)
  BY Delay
<1>3. SyncTestLevel # CrcError
  BY ErrorsAreNegative
<1> QED BY <1>1, <1>2, <1>3 DEF DisputeInv

\* Who goes on testing has seen no difference in the frame.
LEMMA NoDisputeSeen ==
  ASSUME TypeInv, FramesInv, QueueInv, CrcInv, NEW p \in Peers, Cast!Ready(p, closed), AllHuman,
         TestsCrc(SyncTestLevel), Executed(p).level = SyncTestLevel,
         NEW r \in Nat, r + process_frame_delay = frame_count[p]
  PROVE  ~Disputed(r)
<1>1. sync_test_level[p] = SyncTestLevel
  BY LevelOnward, ErrorsAreNegative
<1>2. ~CrcDiffers(Before(p), FrameOrdersOf(p), humans[p])
  BY FrameEffect DEF AfterAll
<1>3. ASSUME NEW n \in Peers, NEW a \in Records, SaysCrc(n, r, a)
      PROVE  a = crc_store[p]
  <2>1. n \in humans[p]
    BY DEF AllHuman
  <2>2. FrameOrdersOf(p)[n] = closed[n][frame_count[p]]
    BY <2>1, OrdersOfFrame
  <2>3. PICK i \in DOMAIN FrameOrdersOf(p)[n] : FrameOrdersOf(p)[n][i] = CompareCrc(a)
    BY <1>3, <2>2 DEF SaysCrc
  <2>4. IsCrc(CompareCrc(a)) /\ CompareCrc(a).record = a
    BY DEF IsCrc, CompareCrc
  <2>5. TestedCrc(Before(p), FrameOrdersOf(p)[n][i])
    BY <1>1, <2>3, <2>4, BeforeType DEF TestedCrc
  <2> QED BY <1>2, <2>1, <2>3, <2>4, <2>5, BeforeType DEF CrcDiffers
<1> QED BY <1>3 DEF Disputed

\* While nobody is lost, only the first dispute stops the comparison of check numbers.
LEMMA DisputeStep ==
  ASSUME TypeInv, TypeInv', FramesInv, QueueInv, CrcInv, DisputeInv, Onward, [Next]_vars
  PROVE  DisputeInv'
<1> SUFFICES ASSUME AllHuman', TestsCrc(SyncTestLevel), NEW p \in Peers
             PROVE  /\ sync_test_level'[p] = SyncTestLevel =>
                         \A r \in Nat \ {0} : r + process_frame_delay < frame_count'[p] => ~Disputed(r)'
                    /\ sync_test_level'[p] = CrcError =>
                         crc_store'[p].frame > 0 /\ FirstDispute(crc_store[p].frame)'
  BY DEF DisputeInv
<1>1. AllHuman
  BY AllStayHuman
<1>2. /\ sync_test_level[p] = SyncTestLevel =>
           \A r \in Nat \ {0} : r + process_frame_delay < frame_count[p] => ~Disputed(r)
      /\ sync_test_level[p] = CrcError =>
           crc_store[p].frame > 0 /\ FirstDispute(crc_store[p].frame)
  BY <1>1 DEF DisputeInv
<1>3. ASSUME NEW r \in Nat \ {0}, r + process_frame_delay <= frame_count[p],
             \A q \in Peers : r + process_frame_delay <= Len(closed[q]), ~Disputed(r)
      PROVE  ~Disputed(r)'
  BY <1>3, DisputeStays DEF Decided
<1>4. ASSUME NEW r \in Nat \ {0}, r + process_frame_delay < frame_count[p]
      PROVE  r + process_frame_delay <= frame_count[p] /\
             \A q \in Peers : r + process_frame_delay <= Len(closed[q])
  <2>1. \A q \in Peers : frame_count[p] <= Len(closed[q]) + 1 /\ Len(closed[q]) \in Nat
    BY <1>1, Reach DEF FramesInv, AllHuman
  <2>2. frame_count[p] \in Nat
    BY DEF TypeInv
  <2> QED BY <1>4, <2>1, <2>2, Delay
<1>5. ASSUME sync_test_level[p] = CrcError, crc_store'[p] = crc_store[p]
      PROVE  crc_store'[p].frame > 0 /\ FirstDispute(crc_store[p].frame)'
  <2>1. PICK r \in Nat : r = crc_store[p].frame
    BY DEF TypeInv, Records
  <2>2. FirstDispute(r)'
    BY <1>2, <1>5, <2>1, FirstDisputeStays
  <2>3. r = crc_store'[p].frame
    BY <1>5, <2>1
  <2>4. r > 0
    BY <1>2, <1>5, <2>1
  <2> QED BY <2>2, <2>3, <2>4
<1>6. ASSUME UNCHANGED <<sync_test_level[p], crc_store[p], frame_count[p]>>
      PROVE  /\ sync_test_level'[p] = SyncTestLevel =>
                  \A r \in Nat \ {0} : r + process_frame_delay < frame_count'[p] => ~Disputed(r)'
             /\ sync_test_level'[p] = CrcError =>
                  crc_store'[p].frame > 0 /\ FirstDispute(crc_store[p].frame)'
  BY <1>2, <1>3, <1>4, <1>5, <1>6
<1>7. ASSUME ProcessFrame(p)
      PROVE  /\ sync_test_level'[p] = SyncTestLevel =>
                  \A r \in Nat \ {0} : r + process_frame_delay < frame_count'[p] => ~Disputed(r)'
             /\ sync_test_level'[p] = CrcError =>
                  crc_store'[p].frame > 0 /\ FirstDispute(crc_store[p].frame)'
  <2>1. /\ Cast!Ready(p, closed) /\ closed' = closed
        /\ frame_count'[p] = frame_count[p] + 1 /\ sync_test_level'[p] = Executed(p).level
        /\ crc_store'[p] = IF RecordsThen(p) THEN RecordOf(p) ELSE crc_store[p]
        /\ frame_count[p] \in Nat
    <3>1. /\ Cast!Ready(p, closed) /\ closed' = closed
          /\ frame_count' = [frame_count EXCEPT ![p] = frame_count[p] + 1]
          /\ sync_test_level' = [sync_test_level EXCEPT ![p] = Executed(p).level]
          /\ crc_store' = [crc_store EXCEPT ![p] = IF RecordsThen(p) THEN RecordOf(p) ELSE crc_store[p]]
      BY <1>7, FrameDone
    <3> QED BY <3>1 DEF TypeInv
  <2>2. ASSUME Executed(p).level = SyncTestLevel,
               NEW r \in Nat \ {0}, r + process_frame_delay < frame_count[p] + 1
        PROVE  ~Disputed(r)'
    <3>1. CASE r + process_frame_delay < frame_count[p]
      <4>1. sync_test_level[p] = SyncTestLevel
        BY <2>1, <2>2, LevelOnward, ErrorsAreNegative
      <4> QED BY <1>2, <1>3, <1>4, <3>1, <4>1
    <3>2. CASE r + process_frame_delay = frame_count[p]
      <4>1. \A q \in Peers : frame_count[p] <= Len(closed[q])
        BY <1>1, <2>1 DEF AllHuman, Cast!Ready
      <4>2. ~Disputed(r)
        BY <1>1, <2>1, <2>2, <3>2, NoDisputeSeen
      <4> QED BY <1>3, <2>1, <3>2, <4>1, <4>2
    <3>3. r + process_frame_delay < frame_count[p] \/ r + process_frame_delay = frame_count[p]
      BY <2>1, <2>2, Delay
    <3> QED BY <3>1, <3>2, <3>3
  <2>3. ASSUME Executed(p).level = CrcError
        PROVE  crc_store'[p].frame > 0 /\ FirstDispute(crc_store[p].frame)'
    <3>1. crc_store'[p] = crc_store[p]
      <4>1. ~TestsCrc(CrcError)
        BY DEF TestsCrc, CrcError, SeedError
      <4> QED BY <2>1, <2>3, <4>1 DEF RecordsThen, RecordsCrc
    <3>2. CASE sync_test_level[p] = CrcError
      BY <1>5, <3>1, <3>2
    <3>3. CASE sync_test_level[p] # CrcError
      <4>1. CrcDiffers(Before(p), FrameOrdersOf(p), humans[p])
        BY <2>1, <2>3, <3>3, FrameEffect, BeforeType DEF AfterAll
      <4>2. PICK r \in Nat : r = crc_store[p].frame
        BY DEF TypeInv, Records
      <4>3. r > 0
        BY <2>1, <4>1, <4>2, CrcDifference
      <4>4. FirstDispute(r)
        BY <1>1, <2>1, <4>1, <4>2, DisputeFound
      <4>5. FirstDispute(r)'
        BY <4>3, <4>4, FirstDisputeStays
      <4>6. r = crc_store'[p].frame
        BY <3>1, <4>2
      <4> QED BY <4>3, <4>5, <4>6
    <3> QED BY <3>2, <3>3
  <2> QED BY <2>1, <2>2, <2>3
<1>8. ASSUME NEW q \in Peers, q # p, ProcessFrame(q)
      PROVE  UNCHANGED <<sync_test_level[p], crc_store[p], frame_count[p]>>
  <2>1. /\ frame_count' = [frame_count EXCEPT ![q] = frame_count[q] + 1]
        /\ sync_test_level' = [sync_test_level EXCEPT ![q] = Executed(q).level]
        /\ crc_store' = [crc_store EXCEPT ![q] = IF RecordsThen(q) THEN RecordOf(q) ELSE crc_store[q]]
    BY <1>8, FrameDone
  <2> QED BY <1>8, <2>1 DEF TypeInv
<1>9. ASSUME \/ UNCHANGED vars
             \/ \E q \in Peers : \/ CloseQueue(q) \/ save_game(q) \/ Quit(q) \/ Diverge(q) \/ SeedFollows(q)
                                 \/ \E n \in Peers : TakeOver(q, n)
      PROVE  UNCHANGED <<sync_test_level[p], crc_store[p], frame_count[p]>>
  BY <1>9 DEF CloseQueue, save_game, Quit, Diverge, SeedFollows, TakeOver, Cast!TakeOver, Cast!Issue,
              vars, castVars, checkVars
<1> QED BY <1>6, <1>7, <1>8, <1>9 DEF Next

-----------------------------------------------------------------------------
(* Comparisons *)

ComparedRight(p, c) ==
  \/ c[2] = c[3]
  \/ c[1] = "objects" /\ (sync_test_level[p] = SeedError \/ \E q \in Peers : humans[q] # Peers)

\* A comparison that was right stays so.
LEMMA ComparedStays ==
  ASSUME TypeInv, TypeInv', Onward, NEW p \in Peers, NEW c, ComparedRight(p, c),
         sync_test_level[p] = SeedError => sync_test_level'[p] = SeedError
  PROVE  ComparedRight(p, c)'
<1>1. ASSUME NEW q \in Peers, humans[q] # Peers
      PROVE  humans'[q] # Peers
  <2>1. humans[q] \in SUBSET Peers /\ humans'[q] \subseteq humans[q]
    BY DEF TypeInv, Onward
  <2> QED BY <1>1, <2>1
<1> QED BY <1>1 DEF ComparedRight

\* Details of objects are compared when the own record is still that of the first dispute.
LEMMA ObjectsCompared ==
  ASSUME TypeInv, FramesInv, QueueInv, DisputeInv, NEW p \in Peers, Cast!Ready(p, closed),
         NEW n \in humans[p], NEW j \in DOMAIN FrameOrdersOf(p)[n], NEW m,
         m = FrameOrdersOf(p)[n][j], IsObjects(m), AllHuman, sync_test_level[p] # SeedError
  PROVE  crc_store[p].frame = m.record.frame
<1>1. ObjectsRight(frame_count[p], m)
  BY FrameEffect DEF QueueRight, MessageRight
<1>2. m.record \in Records
  <2>1. FrameOrdersOf(p)[n] \in Queues
    BY OrdersOfFrame
  <2>2. m \in Messages
    BY <2>1 DEF Queues
  <2> QED BY <2>2, MessageKinds
<1> DEFINE frame == m.record.frame
           own == crc_store[p].frame
<1>3. /\ frame \in Nat \ {0} /\ FirstDispute(frame) /\ TestsCrc(SyncTestLevel)
      /\ frame_count[p] = frame + process_frame_delay + process_frame_delay + 1
  BY <1>1, <1>2 DEF ObjectsRight, Records
<1>4. frame + process_frame_delay < frame_count[p]
  BY <1>3, Delay
<1>5. sync_test_level[p] # SyncTestLevel
  BY <1>3, <1>4 DEF DisputeInv, FirstDispute
<1>6. sync_test_level[p] = CrcError
  BY <1>5 DEF TypeInv, Levels
<1>7. own > 0 /\ FirstDispute(own) /\ own \in Nat
  BY <1>3, <1>6 DEF DisputeInv, TypeInv, Records
<1> HIDE DEF frame, own
<1>8. ~(frame < own)
  <2>1. frame < own => frame \in 1 .. own - 1
    BY <1>3, <1>7
  <2> QED BY <1>3, <1>7, <2>1 DEF FirstDispute
<1>9. ~(own < frame)
  <2>1. own < frame => own \in 1 .. frame - 1
    BY <1>3, <1>7
  <2> QED BY <1>3, <1>7, <2>1 DEF FirstDispute
<1>10. own = frame
  BY <1>3, <1>7, <1>8, <1>9
<1> QED BY <1>10 DEF own, frame

\* Seeds, check numbers and details compared in a frame are of the same frame.
LEMMA FrameCompared ==
  ASSUME TypeInv, FramesInv, QueueInv, CrcInv, DisputeInv, SameFrameCompared,
         NEW p \in Peers, Cast!Ready(p, closed), NEW c \in Executed(p).compared
  PROVE  ComparedRight(p, c)
<1> DEFINE orders == FrameOrdersOf(p)
           seeded == frame_count[p] > process_frame_delay + 1
           st == Before(p)
<1>1. FramedComparison(st, orders, humans[p], seeded, c)
  BY FrameEffect DEF AfterAll
<1>2. st.compared = compared[p] /\ st.crc = crc_store[p]
  BY BeforeType
<1>3. CASE c \in compared[p]
  BY <1>3 DEF SameFrameCompared, ComparedRight
<1>4. ASSUME seeded, NEW m \in humans[p], NEW n \in humans[p],
             c = <<"seed", orders[m][1].record.frame, orders[n][1].record.frame>>
      PROVE  ComparedRight(p, c)
  <2>1. ASSUME NEW q \in humans[p]
        PROVE  orders[q][1].record.frame = frame_count[p] - process_frame_delay - 1
    <3>1. QueueRight(q, frame_count[p], orders[q])
      BY FrameEffect
    <3>2. 1 \in DOMAIN orders[q] /\ IsSeed(orders[q][1]) /\ MessageRight(q, frame_count[p], orders[q][1])
      BY <1>4, <3>1 DEF QueueRight, SeedFirst
    <3> QED BY <3>2 DEF MessageRight, SeedRight
  <2>2. orders[m][1].record.frame = orders[n][1].record.frame
    BY <2>1
  <2>3. c[2] = c[3]
    BY <1>4, <2>2
  <2> QED BY <2>3 DEF ComparedRight
<1>5. ASSUME NEW n \in humans[p], NEW j \in DOMAIN orders[n], TestedCrc(st, orders[n][j]),
             c = <<"crc", st.crc.frame, orders[n][j].record.frame>>
      PROVE  ComparedRight(p, c)
  <2>1. PICK m : m = orders[n][j]
    OBVIOUS
  <2>2. crc_store[p].frame = m.record.frame
    BY <1>5, <2>1, SameFrameCrc
  <2>3. c[2] = c[3]
    BY <1>2, <1>5, <2>1, <2>2
  <2> QED BY <2>3 DEF ComparedRight
<1>6. ASSUME NEW n \in humans[p], NEW j \in DOMAIN orders[n], IsObjects(orders[n][j]),
             c = <<"objects", st.crc.frame, orders[n][j].record.frame>>
      PROVE  ComparedRight(p, c)
  <2>1. c[1] = "objects"
    BY <1>6
  <2>2. CASE ~AllHuman \/ sync_test_level[p] = SeedError
    BY <2>1, <2>2 DEF ComparedRight, AllHuman
  <2>3. CASE AllHuman /\ sync_test_level[p] # SeedError
    <3>1. PICK m : m = orders[n][j]
      OBVIOUS
    <3>2. crc_store[p].frame = m.record.frame
      BY <1>6, <2>3, <3>1, ObjectsCompared
    <3>3. c[2] = c[3]
      BY <1>2, <1>6, <3>1, <3>2
    <3> QED BY <3>3 DEF ComparedRight
  <2> QED BY <2>2, <2>3
<1> HIDE DEF orders, seeded, st
<1>7. \/ c \in st.compared
      \/ seeded /\ \E m, n \in humans[p] : c = <<"seed", orders[m][1].record.frame, orders[n][1].record.frame>>
      \/ \E n \in humans[p] : \E j \in DOMAIN orders[n] :
           TestedCrc(st, orders[n][j]) /\ c = <<"crc", st.crc.frame, orders[n][j].record.frame>>
      \/ \E n \in humans[p] : \E j \in DOMAIN orders[n] :
           IsObjects(orders[n][j]) /\ c = <<"objects", st.crc.frame, orders[n][j].record.frame>>
  BY <1>1 DEF FramedComparison
<1> QED BY <1>2, <1>3, <1>4, <1>5, <1>6, <1>7

\* Every step keeps the comparisons right.
LEMMA ComparedStep ==
  ASSUME TypeInv, TypeInv', FramesInv, QueueInv, CrcInv, DisputeInv, SameFrameCompared, Onward, [Next]_vars
  PROVE  SameFrameCompared'
<1>1. SameFrameCompared <=> \A p \in Peers : \A c \in compared[p] : ComparedRight(p, c)
  BY DEF SameFrameCompared, ComparedRight
<1>2. SameFrameCompared' <=> \A p \in Peers : \A c \in compared'[p] : ComparedRight(p, c)'
  BY DEF SameFrameCompared, ComparedRight
<1>3. SUFFICES ASSUME NEW p \in Peers, NEW c \in compared'[p]
               PROVE  ComparedRight(p, c)'
  BY <1>2
<1>4. ASSUME ProcessFrame(p)
      PROVE  ComparedRight(p, c)'
  <2>1. /\ Cast!Ready(p, closed)
        /\ sync_test_level' = [sync_test_level EXCEPT ![p] = Executed(p).level]
        /\ compared' = [compared EXCEPT ![p] = Executed(p).compared]
    BY <1>4, FrameDone
  <2>2. sync_test_level'[p] = Executed(p).level /\ compared'[p] = Executed(p).compared
    BY <2>1 DEF TypeInv
  <2>3. ComparedRight(p, c)
    BY <2>1, <2>2, FrameCompared
  <2>4. sync_test_level[p] = SeedError => sync_test_level'[p] = SeedError
    BY <2>1, <2>2, LevelOnward, ErrorsAreNegative
  <2> QED BY <2>3, <2>4, ComparedStays
<1>5. ASSUME UNCHANGED <<compared[p], sync_test_level[p]>>
      PROVE  ComparedRight(p, c)'
  <2>1. ComparedRight(p, c)
    BY <1>1, <1>5
  <2> QED BY <1>5, <2>1, ComparedStays
<1>6. ASSUME NEW q \in Peers, q # p, ProcessFrame(q)
      PROVE  UNCHANGED <<compared[p], sync_test_level[p]>>
  <2>1. /\ sync_test_level' = [sync_test_level EXCEPT ![q] = Executed(q).level]
        /\ compared' = [compared EXCEPT ![q] = Executed(q).compared]
    BY <1>6, FrameDone
  <2> QED BY <1>6, <2>1 DEF TypeInv
<1>7. ASSUME \/ UNCHANGED vars
             \/ \E q \in Peers : \/ CloseQueue(q) \/ save_game(q) \/ Quit(q) \/ Diverge(q) \/ SeedFollows(q)
                                 \/ \E n \in Peers : TakeOver(q, n)
      PROVE  UNCHANGED <<compared[p], sync_test_level[p]>>
  BY <1>7 DEF CloseQueue, save_game, Quit, Diverge, SeedFollows, TakeOver, vars, checkVars
<1> QED BY <1>4, <1>5, <1>6, <1>7 DEF Next

\* Nothing is compared at the start.
LEMMA InitCompared == Init => SameFrameCompared
BY DEF Init, SameFrameCompared

-----------------------------------------------------------------------------
(* Requests to save *)

\* Every step keeps the save asked for ahead.
LEMMA SaveStep ==
  ASSUME TypeInv, TypeInv', FramesInv, QueueInv, SaveStillToCome, [Next]_vars
  PROVE  SaveStillToCome'
<1>1. ASSUME NEW p \in Peers, ProcessFrame(p)
      PROVE  SaveStillToCome'
  <2>1. /\ Cast!Ready(p, closed)
        /\ frame_count' = [frame_count EXCEPT ![p] = frame_count[p] + 1]
        /\ mp_save_flag' = [mp_save_flag EXCEPT ![p] = Executed(p).save_flag /\ ~SavesThen(p)]
        /\ mp_save_frame' = [mp_save_frame EXCEPT ![p] = Executed(p).save_frame]
    BY <1>1, FrameDone
  <2>2. PICK K \in Nat : K = frame_count[p]
    BY DEF TypeInv
  <2>3. InTime(Before(p), K)
    BY <2>2, BeforeType DEF InTime, SaveStillToCome
  <2>4. ASSUME NEW n \in humans[p]
        PROVE  SavesAfter(FrameOrdersOf(p)[n], K)
    BY <2>1, <2>2, FrameEffect DEF QueueRight, MessageRight, SavesAfter
  <2>5. InTime(ExecuteOrders(Before(p), FrameOrdersOf(p)), K)
    <3>1. FrameOrdersOf(p) \in FrameOrders /\ DOMAIN FrameOrdersOf(p) = humans[p] /\ Before(p) \in States
      BY <2>1, OrdersOfFrame, BeforeType
    <3> QED BY <2>3, <2>4, <3>1, OrdersInTime
  <2>6. Executed(p).save_flag => Executed(p).save_frame > K
    BY <2>5 DEF Executed, InTime
  <2>7. Executed(p).save_flag /\ ~SavesThen(p) => Executed(p).save_frame # K + 1
    BY <2>2 DEF SavesThen, SavesNow
  <2>8. Executed(p).save_frame \in Nat
    BY <2>1, ExecutedType DEF States
  <2>9. mp_save_flag'[p] => mp_save_frame'[p] > frame_count'[p]
    <3>1. frame_count'[p] = K + 1 /\ mp_save_frame'[p] = Executed(p).save_frame
      BY <2>1, <2>2 DEF TypeInv
    <3>2. mp_save_flag'[p] => Executed(p).save_flag /\ ~SavesThen(p)
      BY <2>1 DEF TypeInv
    <3> QED BY <2>2, <2>6, <2>7, <2>8, <3>1, <3>2
  <2>10. ASSUME NEW q \in Peers, q # p
         PROVE  mp_save_flag'[q] => mp_save_frame'[q] > frame_count'[q]
    BY <2>1, <2>10 DEF TypeInv, SaveStillToCome
  <2> QED BY <2>9, <2>10 DEF SaveStillToCome
<1>2. ASSUME \/ UNCHANGED vars
             \/ \E q \in Peers : \/ CloseQueue(q) \/ save_game(q) \/ Quit(q) \/ Diverge(q) \/ SeedFollows(q)
                                 \/ \E n \in Peers : TakeOver(q, n)
      PROVE  SaveStillToCome'
  <2>1. UNCHANGED <<mp_save_flag, mp_save_frame, frame_count>>
    BY <1>2 DEF CloseQueue, save_game, Quit, Diverge, SeedFollows, TakeOver, Cast!TakeOver, Cast!Issue,
                vars, castVars, saveVars
  <2> QED BY <2>1 DEF SaveStillToCome
<1> QED BY <1>1, <1>2 DEF Next

\* No save is asked for at the start.
LEMMA InitSave == Init => SaveStillToCome
BY DEF Init, SaveStillToCome

-----------------------------------------------------------------------------
(* Theorems *)

IInv ==
  /\ TypeInv /\ FramesInv /\ WorldInv /\ QueueInv /\ CrcInv
  /\ AlarmInv /\ DisputeInv /\ SameFrameCompared /\ SaveStillToCome

\* The invariant is inductive.
LEMMA InvStep == IInv /\ [Next]_vars => IInv'
<1> SUFFICES ASSUME IInv, [Next]_vars PROVE IInv'
  OBVIOUS
<1>1. /\ TypeInv /\ FramesInv /\ WorldInv /\ QueueInv /\ CrcInv
      /\ AlarmInv /\ DisputeInv /\ SameFrameCompared /\ SaveStillToCome
  BY DEF IInv
<1>2. TypeInv' /\ Onward
  BY <1>1, TypeStep, StepsOnward
<1>3. FramesInv' /\ WorldInv'
  BY <1>1, FramesStep, WorldStep
<1>4. QueuesGrow /\ QueueInv'
  BY <1>1, <1>2, QueueStep
<1>5. CrcInv'
  BY <1>1, <1>2, <1>4, CrcStep
<1>6. AlarmInv' /\ DisputeInv'
  BY <1>1, <1>2, AlarmStep, DisputeStep
<1>7. SameFrameCompared' /\ SaveStillToCome'
  BY <1>1, <1>2, ComparedStep, SaveStep
<1> QED BY <1>2, <1>3, <1>4, <1>5, <1>6, <1>7 DEF IInv

\* What the queues of a peer say is of the frame they were filled in, its record is the last
\* there could be, and all who lost nobody stop testing at the same dispute.
THEOREM CheckInvariant == Spec => []IInv
<1>1. Init => IInv
  BY InitTypes, InitFrames, InitWorlds, InitQueues, InitCrc, InitAlarm, InitDispute, InitCompared, InitSave
     DEF IInv
<1> QED BY <1>1, InvStep, PTL DEF Spec

\* Seeds, check numbers and details that are compared are of the same frame.
THEOREM ComparisonsFit == Spec => []SameFrameCompared
<1>1. IInv => SameFrameCompared
  BY DEF IInv
<1> QED BY <1>1, CheckInvariant, PTL

\* An error is signalled only if two worlds did differ.
THEOREM AlarmsAreTrue == Spec => []NoFalseAlarm
<1>1. IInv => NoFalseAlarm
  BY DEF IInv, AlarmInv, ApartIn, NoFalseAlarm
<1> QED BY <1>1, CheckInvariant, PTL

\* The frame of a request to save is still to come.
THEOREM SavesComeInTime == Spec => []SaveStillToCome
<1>1. IInv => SaveStillToCome
  BY DEF IInv
<1> QED BY <1>1, CheckInvariant, PTL

-----------------------------------------------------------------------------
(* Peers who lost nobody save alike: there is one course of requests, known  *)
(* up to the frame the fastest of them is in.                                *)

AllOrders(i) == [n \in Peers |-> closed[n][i]]

\* The frames a request is pending in, the frames the game is saved in, and the frame wanted
NextSave(r, i, pending, done, wanted) ==
  /\ i \in pending <=> r.save_flag /\ ~SavesNow(r, i)
  /\ i \in done <=> SavesNow(r, i)
  /\ wanted[i] = r.save_frame
HasSave(st, i, pending, wanted) ==
  (st.save_flag <=> i \in pending) /\ st.save_frame = wanted[i]
Follows(i, pending, done, wanted) ==
  \A st \in States : HasSave(st, i, pending, wanted) =>
    NextSave(ExecuteOrders(st, AllOrders(i)), i + 1, pending, done, wanted)

\* A peer is on the course with the save it wants and the saves it made
SavedTill(p, done, i) == saved[p] = {f \in done : f <= i}
OnPath(p, pending, done, wanted) ==
  /\ HasSave(Before(p), frame_count[p], pending, wanted)
  /\ SavedTill(p, done, frame_count[p])
Settled(p) == UNCHANGED <<frame_count[p], mp_save_flag[p], mp_save_frame[p], saved[p]>>

Course(pending, done, wanted, top) ==
  /\ \A p \in Peers : humans[p] = Peers =>
       frame_count[p] <= top /\ OnPath(p, pending, done, wanted)
  /\ \A i \in 1 .. top - 1 : /\ \A n \in Peers : i <= Len(closed[n])
                             /\ Follows(i, pending, done, wanted)

CourseInv ==
  \E pending, done \in SUBSET Nat : \E wanted \in [Nat -> Nat] : \E top \in Nat :
    Course(pending, done, wanted, top)

\* At the start all are on a course with no request.
LEMMA InitCourse == Init => CourseInv
<1> SUFFICES ASSUME Init PROVE CourseInv
  OBVIOUS
<1> DEFINE wanted == [i \in Nat |-> 0]
<1>1. wanted \in [Nat -> Nat] /\ wanted[1] = 0
  OBVIOUS
<1>2. ASSUME NEW p \in Peers
      PROVE  frame_count[p] <= 1 /\ OnPath(p, {}, {}, wanted)
  <2>1. frame_count[p] = 1 /\ mp_save_flag[p] = FALSE /\ mp_save_frame[p] = 0 /\ saved[p] = {}
    BY DEF Init, Cast!Init
  <2>2. Before(p).save_flag = FALSE /\ Before(p).save_frame = 0
    BY <2>1 DEF Before
  <2> HIDE DEF wanted
  <2> QED BY <1>1, <2>1, <2>2 DEF HasSave, OnPath, SavedTill
<1> HIDE DEF wanted
<1>3. Course({}, {}, wanted, 1)
  BY <1>2 DEF Course
<1> QED BY <1>1, <1>3 DEF CourseInv

\* How the course continues depends on queues that are sent, and stays.
LEMMA CourseStays ==
  ASSUME TypeInv, Onward, NEW pending, NEW done, NEW wanted, NEW i \in Nat, i >= 1,
         \A n \in Peers : i <= Len(closed[n]), Follows(i, pending, done, wanted)
  PROVE  (\A n \in Peers : i <= Len(closed'[n])) /\ Follows(i, pending, done, wanted)'
<1>1. ASSUME NEW n \in Peers
      PROVE  i <= Len(closed'[n]) /\ closed'[n][i] = closed[n][i]
  <2>1. Len(closed[n]) \in Nat /\ i <= Len(closed[n])
    BY DEF TypeInv
  <2>2. i \in 1 .. Len(closed[n])
    BY <2>1
  <2>3. i \in 1 .. Len(closed'[n]) /\ closed'[n][i] = closed[n][i]
    BY <2>2 DEF Onward
  <2> QED BY <2>3
<1>2. AllOrders(i)' = AllOrders(i)
  BY <1>1 DEF AllOrders
<1> QED BY <1>1, <1>2 DEF Follows

\* What a peer does not change keeps it on the course.
LEMMA SettledStays ==
  ASSUME TypeInv, NEW p \in Peers, Settled(p), NEW pending, NEW done, NEW wanted,
         OnPath(p, pending, done, wanted)
  PROVE  OnPath(p, pending, done, wanted)'
<1>1. /\ Before(p).save_flag = mp_save_flag[p] /\ Before(p).save_frame = mp_save_frame[p]
      /\ Before(p)'.save_flag = mp_save_flag'[p] /\ Before(p)'.save_frame = mp_save_frame'[p]
  BY DEF Before
<1> QED BY <1>1 DEF HasSave, OnPath, SavedTill, Settled

\* A step that leaves the frames and saves of the humans alone leaves them on the course.
LEMMA SameCourse ==
  ASSUME TypeInv, TypeInv', Onward, NEW pending, NEW done, NEW wanted, NEW top \in Nat,
         Course(pending, done, wanted, top),
         \A p \in Peers : humans'[p] = Peers => Settled(p)
  PROVE  Course(pending, done, wanted, top)'
<1>1. ASSUME NEW i \in 1 .. top - 1
      PROVE  (\A n \in Peers : i <= Len(closed'[n])) /\ Follows(i, pending, done, wanted)'
  <2>1. i \in Nat /\ i >= 1
    OBVIOUS
  <2> QED BY <2>1, CourseStays DEF Course
<1>2. ASSUME NEW p \in Peers, humans'[p] = Peers
      PROVE  frame_count'[p] <= top /\ OnPath(p, pending, done, wanted)'
  <2>1. humans[p] = Peers
    <3>1. humans[p] \subseteq Peers
      BY DEF TypeInv
    <3>2. humans'[p] \subseteq humans[p]
      BY DEF Onward
    <3> QED BY <1>2, <3>1, <3>2
  <2>2. Settled(p)
    BY <1>2
  <2>3. frame_count[p] <= top /\ OnPath(p, pending, done, wanted)
    BY <2>1 DEF Course
  <2>4. OnPath(p, pending, done, wanted)'
    BY <2>2, <2>3, SettledStays
  <2> QED BY <2>2, <2>3, <2>4 DEF Settled
<1> QED BY <1>1, <1>2 DEF Course

\* A peer that lost nobody executes the orders of all, and its save follows.
LEMMA CourseOrders ==
  ASSUME TypeInv, NEW p \in Peers, Cast!Ready(p, closed), humans[p] = Peers
  PROVE  /\ FrameOrdersOf(p) = AllOrders(frame_count[p])
         /\ \A n \in Peers : frame_count[p] <= Len(closed[n])
BY DEF FrameOrdersOf, Cast!Orders, Cast!Ready, AllOrders

\* A course continues alike from states that want the same save.
LEMMA SavesAlike ==
  ASSUME NEW r \in States, NEW s \in States, SaveAlike(r, s), NEW i, NEW pending, NEW done, NEW wanted,
         NextSave(s, i, pending, done, wanted)
  PROVE  NextSave(r, i, pending, done, wanted)
<1>1. r.save_frame = s.save_frame /\ (r.save_flag <=> s.save_flag)
  BY DEF SaveAlike, States
<1>2. SavesNow(r, i) <=> SavesNow(s, i)
  BY <1>1 DEF SavesNow
<1> QED BY <1>1, <1>2 DEF NextSave

\* What a peer that lost nobody does in a frame continues the course.
LEMMA OnCourse ==
  ASSUME TypeInv, TypeInv', NEW p \in Peers, ProcessFrame(p), NEW i \in Nat, i = frame_count[p],
         NEW pending, NEW done \in SUBSET Nat, NEW wanted,
         NextSave(Executed(p), i + 1, pending, done, wanted),
         SavedTill(p, done, i)
  PROVE  frame_count'[p] = i + 1 /\ OnPath(p, pending, done, wanted)'
<1>1. /\ frame_count' = [frame_count EXCEPT ![p] = frame_count[p] + 1]
      /\ mp_save_flag' = [mp_save_flag EXCEPT ![p] = Executed(p).save_flag /\ ~SavesThen(p)]
      /\ mp_save_frame' = [mp_save_frame EXCEPT ![p] = Executed(p).save_frame]
      /\ saved' = [saved EXCEPT ![p] = IF SavesThen(p) THEN saved[p] \cup {frame_count[p] + 1} ELSE saved[p]]
  BY FrameDone
<1>2. /\ frame_count'[p] = i + 1 /\ mp_save_frame'[p] = Executed(p).save_frame
      /\ saved'[p] = IF SavesThen(p) THEN saved[p] \cup {i + 1} ELSE saved[p]
  BY <1>1 DEF TypeInv
<1>3. mp_save_flag'[p] <=> Executed(p).save_flag /\ ~SavesThen(p)
  BY <1>1 DEF TypeInv
<1>4. SavesThen(p) <=> SavesNow(Executed(p), i + 1)
  BY DEF SavesThen
<1>5. Before(p)'.save_flag = mp_save_flag'[p] /\ Before(p)'.save_frame = mp_save_frame'[p]
  BY DEF Before
<1>6. HasSave(Before(p), frame_count[p], pending, wanted)'
  <2>1. /\ i + 1 \in pending <=> Executed(p).save_flag /\ ~SavesNow(Executed(p), i + 1)
        /\ wanted[i + 1] = Executed(p).save_frame
    BY DEF NextSave
  <2>2. Before(p)'.save_flag <=> i + 1 \in pending
    BY <1>3, <1>4, <1>5, <2>1
  <2>3. Before(p)'.save_frame = wanted[i + 1]
    BY <1>2, <1>5, <2>1
  <2> QED BY <1>2, <2>2, <2>3 DEF HasSave
<1>7. saved'[p] = {f \in done : f <= i + 1}
  <2>1. i + 1 \in done <=> SavesThen(p)
    BY <1>4 DEF NextSave
  <2>2. \A f \in Nat : f <= i + 1 <=> f <= i \/ f = i + 1
    OBVIOUS
  <2>3. CASE SavesThen(p)
    BY <1>2, <2>1, <2>2, <2>3 DEF SavedTill
  <2>4. CASE ~SavesThen(p)
    BY <1>2, <2>1, <2>2, <2>4 DEF SavedTill
  <2> QED BY <2>3, <2>4
<1> QED BY <1>2, <1>6, <1>7 DEF OnPath, SavedTill

\* A frame follows the course, or continues it if the peer is the first in that frame.
LEMMA CourseFrame ==
  ASSUME TypeInv, TypeInv', Onward, CourseInv, NEW p \in Peers, ProcessFrame(p)
  PROVE  CourseInv'
<1>1. PICK pending \in SUBSET Nat, done \in SUBSET Nat, wanted \in [Nat -> Nat], top \in Nat :
        Course(pending, done, wanted, top)
  BY DEF CourseInv
<1>2. /\ Cast!Ready(p, closed) /\ closed' = closed /\ humans' = humans
      /\ \A q \in Peers \ {p} : Settled(q)
  <2>1. /\ Cast!Ready(p, closed) /\ closed' = closed /\ humans' = humans
        /\ frame_count' = [frame_count EXCEPT ![p] = frame_count[p] + 1]
        /\ mp_save_flag' = [mp_save_flag EXCEPT ![p] = Executed(p).save_flag /\ ~SavesThen(p)]
        /\ mp_save_frame' = [mp_save_frame EXCEPT ![p] = Executed(p).save_frame]
        /\ saved' = [saved EXCEPT ![p] = IF SavesThen(p) THEN saved[p] \cup {frame_count[p] + 1} ELSE saved[p]]
    BY FrameDone
  <2> QED BY <2>1 DEF TypeInv, Settled
<1>3. CASE humans[p] # Peers
  <2>1. \A q \in Peers : humans'[q] = Peers => Settled(q)
    BY <1>2, <1>3
  <2>2. Course(pending, done, wanted, top)'
    BY <1>1, <2>1, SameCourse
  <2> QED BY <1>1, <2>2 DEF CourseInv
<1>4. CASE humans[p] = Peers
  <2>1. PICK i \in Nat : i = frame_count[p] /\ i >= 1
    BY DEF TypeInv
  <2>2. i <= top /\ HasSave(Before(p), i, pending, wanted) /\ SavedTill(p, done, i)
    BY <1>1, <1>4, <2>1 DEF Course, OnPath
  <2>3. /\ FrameOrdersOf(p) = AllOrders(i) /\ \A n \in Peers : i <= Len(closed[n])
    BY <1>2, <1>4, <2>1, CourseOrders
  <2>4. /\ Before(p) \in States /\ Executed(p) \in States
        /\ FrameOrdersOf(p) \in FrameOrders
        /\ Executed(p) = ExecuteOrders(Before(p), AllOrders(i))
    BY <1>2, <2>3, BeforeType, ExecutedType, OrdersOfFrame DEF Executed
  <2>5. CASE i < top
    <3>1. i \in 1 .. top - 1
      BY <2>1, <2>5
    <3>2. NextSave(Executed(p), i + 1, pending, done, wanted)
      BY <1>1, <2>2, <2>4, <3>1 DEF Course, Follows
    <3>3. frame_count'[p] = i + 1 /\ OnPath(p, pending, done, wanted)'
      BY <2>1, <2>2, <3>2, OnCourse
    <3>4. frame_count'[p] <= top
      BY <2>1, <2>5, <3>3
    <3>5. ASSUME NEW q \in Peers, q # p, humans'[q] = Peers
          PROVE  frame_count'[q] <= top /\ OnPath(q, pending, done, wanted)'
      <4>1. Settled(q)
        BY <1>2, <3>5
      <4>2. frame_count[q] <= top /\ OnPath(q, pending, done, wanted)
        BY <1>1, <1>2, <3>5 DEF Course
      <4>3. OnPath(q, pending, done, wanted)'
        BY <4>1, <4>2, SettledStays
      <4> QED BY <4>1, <4>2, <4>3 DEF Settled
    <3>6. \A j \in 1 .. top - 1 : /\ \A n \in Peers : j <= Len(closed'[n])
                                  /\ Follows(j, pending, done, wanted)'
      BY <1>1, <1>2 DEF Course, Follows, AllOrders
    <3>7. Course(pending, done, wanted, top)'
      BY <3>3, <3>4, <3>5, <3>6 DEF Course
    <3> QED BY <1>1, <3>7 DEF CourseInv
  <2>6. CASE i = top
    <3> DEFINE now == Executed(p)
    <3>1. PICK t \in Nat : t = i + 1
      BY <2>1
    <3>2. PICK pending2 \in SUBSET Nat : 
            /\ t \in pending2 <=> now.save_flag /\ ~SavesNow(now, t)
            /\ \A j : j # t => (j \in pending2 <=> j \in pending)
      <4>1. CASE now.save_flag /\ ~SavesNow(now, t)
        <5>1. pending \cup {t} \in SUBSET Nat
          OBVIOUS
        <5> QED BY <4>1, <5>1
      <4>2. CASE ~(now.save_flag /\ ~SavesNow(now, t))
        <5>1. pending \ {t} \in SUBSET Nat
          OBVIOUS
        <5> QED BY <4>2, <5>1
      <4> QED BY <4>1, <4>2
    <3>3. PICK done2 \in SUBSET Nat : 
            /\ t \in done2 <=> SavesNow(now, t)
            /\ \A j : j # t => (j \in done2 <=> j \in done)
      <4>1. CASE SavesNow(now, t)
        <5>1. done \cup {t} \in SUBSET Nat
          OBVIOUS
        <5> QED BY <4>1, <5>1
      <4>2. CASE ~SavesNow(now, t)
        <5>1. done \ {t} \in SUBSET Nat
          OBVIOUS
        <5> QED BY <4>2, <5>1
      <4> QED BY <4>1, <4>2
    <3>4. PICK wanted2 \in [Nat -> Nat] :
            wanted2[t] = now.save_frame /\ \A j \in Nat : j # t => wanted2[j] = wanted[j]
      <4>1. now.save_frame \in Nat
        BY <2>4 DEF States
      <4>2. [wanted EXCEPT ![t] = now.save_frame] \in [Nat -> Nat]
        BY <4>1
      <4> QED BY <4>2
    <3>5. NextSave(now, t, pending2, done2, wanted2)
      BY <3>2, <3>3, <3>4 DEF NextSave
    <3> HIDE DEF now
    <3>6. ASSUME NEW j \in Nat, j <= top, NEW st
          PROVE  HasSave(st, j, pending2, wanted2) <=> HasSave(st, j, pending, wanted)
      <4>1. j # t
        BY <2>6, <3>1, <3>6
      <4> QED BY <3>2, <3>4, <4>1 DEF HasSave
    <3>7. ASSUME NEW j \in Nat, j <= top
          PROVE  \A q : SavedTill(q, done2, j) <=> SavedTill(q, done, j)
      <4>1. \A f \in Nat : f <= j => f # t
        BY <2>6, <3>1, <3>7
      <4>2. {f \in done2 : f <= j} = {f \in done : f <= j}
        BY <3>3, <4>1
      <4> QED BY <4>2 DEF SavedTill
    <3>8. ASSUME NEW j \in 1 .. top - 1
          PROVE  /\ \A n \in Peers : j <= Len(closed'[n])
                 /\ Follows(j, pending2, done2, wanted2)'
      <4>1. /\ \A n \in Peers : j <= Len(closed[n])
            /\ Follows(j, pending, done, wanted)
        BY <1>1 DEF Course
      <4>2. j + 1 # t /\ j + 1 \in Nat /\ j \in Nat /\ j <= top
        BY <2>6, <3>1
      <4>3. \A r : NextSave(r, j + 1, pending2, done2, wanted2) <=> NextSave(r, j + 1, pending, done, wanted)
        BY <3>2, <3>3, <3>4, <4>2 DEF NextSave
      <4>4. Follows(j, pending2, done2, wanted2)
        BY <3>6, <4>1, <4>2, <4>3 DEF Follows
      <4> QED BY <1>2, <4>1, <4>4 DEF Follows, AllOrders
    <3>9. Follows(i, pending2, done2, wanted2)
      <4> SUFFICES ASSUME NEW st \in States, HasSave(st, i, pending2, wanted2)
                   PROVE  NextSave(ExecuteOrders(st, AllOrders(i)), i + 1, pending2, done2, wanted2)
        BY DEF Follows
      <4>1. HasSave(st, i, pending, wanted)
        BY <2>6, <3>6
      <4>2. SaveAlike(st, Before(p))
        <5>1. st.save_flag \in BOOLEAN /\ Before(p).save_flag \in BOOLEAN
          BY <2>4 DEF States
        <5> QED BY <2>2, <4>1, <5>1 DEF HasSave, SaveAlike
      <4>3. SaveAlike(ExecuteOrders(st, AllOrders(i)), now)
        BY <2>3, <2>4, <4>2, OrdersAlike DEF now
      <4>4. ExecuteOrders(st, AllOrders(i)) \in States /\ now \in States
        BY <2>3, <2>4, ExecuteOrdersType DEF now
      <4> QED BY <3>1, <3>5, <4>3, <4>4, SavesAlike
    <3>10. ASSUME NEW j \in 1 .. t - 1
           PROVE  /\ \A n \in Peers : j <= Len(closed'[n])
                  /\ Follows(j, pending2, done2, wanted2)'
      <4>1. CASE j \in 1 .. top - 1
        BY <3>8, <4>1
      <4>2. CASE j = i
        BY <1>2, <2>3, <3>9, <4>2 DEF Follows, AllOrders
      <4> QED BY <2>6, <3>1, <4>1, <4>2
    <3>11. frame_count'[p] = t /\ OnPath(p, pending2, done2, wanted2)'
      <4>1. SavedTill(p, done2, i)
        BY <2>1, <2>2, <3>7
      <4>2. NextSave(Executed(p), i + 1, pending2, done2, wanted2)
        BY <3>1, <3>5 DEF now
      <4> QED BY <2>1, <3>1, <4>1, <4>2, OnCourse
    <3>12. ASSUME NEW q \in Peers, q # p, humans'[q] = Peers
           PROVE  frame_count'[q] <= t /\ OnPath(q, pending2, done2, wanted2)'
      <4>1. Settled(q)
        BY <1>2, <3>12
      <4>2. frame_count[q] <= top /\ frame_count[q] \in Nat /\ OnPath(q, pending, done, wanted)
        BY <1>1, <1>2, <3>12 DEF Course, TypeInv
      <4>3. OnPath(q, pending2, done2, wanted2)
        BY <3>6, <3>7, <4>2 DEF OnPath
      <4>4. OnPath(q, pending2, done2, wanted2)'
        BY <4>1, <4>3, SettledStays
      <4>5. frame_count'[q] <= t
        BY <2>6, <3>1, <4>1, <4>2 DEF Settled
      <4> QED BY <4>4, <4>5
    <3>13. frame_count'[p] <= t
      BY <3>11
    <3>14. Course(pending2, done2, wanted2, t)'
      BY <3>10, <3>11, <3>12, <3>13 DEF Course
    <3> QED BY <3>14 DEF CourseInv
  <2> QED BY <2>2, <2>1, <2>5, <2>6
<1> QED BY <1>3, <1>4

\* Every step keeps the peers who lost nobody on one course.
LEMMA CourseStep ==
  ASSUME TypeInv, TypeInv', Onward, CourseInv, [Next]_vars
  PROVE  CourseInv'
<1>1. ASSUME \/ UNCHANGED vars
             \/ \E q \in Peers : \/ CloseQueue(q) \/ save_game(q) \/ Quit(q) \/ Diverge(q) \/ SeedFollows(q)
                                 \/ \E n \in Peers : TakeOver(q, n)
      PROVE  CourseInv'
  <2>1. UNCHANGED <<frame_count, mp_save_flag, mp_save_frame, saved>>
    BY <1>1 DEF CloseQueue, save_game, Quit, Diverge, SeedFollows, TakeOver, Cast!TakeOver, Cast!Issue,
                vars, castVars, saveVars
  <2>2. PICK pending \in SUBSET Nat, done \in SUBSET Nat, wanted \in [Nat -> Nat], top \in Nat :
          Course(pending, done, wanted, top)
    BY DEF CourseInv
  <2>3. \A p \in Peers : Settled(p)
    BY <2>1 DEF Settled
  <2>4. Course(pending, done, wanted, top)'
    BY <2>2, <2>3, SameCourse
  <2> QED BY <2>2, <2>4 DEF CourseInv
<1> QED BY <1>1, CourseFrame DEF Next

\* Peers who lost nobody save the game in the same frames.
THEOREM AllSaveAlike == Spec => []SavesAgree
<1> DEFINE I == TypeInv /\ CourseInv
<1>1. Init => I
  BY InitTypes, InitCourse
<1>2. IInv /\ I /\ [Next]_vars => I'
  BY TypeStep, StepsOnward, CourseStep
<1>3. I => SavesAgree
  <2> SUFFICES ASSUME I, NEW p \in Peers, NEW q \in Peers, humans[p] = Peers, humans[q] = Peers,
                      NEW f \in saved[p], f <= frame_count[q]
               PROVE  f \in saved[q]
    BY DEF SavesAgree
  <2>1. PICK pending \in SUBSET Nat, done \in SUBSET Nat, wanted \in [Nat -> Nat], top \in Nat :
          Course(pending, done, wanted, top)
    BY DEF CourseInv
  <2>2. SavedTill(p, done, frame_count[p]) /\ SavedTill(q, done, frame_count[q])
    BY <2>1 DEF Course, OnPath
  <2> QED BY <2>2 DEF SavedTill
<1> HIDE DEF I
<1> QED BY <1>1, <1>2, <1>3, CheckInvariant, PTL DEF Spec
=============================================================================
