-------------------------- MODULE GameSpeedProofs --------------------------
(***************************************************************************)
(* Proofs about the speed of a multiplayer game, for any set of peers and  *)
(* of speeds and any number of changes: a pause can always be undone, and  *)
(* peers who change the speed in turns have the same speed once they have  *)
(* heard of it.                                                            *)
(***************************************************************************)
EXTENDS GameSpeed, FoldProofs

-----------------------------------------------------------------------------
(* The messages a poll finds are obeyed one by one.                          *)

Obeyed(st, order) == FoldLeft(LAMBDA s, m : set_speed(s, m[2]), st, order)

\* What obeying the messages does, as a table over the places in the order.
IsObeying(h, Places, st, order) ==
  \A s \in SUBSET Places :
    h[s] = IF s = {} THEN st ELSE set_speed(h[s \ {Max(s)}], order[Max(s)][2])

HasTable(Places, I, st, order) ==
  \E h \in [SUBSET Places -> I] :
    IsObeying(h, Places, st, order) /\ Obeyed(st, order) = h[Places]

\* Obeying the messages never leaves the set of states I.
StaysWithin(I, ms) == \A s \in I, m \in ms : set_speed(s, m[2]) \in I

LEMMA ObeyingTable ==
  ASSUME NEW n \in Nat, NEW Places, Places = 1..n, NEW ms, NEW order \in [Places -> ms],
         NEW I, NEW st \in I, StaysWithin(I, ms)
  PROVE  HasTable(Places, I, st, order)
<1> USE DEF StaysWithin
<1> DEFINE op == [i \in 1..n |-> [s \in I |-> set_speed(s, order[i][2])]]
           pick == [s \in SUBSET (1..n) |-> Max(s)]
           Iterates(g) == g = [s \in SUBSET DOMAIN order |->
                                IF s = {} THEN st
                                ELSE set_speed(g[s \ {Max(s)}], order[Max(s)][2])]
           Obey == CHOOSE g : Iterates(g)
<1>1. IsFiniteSet(1..n)
  BY FS_Interval
<1>2. \A s \in SUBSET (1..n) : s # {} => pick[s] \in s
  BY LargestOf
<1>3. op \in [1..n -> [I -> I]]
  OBVIOUS
<1>4. PICK h \in [SUBSET (1..n) -> I] : \A s \in SUBSET (1..n) :
        h[s] = IF s = {} THEN st ELSE op[pick[s]][h[s \ {pick[s]}]]
  <2>1. /\ IsFiniteSet(Places) /\ op \in [Places -> [I -> I]]
        /\ PicksFrom(pick, Places)
    BY <1>1, <1>2, <1>3 DEF PicksFrom
  <2>2. \E h \in [SUBSET Places -> I] : IsTable(h, Places, pick, st, op)
    <3> HIDE DEF op, pick, Iterates, Obey
    <3> QED BY <2>1, FoldTable
  <2> HIDE DEF op, pick, Iterates, Obey
  <2> QED BY <2>2 DEF IsTable
<1>5. ASSUME NEW s \in SUBSET (1..n), s # {}
      PROVE  h[s] = set_speed(h[s \ {Max(s)}], order[Max(s)][2])
  <2>1. pick[s] = Max(s) /\ Max(s) \in 1..n /\ h[s \ {Max(s)}] \in I
    BY <1>5, LargestOf
  <2>2. h[s] = op[Max(s)][h[s \ {Max(s)}]]
    BY <1>4, <1>5, <2>1
  <2> QED BY <2>1, <2>2
<1>6. DOMAIN order = 1..n
  OBVIOUS
<1>7. Iterates(h)
  <2> DEFINE V(s) == IF s = {} THEN st ELSE set_speed(h[s \ {Max(s)}], order[Max(s)][2])
  <2>1. \A s \in SUBSET (1..n) : h[s] = V(s)
    BY <1>4, <1>5
  <2>2. h = [s \in SUBSET (1..n) |-> V(s)]
    <3> HIDE DEF V
    <3> QED BY <2>1
  <2> QED BY <1>6, <2>2
<1>8. Iterates(Obey)
  <2> HIDE DEF Iterates
  <2> QED BY <1>7
<1>9. Obeyed(st, order) = Obey[DOMAIN order]
  BY DEF Obeyed, FoldLeft, MapThenFoldSet, Max
<1>10. \A s \in SUBSET (1..n) :
         Obey[s] = IF s = {} THEN st ELSE set_speed(Obey[s \ {Max(s)}], order[Max(s)][2])
  <2> HIDE DEF Obey
  <2> QED BY <1>6, <1>8
<1>11. SUBSET (1..n) \subseteq {s \in SUBSET (1..n) : Obey[s] \in I}
  <2> DEFINE B == {s \in SUBSET (1..n) : Obey[s] \in I}
  <2> HIDE DEF Obey, op, Iterates
  <2>1. {} \in B
    BY <1>10
  <2>2. ASSUME NEW s \in SUBSET (1..n), s # {}, s \ {pick[s]} \in B PROVE s \in B
    <3>1. pick[s] = Max(s) /\ Max(s) \in 1..n /\ order[Max(s)] \in ms
      BY <2>2, LargestOf
    <3>2. Obey[s \ {Max(s)}] \in I
      BY <2>2, <3>1
    <3>3. Obey[s] = set_speed(Obey[s \ {Max(s)}], order[Max(s)][2])
      BY <2>2, <1>10
    <3> QED BY <3>1, <3>2, <3>3
  <2>3. SUBSET Places \subseteq B
    <3>1. PicksFrom(pick, Places)
      BY <1>2 DEF PicksFrom
    <3>2. Completes(B, pick, Places)
      BY <2>1, <2>2 DEF Completes
    <3>3. IsFiniteSet(Places)
      BY <1>1
    <3> HIDE DEF B, pick
    <3> QED BY <3>1, <3>2, <3>3, OneByOne
  <2> QED BY <2>3
<1>12. Obey \in [SUBSET (1..n) -> I]
  <2> HIDE DEF Obey
  <2> QED BY <1>6, <1>8, <1>11
<1> HIDE DEF Obey
<1> QED BY <1>6, <1>9, <1>10, <1>12 DEF IsObeying, HasTable

-----------------------------------------------------------------------------
(* The two speeds of a peer: one of them is 0, and only one.                 *)

TwoSpeeds == {s \in [frame_speed : Nat, last_frame_speed : Nat] :
                (s.frame_speed = 0) # (s.last_frame_speed = 0)}
Messages == Nat \X Nat

LEMMA RequestKeepsOneSpeed ==
  ASSUME NEW s \in TwoSpeeds, NEW speed \in Nat
  PROVE  set_speed(s, speed) \in TwoSpeeds
BY DEF TwoSpeeds, set_speed

\* The speed a request results in says what it did: a peer that obeys a message with it
\* does the same.
LEMMA ObeyingRepeatsTheRequest ==
  ASSUME NEW s \in TwoSpeeds, NEW speed \in Nat
  PROVE  set_speed(s, set_speed(s, speed).frame_speed) = set_speed(s, speed)
BY DEF TwoSpeeds, set_speed

LEMMA ObeyingKeepsOneSpeed ==
  ASSUME NEW ms \in SUBSET Messages, IsFiniteSet(ms), NEW order \in SetToSeqs(ms),
         NEW st \in TwoSpeeds
  PROVE  Obeyed(st, order) \in TwoSpeeds
<1> DEFINE n == Cardinality(ms)
<1>1. n \in Nat /\ order \in [1..n -> ms]
  BY FS_CardinalityType DEF SetToSeqs
<1>2. StaysWithin(TwoSpeeds, ms)
  BY RequestKeepsOneSpeed DEF Messages, StaysWithin
<1> DEFINE Places == 1..n
<1>3. HasTable(Places, TwoSpeeds, st, order)
  <2>1. Places = 1..n /\ order \in [Places -> ms]
    BY <1>1
  <2> HIDE DEF n, Places
  <2> QED BY <2>1, <1>1, <1>2, ObeyingTable
<1> HIDE DEF n, Places
<1> QED BY <1>3 DEF HasTable

\* One message is obeyed as it is.
LEMMA ObeyingOne ==
  ASSUME NEW m \in Messages, NEW order \in SetToSeqs({m}), NEW st \in TwoSpeeds
  PROVE  Obeyed(st, order) = set_speed(st, m[2])
<1>1. Cardinality({m}) = 1
  BY FS_Singleton
<1>2. order \in [1..1 -> {m}]
  BY <1>1 DEF SetToSeqs
<1>3. StaysWithin(TwoSpeeds, {m})
  BY RequestKeepsOneSpeed DEF Messages, StaysWithin
<1> DEFINE Places == 1..1
<1>4. PICK h \in [SUBSET Places -> TwoSpeeds] :
        IsObeying(h, Places, st, order) /\ Obeyed(st, order) = h[Places]
  <2>1. 1 \in Nat /\ Places = 1..1 /\ order \in [Places -> {m}]
    BY <1>2
  <2>2. HasTable(Places, TwoSpeeds, st, order)
    <3> HIDE DEF Places
    <3> QED BY <1>3, <2>1, ObeyingTable
  <2> QED BY <2>2 DEF HasTable
<1>5. Max(1..1) = 1
  BY LargestOf
<1>6. 1..1 # {} /\ (1..1) \ {1} = {} /\ order[1] = m
  BY <1>2
<1>7. h[{}] = st
  BY <1>4 DEF IsObeying
<1>8. h[1..1] = set_speed(h[(1..1) \ {Max(1..1)}], order[Max(1..1)][2])
  BY <1>4, <1>6 DEF IsObeying
<1> QED BY <1>4, <1>5, <1>6, <1>7, <1>8

-----------------------------------------------------------------------------
(* The inductive invariant.  While players take turns at most one change is  *)
(* under way, and the peers differ in nothing else: those who have not heard *)
(* of it have the speeds all had before, the others what it makes of them.   *)

SpeedTypes ==
  /\ frame_speed \in [Peers -> Nat] /\ last_frame_speed \in [Peers -> Nat]
  /\ under_way \in [Peers -> SUBSET Messages]
  /\ \A p \in Peers : IsFiniteSet(under_way[p])
  /\ changes \in Nat

OneChange(m, old) ==
  \A p \in Peers :
    /\ under_way[p] \subseteq {m}
    /\ State(p) = IF under_way[p] = {} THEN set_speed(old, m[2]) ELSE old

TakingTurns == orderly => \E m \in Messages, old \in TwoSpeeds : OneChange(m, old)

IInv == SpeedTypes /\ PauseIsReversible /\ TakingTurns

LEMMA SpeedsOfPeers ==
  SpeedTypes => (PauseIsReversible <=> \A p \in Peers : State(p) \in TwoSpeeds)
BY DEF SpeedTypes, PauseIsReversible, TwoSpeeds, State

\* A peer's step gives it new speeds and leaves the others theirs.
LEMMA BecomeOthers ==
  ASSUME SpeedTypes, NEW p \in Peers, NEW st \in TwoSpeeds, Become(p, st)
  PROVE  /\ frame_speed' \in [Peers -> Nat] /\ last_frame_speed' \in [Peers -> Nat]
         /\ \A q \in Peers : State(q)' = IF q = p THEN st ELSE State(q)
<1>1. st.frame_speed \in Nat /\ st.last_frame_speed \in Nat
        /\ st = [frame_speed |-> st.frame_speed, last_frame_speed |-> st.last_frame_speed]
  BY DEF TwoSpeeds
<1> QED BY <1>1 DEF SpeedTypes, Become, State

LEMMA InitSpeeds == Init => IInv
<1> SUFFICES ASSUME Init PROVE IInv
  OBVIOUS
<1>1. PICK s \in Speeds : frame_speed = [p \in Peers |-> s]
  BY DEF Init
<1>2. s \in Nat \ {0}
  BY SpeedAssumption
<1>3. SpeedTypes /\ PauseIsReversible
  BY <1>1, <1>2, FS_EmptySet DEF Init, SpeedTypes, PauseIsReversible
<1> DEFINE st == [frame_speed |-> s, last_frame_speed |-> 0]
           m == <<0, s>>
<1>4. st \in TwoSpeeds /\ m \in Messages /\ set_speed(st, m[2]) = st
  BY <1>2 DEF TwoSpeeds, Messages, set_speed
<1>5. OneChange(m, st)
  BY <1>1, <1>4 DEF Init, OneChange, State
<1> QED BY <1>3, <1>4, <1>5 DEF IInv, TakingTurns

LEMMA ChangeKeeps ==
  ASSUME IInv, NEW p \in Peers, NEW speed \in Speeds \cup {0}, PlayerSetsSpeed(p, speed)
  PROVE  IInv'
<1> DEFINE st == set_speed(State(p), speed)
           m == <<changes, st.frame_speed>>
<1>1. SpeedTypes /\ PauseIsReversible /\ TakingTurns
  BY DEF IInv
<1>2. \A q \in Peers : State(q) \in TwoSpeeds
  BY <1>1, SpeedsOfPeers
<1>3. speed \in Nat
  BY SpeedAssumption
<1>4. st \in TwoSpeeds
  BY <1>2, <1>3, RequestKeepsOneSpeed
<1>5. Become(p, st)
  BY DEF PlayerSetsSpeed
<1>6. /\ frame_speed' \in [Peers -> Nat] /\ last_frame_speed' \in [Peers -> Nat]
      /\ \A q \in Peers : State(q)' = IF q = p THEN st ELSE State(q)
  <2> HIDE DEF st
  <2> QED BY <1>1, <1>4, <1>5, BecomeOthers
<1>7. m \in Messages
  BY <1>1, <1>4 DEF Messages, TwoSpeeds, SpeedTypes
<1>8. st.frame_speed = frame_speed[p]' /\ changes' = changes + 1
  BY <1>1, <1>5, <1>4 DEF Become, SpeedTypes, PlayerSetsSpeed
<1>9. UNCHANGED under_way \/ send_free_msg(p, st.frame_speed)
  BY DEF PlayerSetsSpeed, send_free_msg_Refused
<1>10. SpeedTypes'
  <2>1. changes' \in Nat
    BY <1>1, <1>8 DEF SpeedTypes
  <2>2. under_way' \in [Peers -> SUBSET Messages]
          /\ \A q \in Peers : under_way'[q] \in {under_way[q], under_way[q] \cup {m}}
    <3> HIDE DEF st
    <3> QED BY <1>1, <1>7, <1>9 DEF SpeedTypes, send_free_msg
  <2>3. \A q \in Peers : IsFiniteSet(under_way'[q])
    <3> HIDE DEF m
    <3> SUFFICES ASSUME NEW q \in Peers PROVE IsFiniteSet(under_way'[q])
      OBVIOUS
    <3>1. IsFiniteSet(under_way[q])
      BY <1>1 DEF SpeedTypes
    <3>2. IsFiniteSet(under_way[q] \cup {m})
      BY <3>1, FS_AddElement
    <3> QED BY <2>2, <3>1, <3>2
  <2> QED BY <1>6, <2>1, <2>2, <2>3 DEF SpeedTypes
<1>11. PauseIsReversible'
  <2>1. \A q \in Peers : State(q)' \in TwoSpeeds
    <3> HIDE DEF st
    <3> QED BY <1>2, <1>4, <1>6
  <2> QED BY <1>10, <2>1 DEF SpeedTypes, PauseIsReversible, TwoSpeeds, State
<1>12. TakingTurns'
  <2> SUFFICES ASSUME orderly' PROVE (\E m_1 \in Messages, old \in TwoSpeeds : OneChange(m_1, old))'
    BY DEF TakingTurns
  <2>1. orderly /\ UnderWay = {} /\ send_free_msg(p, st.frame_speed)
    BY DEF PlayerSetsSpeed
  <2>2. \A q \in Peers : under_way[q] = {}
    BY <2>1 DEF UnderWay
  <2>3. PICK m0 \in Messages, old0 \in TwoSpeeds : OneChange(m0, old0)
    BY <1>1, <2>1 DEF TakingTurns
  <2>4. \A q \in Peers : State(q) = State(p)
    BY <2>2, <2>3 DEF OneChange
  <2>5. set_speed(State(p), m[2]) = st
    BY <1>2, <1>3, ObeyingRepeatsTheRequest
  <2>6. \A q \in Peers : under_way'[q] = IF q = p THEN {} ELSE {m}
    BY <2>1, <2>2 DEF send_free_msg
  <2>7. \A q \in Peers :
          /\ under_way'[q] \subseteq {m}
          /\ State(q)' = IF under_way'[q] = {} THEN set_speed(State(p), m[2]) ELSE State(p)
    <3> HIDE DEF m, st
    <3> QED BY <1>6, <2>4, <2>5, <2>6
  <2>8. State(p) \in TwoSpeeds
    BY <1>2
  <2>9. \E x \in Messages, old \in TwoSpeeds :
          \A q \in Peers : /\ under_way'[q] \subseteq {x}
                           /\ State(q)' = IF under_way'[q] = {} THEN set_speed(old, x[2]) ELSE old
    <3> HIDE DEF m
    <3> QED BY <1>7, <2>7, <2>8
  <2> QED BY <2>9 DEF OneChange
<1> QED BY <1>10, <1>11, <1>12 DEF IInv

LEMMA YieldKeeps ==
  ASSUME IInv, NEW p \in Peers, NEW ms \in SUBSET under_way[p], Yield(p, ms)
  PROVE  IInv'
<1>1. SpeedTypes /\ PauseIsReversible /\ TakingTurns
  BY DEF IInv
<1>2. PICK order \in SetToSeqs(ms) : Become(p, Obeyed(State(p), order))
  BY DEF Yield, Obeyed
<1> DEFINE st == Obeyed(State(p), order)
<1>3. \A q \in Peers : State(q) \in TwoSpeeds
  BY <1>1, SpeedsOfPeers
<1>4. under_way[p] \in SUBSET Messages /\ IsFiniteSet(under_way[p])
  BY <1>1 DEF SpeedTypes
<1>5. ms \in SUBSET Messages /\ IsFiniteSet(ms)
  BY <1>4, FS_Subset
<1>6. st \in TwoSpeeds
  BY <1>3, <1>5, ObeyingKeepsOneSpeed
<1>7. /\ frame_speed' \in [Peers -> Nat] /\ last_frame_speed' \in [Peers -> Nat]
      /\ \A q \in Peers : State(q)' = IF q = p THEN st ELSE State(q)
  <2> HIDE DEF st
  <2>1. Become(p, st)
    BY <1>2 DEF st
  <2> QED BY <1>1, <1>6, <2>1, BecomeOthers
<1>8. /\ ms # {} /\ changes' = changes /\ orderly' = orderly
      /\ under_way' = [under_way EXCEPT ![p] = @ \ ms]
  BY DEF Yield
<1>9. SpeedTypes'
  <2>1. IsFiniteSet(under_way[p] \ ms)
    BY <1>4, FS_Subset
  <2>2. under_way' \in [Peers -> SUBSET Messages]
          /\ \A q \in Peers : under_way'[q] = IF q = p THEN under_way[p] \ ms ELSE under_way[q]
    BY <1>1, <1>8 DEF SpeedTypes
  <2>3. \A q \in Peers : IsFiniteSet(under_way'[q])
    BY <1>1, <2>1, <2>2 DEF SpeedTypes
  <2> QED BY <1>1, <1>7, <1>8, <2>2, <2>3 DEF SpeedTypes
<1>10. PauseIsReversible'
  <2>1. \A q \in Peers : State(q)' \in TwoSpeeds
    <3> HIDE DEF st
    <3> QED BY <1>3, <1>6, <1>7
  <2> QED BY <1>9, <2>1 DEF SpeedTypes, PauseIsReversible, TwoSpeeds, State
<1>11. TakingTurns'
  <2> SUFFICES ASSUME orderly' PROVE (\E m \in Messages, old \in TwoSpeeds : OneChange(m, old))'
    BY DEF TakingTurns
  <2>1. PICK m \in Messages, old \in TwoSpeeds : OneChange(m, old)
    BY <1>1, <1>8 DEF TakingTurns
  <2>2. ms = {m} /\ under_way[p] = {m}
    BY <1>8, <2>1 DEF OneChange
  <2>3. State(p) = old
    BY <2>1, <2>2 DEF OneChange
  <2>4. st = set_speed(old, m[2])
    BY <2>2, <2>3, ObeyingOne
  <2>5. \A q \in Peers : under_way'[q] = IF q = p THEN {} ELSE under_way[q]
    BY <1>1, <1>8, <2>2 DEF SpeedTypes
  <2>6. \A q \in Peers :
          /\ under_way'[q] \subseteq {m}
          /\ State(q)' = IF under_way'[q] = {} THEN set_speed(old, m[2]) ELSE old
    <3> HIDE DEF st
    <3> QED BY <1>7, <2>1, <2>4, <2>5 DEF OneChange
  <2> QED BY <2>6 DEF OneChange
<1> QED BY <1>9, <1>10, <1>11 DEF IInv

LEMMA ClearingKeeps ==
  ASSUME IInv, NEW p \in Peers, NEW ms \in SUBSET under_way[p], FrameClearsQueue(p, ms)
  PROVE  IInv'
<1>1. SpeedTypes /\ PauseIsReversible
  BY DEF IInv
<1>2. /\ under_way' = [under_way EXCEPT ![p] = @ \ ms] /\ ~orderly'
      /\ UNCHANGED <<frame_speed, last_frame_speed, changes>>
  BY DEF FrameClearsQueue
<1>3. IsFiniteSet(under_way[p] \ ms)
  BY <1>1, FS_Subset DEF SpeedTypes
<1>4. under_way' \in [Peers -> SUBSET Messages]
        /\ \A q \in Peers : under_way'[q] = IF q = p THEN under_way[p] \ ms ELSE under_way[q]
  BY <1>1, <1>2 DEF SpeedTypes
<1>5. \A q \in Peers : IsFiniteSet(under_way'[q])
  BY <1>1, <1>3, <1>4 DEF SpeedTypes
<1> QED BY <1>1, <1>2, <1>4, <1>5 DEF IInv, SpeedTypes, PauseIsReversible, TakingTurns

LEMMA NextKeeps == IInv /\ [Next]_vars => IInv'
<1> SUFFICES ASSUME IInv, [Next]_vars PROVE IInv'
  OBVIOUS
<1>1. ASSUME NEW p \in Peers, NEW speed \in Speeds \cup {0}, PlayerSetsSpeed(p, speed)
      PROVE  IInv'
  BY <1>1, ChangeKeeps
<1>2. ASSUME NEW p \in Peers, NEW ms \in SUBSET under_way[p], Yield(p, ms) PROVE IInv'
  BY <1>2, YieldKeeps
<1>3. ASSUME NEW p \in Peers, NEW ms \in SUBSET under_way[p], FrameClearsQueue(p, ms) PROVE IInv'
  BY <1>3, ClearingKeeps
<1>4. CASE UNCHANGED vars
  BY <1>4 DEF vars, IInv, SpeedTypes, PauseIsReversible, TakingTurns, OneChange, State
<1> QED BY <1>1, <1>2, <1>3, <1>4 DEF Next

-----------------------------------------------------------------------------
(* The properties of the run.                                                *)

\* The types, the two speeds of every peer, and the only difference there is between
\* players who take turns: an invariant of every game.
THEOREM SpeedInvariant == Spec => []IInv
<1>1. Init => IInv
  BY InitSpeeds
<1>2. IInv /\ [Next]_vars => IInv'
  BY NextKeeps
<1> QED BY <1>1, <1>2, PTL DEF Spec

\* However the messages of Sys::set_speed are obeyed, reordered or lost, a paused peer
\* remembers a speed to go on with and a running peer remembers none.
THEOREM PausesAreReversible == Spec => []PauseIsReversible
<1>1. IInv => PauseIsReversible
  BY DEF IInv
<1> QED BY <1>1, SpeedInvariant, PTL

\* Players who change the speed in turns, whose messages are neither refused nor cleared,
\* have the same speed, and remember the same, whenever no message is under way.
THEOREM SpeedsAgree == Spec => []SameSpeed
<1>1. IInv => SameSpeed
  <2> SUFFICES ASSUME IInv, orderly, UnderWay = {}
               PROVE  \A p, q \in Peers : /\ frame_speed[p] = frame_speed[q]
                                          /\ last_frame_speed[p] = last_frame_speed[q]
    BY DEF SameSpeed
  <2>1. PICK m \in Messages, old \in TwoSpeeds : OneChange(m, old)
    BY DEF IInv, TakingTurns
  <2>2. \A p \in Peers : under_way[p] = {}
    BY DEF UnderWay
  <2>3. \A p, q \in Peers : State(p) = State(q)
    BY <2>1, <2>2 DEF OneChange
  <2> QED BY <2>3 DEF State
<1> QED BY <1>1, SpeedInvariant, PTL
=============================================================================
