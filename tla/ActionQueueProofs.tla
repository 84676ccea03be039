------------------------- MODULE ActionQueueProofs -------------------------
(***************************************************************************)
(* The action queue of the AI nations, proved for any nations, units and   *)
(* limits, also when several nations queue actions and hand over their     *)
(* units to each other: the queue keeps its type, a pass over it examines  *)
(* every record once, the counts of every action stay in order, it can     *)
(* leave the queue, and who works for it is not taken over by another.     *)
(*                                                                         *)
(* Inv is about the types; IInv adds, for every record of the queues, how  *)
(* its counts bound the units that hold its id (Works), and is kept by     *)
(* every step but those of a hand over that brings a nation of the AI a    *)
(* unit with the id of another nation's action (NothingCarriedOver).       *)
(***************************************************************************)
EXTENDS ActionQueue, FiniteSetTheorems, SequenceTheorems, TLAPS

-----------------------------------------------------------------------------
(* The invariant.                                                          *)

Modes == {"assign", "worker"} \cup TravelModes
States == {"inside", "idle", "ordered", "boarding", "aboard", "training", "dead"}

Records ==
  [action_mode : Modes, action_para : Places \cup SeaActions, action_para2 : Units \cup {None},
   action_id : Nat, unit_recno : Generals \cup {None}, group : SUBSET Troops,
   instance_count : Nat, processing_instance_count : Nat, processed_instance_count : Nat,
   retry_count : 0..STD_ACTION_RETRY_COUNT, wait : 0..RetryWait, age : 0..(Overdue + 1)]
Queues == [action_array : Seq(Records), cur_pos : Nat, last_action_id : Nat]
UnitRecords ==
  [nation_recno : Nations, ai_action_id : Nat, ship : Units \cup {None}, state : States]

\* The current record exists; ids have been given out and none twice.
QueueOK(q) ==
  /\ q.cur_pos \in 0..Len(q.action_array)
  /\ \A i \in 1..Len(q.action_array) : q.action_array[i].action_id \in 1..q.last_action_id
  /\ \A i, j \in 1..Len(q.action_array) :
       q.action_array[i].action_id = q.action_array[j].action_id => i = j
AiOK(f) == f \in [Nations -> Queues] /\ \A n \in Nations : QueueOK(f[n])

\* Who has entered a place works for no action any more.
Within(r) == r.state \in {"inside", "training"}
UnitsOK(g) ==
  /\ g \in [Units -> UnitRecords]
  /\ \A u \in Units : Within(g[u]) => g[u].ai_action_id = 0

\* Who is to be trained is in training.
TrainOK(g, t) ==
  t = None \/ (t \in [unit : Generals, id : Nat] /\ g[t.unit].state = "training")

IsWorld(w) == w = [ai |-> w.ai, unit |-> w.unit, train |-> w.train]
Sound(w) == IsWorld(w) /\ AiOK(w.ai) /\ UnitsOK(w.unit) /\ TrainOK(w.unit, w.train)

Calls ==
  {Idle} \cup [call : {"pass"}, nation : Nations, recno : Nat \ {0}, count : Nat]
         \cup [call : {"handover"}, nation : Nations, to : Nations]
Inv == Sound(World) /\ busy \in Calls

\* Nobody enters a place, or begins its training, but those within.
Inward(w, v) == \A u \in Units : Within(v.unit[u]) => Within(w.unit[u])

-----------------------------------------------------------------------------
(* Parts of a world.                                                       *)

\* The queues are replaced ...
LEMMA AiSet ==
  ASSUME NEW w, IsWorld(w), NEW x
  PROVE  LET v == [w EXCEPT !.ai = x]
         IN  IsWorld(v) /\ v.ai = x /\ v.unit = w.unit /\ v.train = w.train
<1>1. [w EXCEPT !.ai = x] = [ai |-> x, unit |-> w.unit, train |-> w.train]
  BY DEF IsWorld
<1> QED BY <1>1 DEF IsWorld

\* ... the units ...
LEMMA UnitSet ==
  ASSUME NEW w, IsWorld(w), NEW x
  PROVE  LET v == [w EXCEPT !.unit = x]
         IN  IsWorld(v) /\ v.ai = w.ai /\ v.unit = x /\ v.train = w.train
<1>1. [w EXCEPT !.unit = x] = [ai |-> w.ai, unit |-> x, train |-> w.train]
  BY DEF IsWorld
<1> QED BY <1>1 DEF IsWorld

\* ... and who is trained.
LEMMA TrainSet ==
  ASSUME NEW w, IsWorld(w), NEW x
  PROVE  LET v == [w EXCEPT !.train = x]
         IN  IsWorld(v) /\ v.ai = w.ai /\ v.unit = w.unit /\ v.train = x
<1>1. [w EXCEPT !.train = x] = [ai |-> w.ai, unit |-> w.unit, train |-> x]
  BY DEF IsWorld
<1> QED BY <1>1 DEF IsWorld

\* The records of a queue and of the units.
LEMMA PartsOf ==
  ASSUME NEW w, Sound(w)
  PROVE  /\ IsWorld(w)
         /\ \A n \in Nations :
              /\ w.ai[n] \in Queues /\ QueueOK(w.ai[n])
              /\ Queue(w, n) \in Seq(Records) /\ Len(Queue(w, n)) \in Nat
              /\ DOMAIN Queue(w, n) = 1..Len(Queue(w, n))
              /\ \A i \in DOMAIN Queue(w, n) : Queue(w, n)[i] \in Records
         /\ \A u \in Units : w.unit[u] \in UnitRecords
<1>1. ASSUME NEW n \in Nations
      PROVE  /\ w.ai[n] \in Queues /\ QueueOK(w.ai[n])
             /\ Queue(w, n) \in Seq(Records) /\ Len(Queue(w, n)) \in Nat
             /\ DOMAIN Queue(w, n) = 1..Len(Queue(w, n))
             /\ \A i \in DOMAIN Queue(w, n) : Queue(w, n)[i] \in Records
  <2>1. w.ai[n] \in Queues /\ QueueOK(w.ai[n])
    BY DEF Sound, AiOK
  <2>2. Queue(w, n) \in Seq(Records)
    BY <2>1 DEF Queue, Queues
  <2> DEFINE q == Queue(w, n)
  <2> HIDE DEF q
  <2>3. Len(q) \in Nat /\ DOMAIN q = 1..Len(q) /\ \A i \in DOMAIN q : q[i] \in Records
    BY <2>2 DEF q
  <2> QED BY <2>1, <2>2, <2>3 DEF q
<1> QED BY <1>1 DEF Sound, UnitsOK

\* The queue of one nation is replaced.
LEMMA OneQueue ==
  ASSUME NEW w, Sound(w), NEW n \in Nations, NEW q \in Queues, QueueOK(q)
  PROVE  LET v == [w EXCEPT !.ai[n] = q]
         IN  Sound(v) /\ v.unit = w.unit /\ v.train = w.train /\ v.ai[n] = q
<1> DEFINE f == [w.ai EXCEPT ![n] = q]
           v == [w EXCEPT !.ai[n] = q]
<1>1. IsWorld(w) /\ AiOK(w.ai) /\ UnitsOK(w.unit) /\ TrainOK(w.unit, w.train)
  BY DEF Sound
<1>2. v = [w EXCEPT !.ai = f]
  BY <1>1 DEF IsWorld
<1>3. AiOK(f) /\ f[n] = q
  BY <1>1 DEF AiOK
<1> HIDE DEF f, v
<1>4. IsWorld(v) /\ v.ai = f /\ v.unit = w.unit /\ v.train = w.train
  BY <1>1, <1>2, AiSet
<1>5. Sound(v)
  BY <1>1, <1>3, <1>4 DEF Sound
<1> QED BY <1>3, <1>4, <1>5 DEF v


-----------------------------------------------------------------------------
(* Operators on worlds.                                                    *)

\* A sequence without its i-th element.
LEMMA WithoutOne ==
  ASSUME NEW S, NEW s \in Seq(S), NEW i \in 1..Len(s)
  PROVE  LET t == RemoveAt(s, i)
         IN  /\ t \in Seq(S) /\ Len(t) = Len(s) - 1
             /\ \A j \in 1..(Len(s) - 1) : t[j] = IF j < i THEN s[j] ELSE s[j + 1]
<1> DEFINE n == Len(s)
           u == SubSeq(s, 1, i - 1)
           v == SubSeq(s, i + 1, n)
           t == RemoveAt(s, i)
<1>1. n \in Nat /\ i \in 1..n
  OBVIOUS
<1>2. u \in Seq(S) /\ Len(u) = i - 1 /\ \A j \in 1..(i - 1) : u[j] = s[j]
  BY <1>1, SubSeqProperties
<1>3. v \in Seq(S) /\ Len(v) = n - i /\ \A j \in 1..(n - i) : v[j] = s[i + j]
  <2> DEFINE m == i + 1
  <2>1. /\ m \in 1..(n + 1) /\ n \in (m - 1)..n /\ n - m + 1 = n - i
        /\ \A j \in 1..(n - i) : m + j - 1 = i + j
    BY <1>1
  <2> HIDE DEF m
  <2>2. /\ SubSeq(s, m, n) \in Seq(S) /\ Len(SubSeq(s, m, n)) = n - m + 1
        /\ \A j \in 1..(n - m + 1) : SubSeq(s, m, n)[j] = s[m + j - 1]
    BY <2>1, SubSeqProperties
  <2> QED BY <2>1, <2>2 DEF m
<1>4. t = u \o v
  BY DEF RemoveAt
<1> HIDE DEF u, v, t
<1>5. /\ u \o v \in Seq(S) /\ Len(u \o v) = Len(u) + Len(v)
      /\ \A j \in 1..(Len(u) + Len(v)) : (u \o v)[j] = IF j <= Len(u) THEN u[j] ELSE v[j - Len(u)]
  BY <1>2, <1>3, ConcatProperties
<1>6. t \in Seq(S) /\ Len(t) = n - 1
  BY <1>1, <1>2, <1>3, <1>4, <1>5
<1>7. ASSUME NEW j \in 1..(n - 1) PROVE t[j] = IF j < i THEN s[j] ELSE s[j + 1]
  <2>1. CASE j < i
    BY <1>1, <1>2, <1>3, <1>4, <1>5, <2>1
  <2>2. CASE ~(j < i)
    <3>1. j - (i - 1) \in 1..(n - i) /\ i + (j - (i - 1)) = j + 1
      BY <1>1, <2>2
    <3>2. t[j] = v[j - (i - 1)]
      BY <1>1, <1>2, <1>3, <1>4, <1>5, <2>2
    <3> QED BY <1>3, <2>2, <3>1, <3>2
  <2> QED BY <2>1, <2>2
<1> QED BY <1>6, <1>7 DEF t

\* What is left of a queue when a record is deleted: the others, in their order.
Shorter(s, t, i) ==
  /\ Len(t) = Len(s) - 1
  /\ \A j \in 1..(Len(s) - 1) : t[j].action_id = (IF j < i THEN s[j] ELSE s[j + 1]).action_id

\* del_action: the current record still exists.
LEMMA Deleted ==
  ASSUME NEW w, Sound(w), NEW n \in Nations, NEW i
  PROVE  LET v == del_action(w, n, i)
         IN  /\ Sound(v) /\ v.unit = w.unit /\ v.train = w.train
             /\ i \in DOMAIN Queue(w, n) => Shorter(Queue(w, n), Queue(v, n), i)
             /\ i \notin DOMAIN Queue(w, n) => v = w
<1> DEFINE s == w.ai[n].action_array
           v == del_action(w, n, i)
<1>1. /\ s \in Seq(Records) /\ DOMAIN s = 1..Len(s) /\ Len(s) \in Nat
      /\ Queue(w, n) = s /\ w.ai[n] \in Queues /\ QueueOK(w.ai[n])
  BY PartsOf DEF Queue
<1>2. CASE i \notin DOMAIN s
  <2>1. v = w
    BY <1>1, <1>2 DEF del_action
  <2> QED BY <1>1, <1>2, <2>1
<1>3. CASE i \in DOMAIN s
  <2> DEFINE t == RemoveAt(s, i)
             c == w.ai[n].cur_pos
             l == w.ai[n].last_action_id
             d == IF c <= Len(s) - 1 THEN c ELSE Len(s) - 1
             q == [action_array |-> t, cur_pos |-> d, last_action_id |-> l]
  <2>1. v = [w EXCEPT !.ai[n] = q]
    BY <1>1, <1>3 DEF del_action
  <2>2. i \in 1..Len(s)
    BY <1>1, <1>3
  <2>3. t \in Seq(Records) /\ Len(t) = Len(s) - 1
        /\ \A j \in 1..(Len(s) - 1) : t[j] = IF j < i THEN s[j] ELSE s[j + 1]
    <3> HIDE DEF s
    <3> QED BY <1>1, <2>2, WithoutOne
  <2>4. c \in 0..Len(s) /\ d \in 0..(Len(s) - 1) /\ d \in Nat /\ l \in Nat
    BY <1>1, <2>2 DEF QueueOK, Queues
  <2>5. \A j \in 1..Len(s) : s[j].action_id \in 1..l
    BY <1>1 DEF QueueOK
  <2>6. \A j, k \in 1..Len(s) : s[j].action_id = s[k].action_id => j = k
    BY <1>1 DEF QueueOK
  <2> HIDE DEF t, d, l
  <2>7. q \in Queues
    <3> DEFINE Lists == Seq(Records)
    <3>1. t \in Lists
      BY <2>3
    <3> HIDE DEF Lists
    <3>2. q \in [action_array : Lists, cur_pos : Nat, last_action_id : Nat]
      BY <2>4, <3>1
    <3> QED BY <3>2 DEF Queues, Lists
  <2>8. QueueOK(q)
    <3> DEFINE at(j) == IF j < i THEN j ELSE j + 1
    <3>1. \A j \in 1..(Len(s) - 1) : at(j) \in 1..Len(s) /\ t[j] = s[at(j)]
      BY <1>1, <2>2, <2>3
    <3>2. \A j, k \in 1..(Len(s) - 1) : at(j) = at(k) => j = k
      BY <1>1, <2>2
    <3> HIDE DEF at, s
    <3>3. \A j \in 1..(Len(s) - 1) : t[j].action_id \in 1..l
      BY <2>5, <3>1
    <3>4. \A j, k \in 1..(Len(s) - 1) : t[j].action_id = t[k].action_id => j = k
      BY <2>6, <3>1, <3>2
    <3> QED BY <2>3, <2>4, <3>3, <3>4 DEF QueueOK
  <2>9. q.action_array = t
    OBVIOUS
  <2> HIDE DEF q, v
  <2>10. Sound(v) /\ v.unit = w.unit /\ v.train = w.train /\ v.ai[n] = q
    BY <2>1, <2>7, <2>8, OneQueue
  <2>11. Queue(v, n) = t
    BY <2>9, <2>10 DEF Queue
  <2> QED BY <1>1, <1>3, <2>3, <2>10, <2>11 DEF v, Shorter
<1> QED BY <1>1, <1>2, <1>3

\* A queue whose records have the same ids.
SameIds(s, t) ==
  Len(t) = Len(s) /\ \A j \in 1..Len(s) : t[j].action_id = s[j].action_id

\* A record is rewritten and keeps its id.
LEMMA Rewritten ==
  ASSUME NEW w, Sound(w), NEW n \in Nations, NEW i \in DOMAIN Queue(w, n),
         NEW b \in Records, b.action_id = Queue(w, n)[i].action_id
  PROVE  LET v == Noted(w, n, i, b)
         IN  /\ Sound(v) /\ v.unit = w.unit /\ v.train = w.train
             /\ SameIds(Queue(w, n), Queue(v, n)) /\ Queue(v, n)[i] = b
<1> DEFINE s == w.ai[n].action_array
           t == [s EXCEPT ![i] = b]
           v == Noted(w, n, i, b)
           c == w.ai[n].cur_pos
           l == w.ai[n].last_action_id
           q == [action_array |-> t, cur_pos |-> c, last_action_id |-> l]
<1>1. /\ s \in Seq(Records) /\ DOMAIN s = 1..Len(s) /\ Len(s) \in Nat
      /\ Queue(w, n) = s /\ w.ai[n] \in Queues /\ QueueOK(w.ai[n]) /\ IsWorld(w)
  BY PartsOf DEF Queue
<1>2. i \in 1..Len(s) /\ b.action_id = s[i].action_id
  BY <1>1
<1>3. t \in Seq(Records) /\ Len(t) = Len(s)
      /\ \A j \in 1..Len(s) : t[j] = IF j = i THEN b ELSE s[j]
  <2> HIDE DEF s
  <2> QED BY <1>1, <1>2
<1>4. v = [w EXCEPT !.ai[n] = q]
  <2>1. v = [w EXCEPT !.ai[n] = [w.ai[n] EXCEPT !.action_array = t]]
    BY <1>1 DEF Noted, IsWorld
  <2> HIDE DEF t
  <2>2. [w.ai[n] EXCEPT !.action_array = t] = q
    BY <1>1 DEF Queues
  <2> QED BY <2>1, <2>2
<1>5. c \in 0..Len(s) /\ c \in Nat /\ l \in Nat
  BY <1>1 DEF QueueOK, Queues
<1>6. \A j \in 1..Len(s) : t[j].action_id = s[j].action_id
  <2> HIDE DEF s, t
  <2> QED BY <1>2, <1>3
<1>7. \A j \in 1..Len(s) : s[j].action_id \in 1..l
  BY <1>1 DEF QueueOK
<1>8. \A j, k \in 1..Len(s) : s[j].action_id = s[k].action_id => j = k
  BY <1>1 DEF QueueOK
<1> HIDE DEF s, t, c, l, v
<1>9. q \in Queues
  <2> DEFINE Lists == Seq(Records)
  <2>1. t \in Lists
    BY <1>3
  <2> HIDE DEF Lists
  <2>2. q \in [action_array : Lists, cur_pos : Nat, last_action_id : Nat]
    BY <1>5, <2>1
  <2> QED BY <2>2 DEF Queues, Lists
<1>10. QueueOK(q)
  BY <1>3, <1>5, <1>6, <1>7, <1>8 DEF QueueOK
<1>11. q.action_array = t
  OBVIOUS
<1> HIDE DEF q
<1>12. Sound(v) /\ v.unit = w.unit /\ v.train = w.train /\ v.ai[n] = q
  BY <1>4, <1>9, <1>10, OneQueue
<1>13. Queue(v, n) = t
  BY <1>11, <1>12 DEF Queue
<1>14. SameIds(s, t) /\ t[i] = b
  BY <1>2, <1>3, <1>6 DEF SameIds
<1> QED BY <1>1, <1>12, <1>13, <1>14 DEF v

\* Units get an order: none that is in training.
Orders(w, U, id, state, ship) ==
  /\ U \subseteq Units /\ \A u \in U \cap Generals : w.unit[u].state # "training"
  /\ id \in Nat /\ state \in States \ {"inside", "training"} /\ ship \in Units \cup {None}

\* They get it, and the queue is as it was.
LEMMA OrderedIs ==
  ASSUME NEW w, Sound(w), NEW U, NEW id, NEW state, NEW ship, Orders(w, U, id, state, ship),
         NEW v, v = Ordered(w, U, id, state, ship)
  PROVE  /\ Sound(v) /\ v.ai = w.ai /\ v.train = w.train /\ Inward(w, v)
         /\ \A u \in U : v.unit[u].state = state
         /\ \A u \in Units : u \notin U => v.unit[u] = w.unit[u]
<1> DEFINE new(u) == [w.unit[u] EXCEPT !.ai_action_id = id, !.state = state, !.ship = ship]
           g == [u \in Units |-> IF u \in U THEN new(u) ELSE w.unit[u]]
<1>0. /\ U \subseteq Units /\ \A u \in U \cap Generals : w.unit[u].state # "training"
      /\ id \in Nat /\ state \in States \ {"inside", "training"} /\ ship \in Units \cup {None}
  BY DEF Orders
<1>1. IsWorld(w) /\ UnitsOK(w.unit) /\ \A u \in Units : w.unit[u] \in UnitRecords
  BY PartsOf DEF Sound
<1>2. v = [w EXCEPT !.unit = g]
  BY DEF Ordered
<1>3. \A u \in Units : new(u) \in UnitRecords /\ new(u).state = state
  BY <1>0, <1>1 DEF UnitRecords
<1> HIDE DEF new
<1>4. /\ g \in [Units -> UnitRecords]
      /\ \A u \in Units : g[u] = IF u \in U THEN new(u) ELSE w.unit[u]
  BY <1>1, <1>3
<1> HIDE DEF g
<1>5. IsWorld(v) /\ v.ai = w.ai /\ v.unit = g /\ v.train = w.train
  BY <1>1, <1>2, UnitSet
<1>6. \A u \in Units : Within(g[u]) => u \notin U
  BY <1>0, <1>3, <1>4 DEF Within
<1>7. UnitsOK(g) /\ Inward(w, v)
  BY <1>1, <1>4, <1>5, <1>6 DEF UnitsOK, Inward
<1>8. TrainOK(g, w.train)
  <2>1. w.train = None \/ (w.train \in [unit : Generals, id : Nat] /\ w.unit[w.train.unit].state = "training")
    BY DEF Sound, TrainOK
  <2>2. ASSUME w.train \in [unit : Generals, id : Nat], w.unit[w.train.unit].state = "training"
        PROVE  g[w.train.unit].state = "training"
    <3>1. w.train.unit \in Units /\ w.train.unit \notin U
      BY <1>0, <2>2 DEF Units
    <3> QED BY <1>4, <2>2, <3>1
  <2> QED BY <2>1, <2>2 DEF TrainOK
<1>9. Sound(v)
  BY <1>5, <1>7, <1>8 DEF Sound
<1>10. \A u \in U : v.unit[u].state = state
  BY <1>0, <1>3, <1>4, <1>5
<1>11. \A u \in Units : u \notin U => v.unit[u] = w.unit[u]
  BY <1>4, <1>5
<1> QED BY <1>5, <1>7, <1>9, <1>10, <1>11

\* One unit changes what it does.
LEMMA DoingIs ==
  ASSUME NEW w, Sound(w), NEW u \in Units, NEW state \in States, NEW id \in Nat,
         state \in {"inside", "training"} => id = 0,
         u \in Generals /\ w.unit[u].state = "training" => state = "training"
  PROVE  LET v == Doing(w, u, state, id)
         IN  /\ Sound(v) /\ v.ai = w.ai /\ v.train = w.train
             /\ v.unit[u].state = state
             /\ \A x \in Units : x # u => v.unit[x] = w.unit[x]
<1> DEFINE r == w.unit[u]
           b == [nation_recno |-> r.nation_recno, ai_action_id |-> id,
                 ship |-> r.ship, state |-> state]
           g == [w.unit EXCEPT ![u] = b]
           v == Doing(w, u, state, id)
<1>1. /\ IsWorld(w) /\ w.unit \in [Units -> UnitRecords] /\ r \in UnitRecords
      /\ \A x \in Units : Within(w.unit[x]) => w.unit[x].ai_action_id = 0
  BY DEF Sound, UnitsOK
<1>2. v = [w EXCEPT !.unit = g]
  <2>1. v = [w EXCEPT !.unit = [w.unit EXCEPT ![u] =
                                  [w.unit[u] EXCEPT !.state = state, !.ai_action_id = id]]]
    BY <1>1 DEF Doing, IsWorld
  <2> DEFINE c == [nation_recno |-> r.nation_recno, ai_action_id |-> r.ai_action_id,
                   ship |-> r.ship, state |-> state]
  <2>2. [w.unit[u] EXCEPT !.state = state] = c
    BY <1>1 DEF UnitRecords
  <2>3. [w.unit[u] EXCEPT !.state = state, !.ai_action_id = id] = [c EXCEPT !.ai_action_id = id]
    <3> HIDE DEF c
    <3> QED BY <2>2
  <2>4. [c EXCEPT !.ai_action_id = id] = b
    <3> DEFINE rn == r.nation_recno
               rs == r.ship
    <3> HIDE DEF rn, rs
    <3> QED OBVIOUS
  <2> HIDE DEF b, c
  <2> QED BY <2>1, <2>3, <2>4
<1>3. b \in UnitRecords /\ b.state = state /\ b.ai_action_id = id
  BY <1>1 DEF UnitRecords
<1> HIDE DEF b
<1>4. /\ g \in [Units -> UnitRecords] /\ g[u] = b
      /\ \A x \in Units : x # u => g[x] = w.unit[x]
  BY <1>1, <1>3
<1> HIDE DEF g, v
<1>5. IsWorld(v) /\ v.ai = w.ai /\ v.unit = g /\ v.train = w.train
  BY <1>1, <1>2, UnitSet
<1>6. UnitsOK(g)
  BY <1>1, <1>3, <1>4 DEF UnitsOK, Within
<1>7. TrainOK(g, w.train)
  <2>1. w.train = None \/ (w.train \in [unit : Generals, id : Nat] /\ w.unit[w.train.unit].state = "training")
    BY DEF Sound, TrainOK
  <2>2. ASSUME w.train \in [unit : Generals, id : Nat], w.unit[w.train.unit].state = "training"
        PROVE  g[w.train.unit].state = "training"
    <3>1. w.train.unit \in Units /\ w.train.unit \in Generals
      BY <2>2 DEF Units
    <3> QED BY <1>3, <1>4, <2>2, <3>1
  <2> QED BY <2>1, <2>2 DEF TrainOK
<1>8. Sound(v)
  BY <1>5, <1>6, <1>7 DEF Sound
<1> QED BY <1>3, <1>4, <1>5, <1>8 DEF v

\* One unit gets an order.
LEMMA OneOrdered ==
  ASSUME NEW w, Sound(w), NEW u \in Units, u \in Generals => w.unit[u].state # "training",
         NEW id \in Nat, NEW v, v = Ordered(w, {u}, id, "ordered", None)
  PROVE  Sound(v) /\ v.ai = w.ai /\ Inward(w, v)
<1>1. Orders(w, {u}, id, "ordered", None)
  BY DEF Orders, States
<1> QED BY <1>1, OrderedIs

-----------------------------------------------------------------------------
(* The handlers.                                                           *)

\* A handler leaves the queue with the ids it found, and its record with the tries it had.
Handled(w, v, n, i) ==
  /\ Sound(v) /\ Inward(w, v)
  /\ SameIds(Queue(w, n), Queue(v, n))
  /\ Queue(v, n)[i] \in Records
  /\ Queue(v, n)[i].retry_count = Queue(w, n)[i].retry_count

\* Who enters no place in one change and none in the next enters none in both.
LEMMA InwardChain ==
  ASSUME NEW w, NEW v, NEW x, Inward(w, v), Inward(v, x)
  PROVE  Inward(w, x)
BY DEF Inward

\* Nothing is done.
LEMMA HandledSelf ==
  ASSUME NEW w, Sound(w), NEW n \in Nations, NEW i \in DOMAIN Queue(w, n)
  PROVE  Handled(w, w, n, i)
<1>1. Queue(w, n)[i] \in Records /\ Inward(w, w) /\ SameIds(Queue(w, n), Queue(w, n))
  BY PartsOf DEF Inward, SameIds
<1> QED BY <1>1 DEF Handled

\* Units alone are changed.
LEMMA HandledUnits ==
  ASSUME NEW w, Sound(w), NEW n \in Nations, NEW i \in DOMAIN Queue(w, n),
         NEW v, Sound(v), Inward(w, v), v.ai = w.ai
  PROVE  Handled(w, v, n, i)
<1>1. Queue(w, n)[i] \in Records /\ SameIds(Queue(w, n), Queue(w, n))
  BY PartsOf DEF SameIds
<1> QED BY <1>1 DEF Handled, Queue

\* One change after the other
LEMMA HandledChain ==
  ASSUME NEW w, NEW v, NEW x, NEW n, NEW i, Handled(w, v, n, i), Handled(v, x, n, i)
  PROVE  Handled(w, x, n, i)
BY InwardChain DEF Handled, SameIds

\* Units are changed and then the record.
LEMMA HandledNoted ==
  ASSUME NEW w, Sound(w), NEW n \in Nations, NEW i \in DOMAIN Queue(w, n),
         NEW v, Sound(v), Inward(w, v), v.ai = w.ai,
         NEW b \in Records, b.action_id = Queue(w, n)[i].action_id,
         b.retry_count = Queue(w, n)[i].retry_count
  PROVE  Handled(w, Noted(v, n, i, b), n, i)
<1>1. i \in DOMAIN Queue(v, n) /\ b.action_id = Queue(v, n)[i].action_id
      /\ Queue(v, n) = Queue(w, n)
  BY DEF Queue
<1> DEFINE x == Noted(v, n, i, b)
<1> HIDE DEF x
<1>2. /\ Sound(x) /\ x.unit = v.unit
      /\ SameIds(Queue(v, n), Queue(x, n)) /\ Queue(x, n)[i] = b
  BY <1>1, Rewritten DEF x
<1>3. Inward(w, x)
  BY <1>2 DEF Inward
<1>4. Handled(w, x, n, i)
  BY <1>1, <1>2, <1>3 DEF Handled
<1> QED BY <1>4 DEF x

\* A recruit is trained.
LEMMA TrainedIs ==
  ASSUME NEW w, Sound(w), NEW n \in Nations, NEW id \in Nat, NEW v \in Trained(w, n, id)
  PROVE  Sound(v) /\ Inward(w, v) /\ v.ai = w.ai
<1>1. PICK u \in Generals :
        /\ IsInside(w, n, u)
        /\ v = [KeepsDoing(w, u, "training") EXCEPT !.train = [unit |-> u, id |-> id]]
  BY DEF Trained
<1> DEFINE x == KeepsDoing(w, u, "training")
           t == [unit |-> u, id |-> id]
<1>2. u \in Units /\ w.unit[u] \in UnitRecords /\ w.unit[u].state = "inside"
      /\ w.unit[u].ai_action_id = 0 /\ w.train = None
  BY <1>1 DEF Units, IsInside, Sound, UnitsOK, Within, Trained
<1>3. /\ Sound(x) /\ x.ai = w.ai /\ x.unit[u].state = "training"
      /\ \A y \in Units : y # u => x.unit[y] = w.unit[y]
  <2>1. "training" \in States /\ 0 \in Nat
    BY DEF States
  <2>2. x = Doing(w, u, "training", 0)
    BY <1>2 DEF KeepsDoing
  <2> HIDE DEF x
  <2> QED BY <1>2, <2>1, <2>2, DoingIs
<1> HIDE DEF x
<1>4. t \in [unit : Generals, id : Nat] /\ t.unit = u
  OBVIOUS
<1>5. v = [x EXCEPT !.train = t]
  BY <1>1 DEF x
<1> HIDE DEF t
<1>6. IsWorld(v) /\ v.ai = x.ai /\ v.unit = x.unit /\ v.train = t
  BY <1>3, <1>5, TrainSet DEF Sound
<1>7. Sound(v)
  BY <1>3, <1>4, <1>6 DEF Sound, TrainOK
<1>8. Inward(w, v)
  BY <1>2, <1>3, <1>6 DEF Inward, Within
<1> QED BY <1>3, <1>6, <1>7, <1>8

\* A general, a builder or a spy is sent.
LEMMA AssignIs ==
  ASSUME NEW w, Sound(w), NEW n \in Nations, NEW i \in DOMAIN Queue(w, n),
         NEW r \in ai_assign(w, n, i)
  PROVE  r.rc \in {"remove", "retry", "ordered"} /\ Handled(w, r.w, n, i)
<1> DEFINE a == Queue(w, n)[i]
           Sent(u) ==
             Noted(Ordered(w, {u}, a.action_id, "ordered", None), n, i, [a EXCEPT !.unit_recno = u])
<1>1. a \in Records /\ a.action_id \in Nat
  BY PartsOf DEF Records
<1>2. \/ r \in {Outcome("remove", w), Outcome("retry", w)}
      \/ \E u \in SkilledUnits(w, n, a) : r = Outcome("ordered", Sent(u))
      \/ \E v \in Trained(w, n, a.action_id) : r = Outcome("retry", v)
  BY DEF ai_assign
<1>3. CASE r \in {Outcome("remove", w), Outcome("retry", w)}
  BY <1>3, HandledSelf DEF Outcome
<1>4. CASE \E v \in Trained(w, n, a.action_id) : r = Outcome("retry", v)
  <2>1. PICK v \in Trained(w, n, a.action_id) : r = Outcome("retry", v)
    BY <1>4
  <2>2. Sound(v) /\ Inward(w, v) /\ v.ai = w.ai
    BY <1>1, <2>1, TrainedIs
  <2>3. Handled(w, v, n, i)
    BY <2>2, HandledUnits
  <2> QED BY <2>1, <2>3 DEF Outcome
<1>5. CASE \E u \in SkilledUnits(w, n, a) : r = Outcome("ordered", Sent(u))
  <2>1. PICK u \in SkilledUnits(w, n, a) : r = Outcome("ordered", Sent(u))
    BY <1>5
  <2>2. u \in Generals /\ u \in Units /\ w.unit[u].state # "training"
    BY <1>1, <2>1, QueueAssumption
       DEF SkilledUnits, Records, is_visible, IsFree, IsInside, Units
  <2> DEFINE v == Ordered(w, {u}, a.action_id, "ordered", None)
             b == [a EXCEPT !.unit_recno = u]
  <2>3. Sound(v) /\ v.ai = w.ai /\ Inward(w, v)
    BY <1>1, <2>2, OneOrdered
  <2>4. b \in Records /\ b.action_id = a.action_id /\ b.retry_count = a.retry_count
    <3> HIDE DEF a
    <3> QED BY <1>1, <2>2 DEF Records
  <2> HIDE DEF v, b
  <2>5. Handled(w, Noted(v, n, i, b), n, i)
    BY <2>3, <2>4, HandledNoted
  <2>6. r = Outcome("ordered", Noted(v, n, i, b))
    BY <2>1 DEF v, b
  <2> QED BY <2>5, <2>6 DEF Outcome
<1> QED BY <1>2, <1>3, <1>4, <1>5

Results == {"remove", "retry", "training", "ordered"}
Asking(w, n, i, k) == Noted(w, n, i, [Queue(w, n)[i] EXCEPT !.instance_count = k])

\* A recruit is sent or trained.
LEMMA RecruitsIs ==
  ASSUME NEW w, Sound(w), NEW n \in Nations, NEW i \in DOMAIN Queue(w, n),
         NEW r \in Recruits(w, n, i)
  PROVE  r.rc \in Results /\ Handled(w, r.w, n, i)
<1> DEFINE a == Queue(w, n)[i]
<1>1. a \in Records /\ a.action_id \in Nat
  BY PartsOf DEF Records
<1>2. \/ r = Outcome("retry", w)
      \/ \E u \in Troops : /\ IsInside(w, n, u)
                           /\ r = Outcome("ordered", Ordered(w, {u}, a.action_id, "ordered", None))
      \/ \E v \in Trained(w, n, a.action_id) : r = Outcome("training", v)
  BY DEF Recruits
<1>3. CASE r = Outcome("retry", w)
  BY <1>3, HandledSelf DEF Outcome, Results
<1>4. ASSUME NEW u \in Troops,
             r = Outcome("ordered", Ordered(w, {u}, a.action_id, "ordered", None))
      PROVE  r.rc \in Results /\ Handled(w, r.w, n, i)
  <2> DEFINE v == Ordered(w, {u}, a.action_id, "ordered", None)
  <2>1. Sound(v) /\ v.ai = w.ai /\ Inward(w, v)
    BY <1>1, OneOrdered, QueueAssumption DEF Units
  <2> HIDE DEF v
  <2>2. Handled(w, v, n, i)
    BY <2>1, HandledUnits
  <2>3. r = Outcome("ordered", v)
    BY <1>4 DEF v
  <2> QED BY <2>2, <2>3 DEF Outcome, Results
<1>5. ASSUME NEW v \in Trained(w, n, a.action_id), r = Outcome("training", v)
      PROVE  r.rc \in Results /\ Handled(w, r.w, n, i)
  <2>1. Sound(v) /\ Inward(w, v) /\ v.ai = w.ai
    BY <1>1, TrainedIs
  <2> QED BY <1>5, <2>1, HandledUnits DEF Outcome, Results
<1> QED BY <1>2, <1>3, <1>4, <1>5

\* The action asks for fewer, but for one more than have been sent.
LEMMA FewerAsked ==
  ASSUME NEW a \in Records, NEW k \in Needed(a)
  PROVE  LET b == [a EXCEPT !.instance_count = k]
         IN  /\ b \in Records /\ b.action_id = a.action_id /\ b.retry_count = a.retry_count
             /\ b.instance_count = k /\ b.action_mode = a.action_mode
             /\ b.unit_recno = a.unit_recno /\ b.action_para2 = a.action_para2
             /\ b.processing_instance_count = a.processing_instance_count
             /\ b.processed_instance_count = a.processed_instance_count
             /\ k > a.processing_instance_count /\ k <= a.instance_count /\ k \in Nat
<1>1. /\ a.processing_instance_count \in Nat /\ a.instance_count \in Nat
  BY DEF Records
<1>2. k \in Nat /\ k > a.processing_instance_count /\ k <= a.instance_count
  BY <1>1 DEF Needed
<1> QED BY <1>2 DEF Records

\* What is needed is noted, and then people are recruited.
LEMMA WorkerIs ==
  ASSUME NEW w, Sound(w), NEW n \in Nations, NEW i \in DOMAIN Queue(w, n),
         NEW r \in ai_assign_worker(w, n, i)
  PROVE  r.rc \in Results /\ Handled(w, r.w, n, i)
<1> DEFINE a == Queue(w, n)[i]
<1>1. \/ r \in {Outcome("remove", w), Outcome("retry", w)}
      \/ \E k \in Needed(a) : r \in Recruits(Asking(w, n, i, k), n, i)
  BY DEF ai_assign_worker, Asking
<1>2. CASE r \in {Outcome("remove", w), Outcome("retry", w)}
  BY <1>2, HandledSelf DEF Outcome, Results
<1>3. ASSUME NEW k \in Needed(a), r \in Recruits(Asking(w, n, i, k), n, i)
      PROVE  r.rc \in Results /\ Handled(w, r.w, n, i)
  <2> DEFINE b == [a EXCEPT !.instance_count = k]
             v == Asking(w, n, i, k)
  <2>1. a \in Records /\ Inward(w, w)
    BY PartsOf DEF Inward
  <2>2. b \in Records /\ b.action_id = a.action_id /\ b.retry_count = a.retry_count
    BY <2>1, FewerAsked
  <2> HIDE DEF b
  <2>3. v = Noted(w, n, i, b)
    BY DEF Asking, b
  <2> HIDE DEF v
  <2>4. Handled(w, v, n, i)
    BY <2>1, <2>2, <2>3, HandledNoted
  <2>5. Sound(v) /\ i \in DOMAIN Queue(v, n)
    BY <2>4, PartsOf DEF Handled, SameIds
  <2>6. r.rc \in Results /\ Handled(v, r.w, n, i)
    BY <1>3, <2>5, RecruitsIs DEF v
  <2> QED BY <2>4, <2>6, HandledChain
<1> QED BY <1>1, <1>2, <1>3

\* People board a ship.
LEMMA TravelIs ==
  ASSUME NEW w, Sound(w), NEW n \in Nations, NEW i \in DOMAIN Queue(w, n),
         NEW r \in ai_sea_travel(w, n, i)
  PROVE  r.rc \in {"remove", "retry", "ordered"} /\ Handled(w, r.w, n, i)
<1> DEFINE a == Queue(w, n)[i]
           aboard(s) == Ordered(w, a.group, a.action_id, "boarding", s)
           sent(s) == Ordered(aboard(s), {s}, a.action_id, "ordered", None)
           b == [a EXCEPT !.instance_count = @ + 1,
                          !.processing_instance_count = a.instance_count,
                          !.action_para2 = None]
<1>1. a \in Records /\ a.action_id \in Nat /\ a.group \in SUBSET Troops
  BY PartsOf DEF Records
<1>2. r = Outcome("remove", w) \/ \E s \in Ships : r = Outcome("ordered", Noted(sent(s), n, i, b))
  BY DEF ai_sea_travel
<1>3. CASE r = Outcome("remove", w)
  BY <1>3, HandledSelf DEF Outcome
<1>4. ASSUME NEW s \in Ships, r = Outcome("ordered", Noted(sent(s), n, i, b))
      PROVE  r.rc \in {"remove", "retry", "ordered"} /\ Handled(w, r.w, n, i)
  <2>1. b \in Records /\ b.action_id = a.action_id /\ b.retry_count = a.retry_count
    <3> DEFINE p == a.instance_count + 1
               q == a.instance_count
    <3>1. p \in Nat /\ q \in Nat /\ a \in Records /\ None \in Units \cup {None}
      BY <1>1 DEF Records
    <3>2. b = [a EXCEPT !.instance_count = p, !.processing_instance_count = q,
                        !.action_para2 = None]
      OBVIOUS
    <3> HIDE DEF a, b, p, q
    <3> QED BY <3>1, <3>2 DEF Records
  <2> DEFINE v == aboard(s)
             x == sent(s)
  <2>2. Orders(w, a.group, a.action_id, "boarding", s)
    <3> HIDE DEF a
    <3> QED BY <1>1, QueueAssumption DEF Orders, States, Units
  <2> HIDE DEF a
  <2>3. Sound(v) /\ v.ai = w.ai /\ Inward(w, v)
    BY <2>2, OrderedIs
  <2>4. x = Ordered(v, {s}, a.action_id, "ordered", None) /\ s \in Units /\ s \notin Generals
    BY QueueAssumption DEF Units
  <2> HIDE DEF v, x, b
  <2>5. Sound(x) /\ x.ai = v.ai /\ Inward(v, x)
    BY <1>1, <2>3, <2>4, OneOrdered
  <2>6. Inward(w, x)
    BY <2>3, <2>5, InwardChain
  <2>7. Handled(w, Noted(x, n, i, b), n, i)
    BY <2>1, <2>3, <2>5, <2>6, HandledNoted DEF a
  <2>8. r = Outcome("ordered", Noted(x, n, i, b))
    BY <1>4 DEF x
  <2> QED BY <2>7, <2>8 DEF Outcome
<1> QED BY <1>2, <1>3, <1>4

\* Their ship sails.
LEMMA Travel2Is ==
  ASSUME NEW w, Sound(w), NEW n \in Nations, NEW i \in DOMAIN Queue(w, n),
         NEW r \in ai_sea_travel2(w, n, i)
  PROVE  r.rc \in {"remove", "retry", "ordered"} /\ Handled(w, r.w, n, i)
<1> DEFINE a == Queue(w, n)[i]
           v == Ordered(w, {a.action_para2}, a.action_id, "ordered", None)
<1>1. a \in Records /\ a.action_id \in Nat
  BY PartsOf DEF Records
<1>2. r = Outcome("remove", w) \/ (a.action_para2 \in Ships /\ r = Outcome("ordered", v))
  BY DEF ai_sea_travel2, HasShip
<1>3. CASE r = Outcome("remove", w)
  BY <1>3, HandledSelf DEF Outcome
<1>4. CASE a.action_para2 \in Ships /\ r = Outcome("ordered", v)
  <2>1. a.action_para2 \in Units /\ a.action_para2 \notin Generals
    BY <1>4, QueueAssumption DEF Units
  <2> HIDE DEF a
  <2>2. Sound(v) /\ v.ai = w.ai /\ Inward(w, v)
    BY <1>1, <2>1, OneOrdered
  <2> HIDE DEF v
  <2>3. Handled(w, v, n, i)
    BY <2>2, HandledUnits
  <2> QED BY <1>4, <2>3 DEF Outcome
<1> QED BY <1>2, <1>3, <1>4

\* Those who leave the ship keep their ids.
LEMMA AshoreIs ==
  ASSUME NEW w, Sound(w), NEW S, S \subseteq Troops, NEW v, v = Ashore(w, S)
  PROVE  /\ Sound(v) /\ v.ai = w.ai /\ Inward(w, v)
         /\ \A u \in Units :
              /\ v.unit[u].nation_recno = w.unit[u].nation_recno
              /\ v.unit[u].ai_action_id = w.unit[u].ai_action_id
              /\ u \in S => v.unit[u].state = "idle"
              /\ u \notin S => v.unit[u] = w.unit[u]
<1> DEFINE new(u) == [w.unit[u] EXCEPT !.state = "idle", !.ship = None]
           g == [u \in Units |-> IF u \in S THEN new(u) ELSE w.unit[u]]
<1>1. /\ IsWorld(w) /\ UnitsOK(w.unit) /\ AiOK(w.ai) /\ TrainOK(w.unit, w.train)
      /\ \A u \in Units : w.unit[u] \in UnitRecords
  BY PartsOf DEF Sound
<1>2. v = [w EXCEPT !.unit = g]
  BY DEF Ashore
<1>3. \A u \in Units :
        /\ new(u) \in UnitRecords /\ new(u).state = "idle"
        /\ new(u).nation_recno = w.unit[u].nation_recno
        /\ new(u).ai_action_id = w.unit[u].ai_action_id
  BY <1>1 DEF UnitRecords, States
<1> HIDE DEF new
<1>4. /\ g \in [Units -> UnitRecords]
      /\ \A u \in Units : g[u] = IF u \in S THEN new(u) ELSE w.unit[u]
  BY <1>1, <1>3
<1> HIDE DEF g
<1>5. IsWorld(v) /\ v.ai = w.ai /\ v.unit = g /\ v.train = w.train
  BY <1>1, <1>2, UnitSet
<1>6. \A u \in Units : Within(g[u]) => u \notin S
  BY <1>3, <1>4 DEF Within
<1>7. UnitsOK(g)
  BY <1>1, <1>4, <1>6 DEF UnitsOK
<1>8. TrainOK(g, w.train)
  <2>1. w.train = None \/ (w.train \in [unit : Generals, id : Nat] /\ w.unit[w.train.unit].state = "training")
    BY DEF Sound, TrainOK
  <2>2. ASSUME w.train \in [unit : Generals, id : Nat], w.unit[w.train.unit].state = "training"
        PROVE  g[w.train.unit].state = "training"
    <3>1. w.train.unit \in Units /\ w.train.unit \notin S
      BY <2>2, QueueAssumption DEF Units
    <3> QED BY <1>4, <2>2, <3>1
  <2> QED BY <2>1, <2>2 DEF TrainOK
<1>9. Sound(v)
  BY <1>1, <1>5, <1>7, <1>8 DEF Sound
<1>10. Inward(w, v)
  BY <1>4, <1>5, <1>6 DEF Inward
<1> QED BY <1>3, <1>4, <1>5, <1>9, <1>10

\* Who is sent from the ship: somebody, and of the nation
Landing(w, n, C) == C # {} /\ \A u \in C : w.unit[u].nation_recno = n

\* They land, if they do.
LEMMA LandsSome ==
  ASSUME NEW w, NEW n, NEW i, NEW r \in ai_sea_travel3(w, n, i)
  PROVE  \/ r \in {Outcome("remove", w), Outcome("retry", w)}
         \/ \E S, C \in SUBSET Aboard(w, Queue(w, n)[i].action_para2) :
              Landing(w, n, C) /\ r = Outcome("ordered", Landed(w, n, i, S, C))
<1> DEFINE a == Queue(w, n)[i]
           all == Aboard(w, a.action_para2)
           ours == {u \in all : w.unit[u].nation_recno = n}
           sent == IF a.action_para = SEA_ACTION_BUILD_CAMP THEN {{u} : u \in ours} ELSE {ours}
<1>1. ours # {} => \A C \in sent : C \in SUBSET all /\ Landing(w, n, C)
  BY DEF Landing
<1>2. \/ r \in {Outcome("remove", w), Outcome("retry", w)}
      \/ ours # {} /\ \E S \in SUBSET all, C \in sent :
           r = Outcome("ordered", Landed(w, n, i, S, C))
  <2> HIDE DEF sent, ours, all
  <2> QED BY DEF ai_sea_travel3, sent, ours, all, a
<1> HIDE DEF sent, ours, all
<1>3. \/ r \in {Outcome("remove", w), Outcome("retry", w)}
      \/ \E S, C \in SUBSET all : Landing(w, n, C) /\ r = Outcome("ordered", Landed(w, n, i, S, C))
  BY <1>1, <1>2
<1> QED BY <1>3 DEF all

\* They land: those who have come with it are sent, or stay aboard.
LEMMA Travel3Is ==
  ASSUME NEW w, Sound(w), NEW n \in Nations, NEW i \in DOMAIN Queue(w, n),
         NEW r \in ai_sea_travel3(w, n, i)
  PROVE  r.rc \in {"remove", "retry", "ordered"} /\ Handled(w, r.w, n, i)
<1> DEFINE a == Queue(w, n)[i]
           all == Aboard(w, a.action_para2)
<1>1. a \in Records /\ a.action_id \in Nat /\ a.action_para2 \in Units \cup {None}
      /\ a.processing_instance_count \in Nat
  BY PartsOf DEF Records
<1>2. \/ r \in {Outcome("remove", w), Outcome("retry", w)}
      \/ \E S, ours \in SUBSET all :
           Landing(w, n, ours) /\ r = Outcome("ordered", Landed(w, n, i, S, ours))
  BY LandsSome
<1>3. CASE r \in {Outcome("remove", w), Outcome("retry", w)}
  BY <1>3, HandledSelf DEF Outcome
<1>4. ASSUME NEW S \in SUBSET all, NEW ours \in SUBSET all, Landing(w, n, ours),
             r = Outcome("ordered", Landed(w, n, i, S, ours))
      PROVE  r.rc \in {"remove", "retry", "ordered"} /\ Handled(w, r.w, n, i)
  <2> DEFINE c == Cardinality(ours)
             ashore == Ashore(w, S)
             landed == Ordered(ashore, S \cap ours, a.action_id, "ordered", None)
             sent == Ordered(landed, ours \ S, a.action_id, "aboard", a.action_para2)
             b == [a EXCEPT !.processing_instance_count = @ + c - 1,
                            !.instance_count = a.processing_instance_count + c]
  <2>0. ours # {} /\ r = Outcome("ordered", Noted(sent, n, i, b))
    BY <1>4 DEF Landed, Landing
  <2>1. all \subseteq Troops /\ ours \subseteq all /\ S \subseteq all
    BY DEF Aboard
  <2> HIDE DEF all
  <2>2. c \in Nat /\ c # 0
    <3>1. Troops \subseteq Units /\ IsFiniteSet(Units)
      BY QueueAssumption DEF Units
    <3>2. IsFiniteSet(ours)
      BY <2>1, <3>1, FS_Subset
    <3> QED BY <2>0, <3>2, FS_CardinalityType, FS_EmptySet
  <2> HIDE DEF a, c
  <2>3. b \in Records /\ b.action_id = a.action_id /\ b.retry_count = a.retry_count
    <3> DEFINE p == a.processing_instance_count + c - 1
               q == a.processing_instance_count + c
    <3>1. p \in Nat /\ q \in Nat
      BY <1>1, <2>2
    <3>2. b = [a EXCEPT !.processing_instance_count = p, !.instance_count = q]
      OBVIOUS
    <3> HIDE DEF p, q, b
    <3> QED BY <1>1, <3>1, <3>2 DEF Records
  <2>4. /\ S \subseteq Troops
        /\ Orders(ashore, S \cap ours, a.action_id, "ordered", None)
        /\ Orders(landed, ours \ S, a.action_id, "aboard", a.action_para2)
    <3>1. S \subseteq Units /\ S \cap Generals = {} /\ ours \subseteq Units /\ ours \cap Generals = {}
      BY <2>1, QueueAssumption DEF Units
    <3> QED BY <1>1, <2>1, <3>1 DEF Orders, States
  <2> DEFINE v == ashore
             x == landed
             y == sent
  <2>5. v = Ashore(w, S) /\ x = Ordered(v, S \cap ours, a.action_id, "ordered", None)
        /\ y = Ordered(x, ours \ S, a.action_id, "aboard", a.action_para2)
    OBVIOUS
  <2> HIDE DEF v
  <2>6. Sound(v) /\ v.ai = w.ai /\ Inward(w, v)
    BY <2>4, <2>5, AshoreIs
  <2>7. Orders(v, S \cap ours, a.action_id, "ordered", None)
    BY <2>4 DEF v
  <2> HIDE DEF x
  <2>8. Sound(x) /\ x.ai = v.ai /\ Inward(v, x)
    BY <2>5, <2>6, <2>7, OrderedIs
  <2>9. Orders(x, ours \ S, a.action_id, "aboard", a.action_para2)
    BY <2>4 DEF x
  <2> HIDE DEF y
  <2>10. Sound(y) /\ y.ai = x.ai /\ Inward(x, y)
    BY <2>5, <2>8, <2>9, OrderedIs
  <2>11. Inward(w, y) /\ y.ai = w.ai
    BY <2>6, <2>8, <2>10, InwardChain
  <2> HIDE DEF b
  <2>12. Handled(w, Noted(y, n, i, b), n, i)
    BY <2>3, <2>10, <2>11, HandledNoted DEF a
  <2>13. r = Outcome("ordered", Noted(y, n, i, b))
    BY <2>0 DEF y
  <2> QED BY <2>12, <2>13 DEF Outcome
<1> QED BY <1>2, <1>3, <1>4

\* Every handler.
LEMMA HandleIs ==
  ASSUME NEW w, Sound(w), NEW n \in Nations, NEW i \in DOMAIN Queue(w, n),
         NEW r \in Handle(w, n, i)
  PROVE  r.rc \in Results /\ Handled(w, r.w, n, i)
<1> DEFINE mode == Queue(w, n)[i].action_mode
<1>1. mode \in Modes
  BY PartsOf DEF Records
<1>2. CASE mode = "assign"
  BY <1>2, AssignIs DEF Handle, Results
<1>3. CASE mode = "worker"
  BY <1>3, WorkerIs DEF Handle
<1>4. CASE mode = "travel"
  BY <1>4, TravelIs DEF Handle, Results
<1>5. CASE mode = "travel2"
  BY <1>5, Travel2Is DEF Handle, Results
<1>6. CASE mode = "travel3"
  BY <1>6, Travel3Is DEF Handle, Results
<1> QED BY <1>1, <1>2, <1>3, <1>4, <1>5, <1>6 DEF Modes, TravelModes

-----------------------------------------------------------------------------
(* The queue.                                                              *)

\* What processing one record does to the queue: all ids are left, or all but its own.
Processed(w, v, n, i) ==
  /\ Sound(v) /\ Inward(w, v)
  /\ \/ SameIds(Queue(w, n), Queue(v, n))
     \/ i \in DOMAIN Queue(w, n) /\ Shorter(Queue(w, n), Queue(v, n), i)

\* A record is deleted after it has been handled.
LEMMA DeletedLater ==
  ASSUME NEW w, Sound(w), NEW n \in Nations, NEW i \in DOMAIN Queue(w, n),
         NEW v, Sound(v), Inward(w, v), SameIds(Queue(w, n), Queue(v, n))
  PROVE  Processed(w, del_action(v, n, i), n, i)
<1> DEFINE x == del_action(v, n, i)
           s == Queue(w, n)
           t == Queue(v, n)
           u == Queue(x, n)
<1>1. /\ DOMAIN s = 1..Len(s) /\ DOMAIN t = 1..Len(t) /\ Len(s) \in Nat
      /\ Len(t) = Len(s) /\ \A j \in 1..Len(s) : t[j].action_id = s[j].action_id
  BY PartsOf DEF SameIds
<1> HIDE DEF x, s, t, u
<1>2. i \in DOMAIN s /\ i \in DOMAIN t /\ i \in 1..Len(s)
  BY <1>1 DEF s
<1>3. Sound(x) /\ x.unit = v.unit /\ Shorter(t, u, i)
  BY <1>2, Deleted DEF x, t, u
<1>4. Len(u) = Len(s) - 1
      /\ \A j \in 1..(Len(s) - 1) : u[j].action_id = (IF j < i THEN t[j] ELSE t[j + 1]).action_id
  BY <1>1, <1>3 DEF Shorter
<1>5. ASSUME NEW j \in 1..(Len(s) - 1)
      PROVE  u[j].action_id = (IF j < i THEN s[j] ELSE s[j + 1]).action_id
  <2>1. j \in 1..Len(s) /\ j + 1 \in 1..Len(s)
    BY <1>1
  <2> QED BY <1>1, <1>4, <2>1
<1>6. Shorter(s, u, i)
  BY <1>4, <1>5 DEF Shorter
<1>7. Inward(w, x)
  BY <1>3 DEF Inward
<1> QED BY <1>2, <1>3, <1>6, <1>7 DEF Processed, s, u, x

\* The result of a handler is noted.
LEMMA SettleIs ==
  ASSUME NEW w, Sound(w), NEW n \in Nations, NEW i \in DOMAIN Queue(w, n),
         Queue(w, n)[i].retry_count > 0,
         NEW v, Handled(w, v, n, i), NEW rc \in Results
  PROVE  Processed(w, Settle(v, n, i, rc), n, i)
<1> DEFINE a == Queue(v, n)[i]
           b == CASE rc = "ordered" -> [a EXCEPT !.processing_instance_count = @ + 1]
                  [] rc = "retry"   -> [a EXCEPT !.wait = RetryWait, !.retry_count = @ - 1]
                  [] rc = "training" -> [a EXCEPT !.wait = RetryWait]
                  [] rc = "remove"  -> [a EXCEPT !.retry_count = 0]
           x == Noted(v, n, i, b)
<1>1. a \in Records /\ a.retry_count \in 1..STD_ACTION_RETRY_COUNT
      /\ RetryWait \in 0..RetryWait
  <2>1. Queue(w, n)[i] \in Records
    BY PartsOf
  <2> QED BY <2>1, QueueAssumption DEF Handled, Records
<1>2. b \in Records /\ b.action_id = a.action_id
  <2> HIDE DEF a
  <2>1. CASE rc = "ordered"
    <3> DEFINE p == a.processing_instance_count + 1
    <3>1. p \in Nat
      BY <1>1 DEF Records
    <3>2. b = [a EXCEPT !.processing_instance_count = p]
      BY <2>1
    <3> HIDE DEF b, p
    <3> QED BY <1>1, <3>1, <3>2 DEF Records
  <2>2. CASE rc = "retry"
    <3> DEFINE p == a.retry_count - 1
    <3>1. p \in 0..STD_ACTION_RETRY_COUNT
      BY <1>1, QueueAssumption
    <3>2. b = [a EXCEPT !.wait = RetryWait, !.retry_count = p]
      BY <2>2
    <3> HIDE DEF b, p
    <3> QED BY <1>1, <3>1, <3>2 DEF Records
  <2>3. CASE rc = "remove"
    <3>1. 0 \in 0..STD_ACTION_RETRY_COUNT
      BY QueueAssumption
    <3>2. b = [a EXCEPT !.retry_count = 0]
      BY <2>3
    <3> HIDE DEF b
    <3> QED BY <1>1, <3>1, <3>2 DEF Records
  <2>4. CASE rc = "training"
    <3>1. b = [a EXCEPT !.wait = RetryWait]
      BY <2>4
    <3> HIDE DEF b
    <3> QED BY <1>1, <3>1 DEF Records
  <2> QED BY <2>1, <2>2, <2>3, <2>4 DEF Results
<1>3. Sound(v) /\ Inward(w, v) /\ SameIds(Queue(w, n), Queue(v, n)) /\ i \in DOMAIN Queue(v, n)
  <2>1. Sound(v) /\ SameIds(Queue(w, n), Queue(v, n)) /\ Inward(w, v)
    BY DEF Handled
  <2>2. DOMAIN Queue(w, n) = 1..Len(Queue(w, n)) /\ DOMAIN Queue(v, n) = 1..Len(Queue(v, n))
    BY <2>1, PartsOf
  <2> QED BY <2>1, <2>2 DEF SameIds
<1> HIDE DEF b, x
<1>4. Sound(x) /\ x.unit = v.unit /\ SameIds(Queue(v, n), Queue(x, n))
  BY <1>2, <1>3, Rewritten DEF x
<1>5. Inward(w, x) /\ SameIds(Queue(w, n), Queue(x, n))
  BY <1>3, <1>4 DEF Inward, SameIds
<1>6. Processed(w, x, n, i)
  BY <1>4, <1>5 DEF Processed
<1>7. Processed(w, del_action(x, n, i), n, i)
  BY <1>4, <1>5, DeletedLater
<1>8. Settle(v, n, i, rc) \in {x, del_action(x, n, i)}
  BY DEF Settle, x, b
<1> QED BY <1>6, <1>7, <1>8

\* One record is processed.
LEMMA ProcessOneIs ==
  ASSUME NEW w, Sound(w), NEW n \in Nations, NEW i, NEW priority, NEW v \in ProcessOne(w, n, i, priority)
  PROVE  Processed(w, v, n, i)
<1>1. Processed(w, w, n, i)
  BY DEF Processed, Inward, SameIds
<1>2. CASE i \notin DOMAIN Queue(w, n)
  BY <1>1, <1>2 DEF ProcessOne
<1>3. CASE i \in DOMAIN Queue(w, n)
  <2>1. \/ /\ IsDue(Queue(w, n)[i], priority)
           /\ \E r \in Handle(w, n, i) : v = Settle(r.w, n, i, r.rc)
        \/ v = del_action(w, n, i)
        \/ v = w
    BY <1>3 DEF ProcessOne
  <2>2. CASE /\ IsDue(Queue(w, n)[i], priority)
             /\ \E r \in Handle(w, n, i) : v = Settle(r.w, n, i, r.rc)
    <3>1. PICK r \in Handle(w, n, i) : v = Settle(r.w, n, i, r.rc)
      BY <2>2
    <3>2. r.rc \in Results /\ Handled(w, r.w, n, i)
      BY <1>3, <3>1, HandleIs
    <3>3. Queue(w, n)[i].retry_count > 0
      BY <2>2 DEF IsDue
    <3> QED BY <1>3, <3>1, <3>2, <3>3, SettleIs
  <2>3. CASE v = del_action(w, n, i)
    BY <1>3, <2>3, DeletedLater DEF Inward, SameIds
  <2> QED BY <1>1, <2>1, <2>2, <2>3
<1> QED BY <1>2, <1>3

\* A new record is linked: its id has not been given out before.
LEMMA LinkedIs ==
  ASSUME NEW w, Sound(w), NEW n \in Nations, NEW a \in Records,
         a.action_id = w.ai[n].last_action_id + 1,
         NEW v, v = [w EXCEPT !.ai[n] = [action_array |-> Append(w.ai[n].action_array, a),
                                         cur_pos |-> Len(w.ai[n].action_array) + 1,
                                         last_action_id |-> a.action_id]]
  PROVE  Sound(v) /\ Inward(w, v)
<1> DEFINE s == w.ai[n].action_array
           l == w.ai[n].last_action_id
           t == Append(s, a)
           c == Len(s) + 1
           q == [action_array |-> t, cur_pos |-> c, last_action_id |-> a.action_id]
<1>1. s \in Seq(Records) /\ Len(s) \in Nat /\ l \in Nat /\ QueueOK(w.ai[n])
  BY PartsOf DEF Queue, Queues
<1>2. t \in Seq(Records) /\ Len(t) = Len(s) + 1
      /\ \A j \in 1..(Len(s) + 1) : t[j] = IF j \in 1..Len(s) THEN s[j] ELSE a
  <2> HIDE DEF s
  <2>1. \A j \in 1..Len(s) : t[j] = s[j]
    BY <1>1
  <2>2. t \in Seq(Records) /\ Len(t) = Len(s) + 1 /\ t[Len(s) + 1] = a
    BY <1>1
  <2> HIDE DEF t
  <2> QED BY <1>1, <2>1, <2>2
<1>3. a.action_id = l + 1 /\ a.action_id \in Nat
  BY <1>1
<1>4. \A j \in 1..Len(s) : s[j].action_id \in 1..l
  BY <1>1 DEF QueueOK
<1>5. \A j, k \in 1..Len(s) : s[j].action_id = s[k].action_id => j = k
  BY <1>1 DEF QueueOK
<1> HIDE DEF s, l, t
<1>6. \A j \in 1..(Len(s) + 1) : t[j].action_id \in 1..a.action_id
  BY <1>1, <1>2, <1>3, <1>4
<1>7. ASSUME NEW j \in 1..(Len(s) + 1), NEW k \in 1..(Len(s) + 1), t[j].action_id = t[k].action_id
      PROVE  j = k
  <2>1. CASE j \in 1..Len(s) /\ k \in 1..Len(s)
    BY <1>2, <1>5, <1>7, <2>1
  <2>2. CASE j \notin 1..Len(s) /\ k \in 1..Len(s)
    <3>1. t[j].action_id = l + 1 /\ t[k].action_id \in 1..l
      BY <1>2, <1>3, <1>4, <2>2
    <3> QED BY <1>1, <1>7, <3>1
  <2>3. CASE j \in 1..Len(s) /\ k \notin 1..Len(s)
    <3>1. t[k].action_id = l + 1 /\ t[j].action_id \in 1..l
      BY <1>2, <1>3, <1>4, <2>3
    <3> QED BY <1>1, <1>7, <3>1
  <2>4. CASE j \notin 1..Len(s) /\ k \notin 1..Len(s)
    BY <1>1, <2>4
  <2> QED BY <2>1, <2>2, <2>3, <2>4
<1>8. c \in Nat /\ c \in 0..Len(t)
  BY <1>1, <1>2
<1> HIDE DEF c
<1>9. q \in Queues
  <2> DEFINE Lists == Seq(Records)
  <2>1. t \in Lists
    BY <1>2
  <2> HIDE DEF Lists
  <2>2. q \in [action_array : Lists, cur_pos : Nat, last_action_id : Nat]
    BY <1>3, <1>8, <2>1
  <2> QED BY <2>2 DEF Queues, Lists
<1>10. QueueOK(q)
  BY <1>2, <1>6, <1>7, <1>8 DEF QueueOK
<1>11. v = [w EXCEPT !.ai[n] = q]
  BY DEF s, t, c
<1> HIDE DEF q
<1>12. Sound(v) /\ v.unit = w.unit
  <2> DEFINE x == [w EXCEPT !.ai[n] = q]
  <2>1. Sound(x) /\ x.unit = w.unit
    BY <1>9, <1>10, OneQueue
  <2> HIDE DEF x
  <2> QED BY ONLY <1>11, <2>1 DEF x
<1> QED BY <1>12 DEF Inward

\* add_action: the queue is sound with the new action, processed at once or not.
LEMMA LinkIs ==
  ASSUME NEW w, Sound(w), NEW n \in Nations, NEW node \in Records, NEW immediate,
         NEW r \in Link(w, n, node, immediate)
  PROVE  Sound(r.w) /\ Inward(w, r.w)
<1> DEFINE id == w.ai[n].last_action_id + 1
           a == [node EXCEPT !.action_id = id, !.retry_count = STD_ACTION_RETRY_COUNT, !.age = 0,
                             !.processing_instance_count = 0, !.processed_instance_count = 0]
           v == [w EXCEPT !.ai[n] = [action_array |-> Append(w.ai[n].action_array, a),
                                     cur_pos |-> Len(w.ai[n].action_array) + 1,
                                     last_action_id |-> id]]
<1>1. id \in Nat
  <2>1. w.ai[n].last_action_id \in Nat
    BY PartsOf DEF Queues
  <2> QED BY <2>1
<1> HIDE DEF id
<1>2. a \in Records /\ a.action_id = id
  <2> DEFINE k == STD_ACTION_RETRY_COUNT
  <2>1. k \in 0..k /\ 0 \in 0..(Overdue + 1) /\ 0 \in Nat
    BY QueueAssumption
  <2>2. [node EXCEPT !.action_id = id, !.retry_count = k] \in Records
    BY <1>1, <2>1 DEF Records
  <2> DEFINE x == [node EXCEPT !.action_id = id, !.retry_count = k]
  <2>3. a = [x EXCEPT !.age = 0, !.processing_instance_count = 0, !.processed_instance_count = 0]
    OBVIOUS
  <2>4. x.action_id = id
    BY DEF Records
  <2> HIDE DEF x, a
  <2>5. a \in Records /\ a.action_id = x.action_id
    BY <2>1, <2>2, <2>3 DEF x, Records
  <2> QED BY <2>4, <2>5
<1> HIDE DEF a
<1>3. Sound(v) /\ Inward(w, v)
  BY <1>2, LinkedIs DEF id
<1>4. \/ r = [w |-> v, recno |-> v.ai[n].cur_pos]
      \/ \E x \in ProcessOne(v, n, v.ai[n].cur_pos, TRUE) : r = [w |-> x, recno |-> x.ai[n].cur_pos]
  BY DEF Link, v, a, id
<1> HIDE DEF v
<1>5. ASSUME NEW x \in ProcessOne(v, n, v.ai[n].cur_pos, TRUE)
      PROVE  Sound(x) /\ Inward(w, x)
  <2>1. Sound(x) /\ Inward(v, x)
    BY <1>3, ProcessOneIs DEF Processed
  <2> QED BY <1>3, <2>1, InwardChain
<1>6. CASE r = [w |-> v, recno |-> v.ai[n].cur_pos]
  <2>1. r.w = v
    BY <1>6
  <2> QED BY <1>3, <2>1
<1>7. CASE \E x \in ProcessOne(v, n, v.ai[n].cur_pos, TRUE) :
             r = [w |-> x, recno |-> x.ai[n].cur_pos]
  <2>1. PICK x \in ProcessOne(v, n, v.ai[n].cur_pos, TRUE) :
          r = [w |-> x, recno |-> x.ai[n].cur_pos]
    BY <1>7
  <2>2. r.w = x
    BY <2>1
  <2> QED BY <1>5, <2>1, <2>2
<1> QED BY <1>4, <1>6, <1>7

\* A new action that its caller processes once more.
LEMMA LinkAndProcessIs ==
  ASSUME NEW w, Sound(w), NEW n \in Nations, NEW node \in Records,
         NEW v \in LinkAndProcess(w, n, node)
  PROVE  Sound(v) /\ Inward(w, v)
<1>1. PICK r \in Link(w, n, node, TRUE) :
        v = r.w \/ v \in ProcessOne(r.w, n, r.recno, TRUE)
  BY DEF LinkAndProcess
<1>2. Sound(r.w) /\ Inward(w, r.w)
  BY LinkIs
<1>3. CASE v \in ProcessOne(r.w, n, r.recno, TRUE)
  <2>1. Sound(v) /\ Inward(r.w, v)
    BY <1>2, <1>3, ProcessOneIs DEF Processed
  <2> QED BY <1>2, <2>1, InwardChain
<1> QED BY <1>1, <1>2, <1>3

-----------------------------------------------------------------------------
(* Reports.                                                                *)

\* The follow-up action of a sea travel.
LEMMA NextActionIs ==
  ASSUME NEW w, Sound(w), NEW n \in Nations, NEW a \in Records, NEW v \in auto_next_action(w, n, a)
  PROVE  Sound(v) /\ Inward(w, v)
<1>1. Inward(w, w)
  BY DEF Inward
<1>2. CASE a.action_mode = "travel"
  <2> DEFINE node == [a EXCEPT !.action_mode = "travel2", !.instance_count = 1]
  <2>1. node \in Records
    BY DEF Records, Modes, TravelModes
  <2>2. v \in LinkAndProcess(w, n, node)
    BY <1>2 DEF auto_next_action
  <2> HIDE DEF node
  <2> QED BY <2>1, <2>2, LinkAndProcessIs
<1>3. CASE a.action_mode = "travel2"
  <2> DEFINE node == [a EXCEPT !.action_mode = "travel3"]
  <2>1. node \in Records
    BY DEF Records, Modes, TravelModes
  <2>2. v \in LinkAndProcess(w, n, node)
    BY <1>3 DEF auto_next_action
  <2> HIDE DEF node
  <2> QED BY <2>1, <2>2, LinkAndProcessIs
<1>4. CASE a.action_mode \notin {"travel", "travel2"}
  BY <1>1, <1>4 DEF auto_next_action
<1> QED BY <1>2, <1>3, <1>4

\* A unit that is in no place changes what it does.
LEMMA OutsideDoing ==
  ASSUME NEW w, Sound(w), NEW u \in Units, w.unit[u].state # "training",
         NEW state \in States \ {"inside", "training"}, NEW id \in Nat,
         NEW v, v = Doing(w, u, state, id)
  PROVE  Sound(v) /\ Inward(w, v) /\ v.ai = w.ai
<1>1. state \in States /\ state \notin {"inside", "training"}
  OBVIOUS
<1>2. /\ Sound(v) /\ v.ai = w.ai /\ v.unit[u].state = state
      /\ \A x \in Units : x # u => v.unit[x] = w.unit[x]
  BY <1>1, DoingIs
<1> QED BY <1>1, <1>2 DEF Inward, Within

\* A unit stops.
LEMMA StoppedIs ==
  ASSUME NEW w, Sound(w), NEW u \in Units, w.unit[u].state # "training"
  PROVE  Sound(stop_unit_action(w, u)) /\ Inward(w, stop_unit_action(w, u))
<1> DEFINE state == IF w.unit[u].state = "aboard" THEN "aboard" ELSE "idle"
           v == Doing(w, u, state, 0)
<1>1. stop_unit_action(w, u) \in {w, v}
  BY DEF stop_unit_action
<1>2. state \in States \ {"inside", "training"}
  BY DEF States
<1> HIDE DEF state
<1>3. Sound(v) /\ Inward(w, v)
  BY <1>2, OutsideDoing
<1> QED BY <1>1, <1>3 DEF Inward

\* The record of an action is in the queue.
LEMMA FoundIs ==
  ASSUME NEW w, Sound(w), NEW n \in Nations, NEW id, RecnoOf(w, n, id) # 0
  PROVE  RecnoOf(w, n, id) \in DOMAIN Queue(w, n)
<1> DEFINE s == Queue(w, n)
           at == {i \in DOMAIN s : s[i].action_id = id}
<1>1. /\ DOMAIN s = 1..Len(s) /\ Len(s) \in Nat
      /\ \A i, j \in 1..Len(s) : s[i].action_id = s[j].action_id => i = j
  BY PartsOf DEF QueueOK, Queue
<1> HIDE DEF s
<1>2. at # {} /\ RecnoOf(w, n, id) = CHOOSE i \in at : \A j \in at : j <= i
  BY DEF RecnoOf, s
<1>3. PICK k \in at : TRUE
  BY <1>2
<1>4. \A j \in at : j = k
  BY <1>1, <1>3
<1>5. k <= k
  BY <1>1, <1>3
<1>6. \A j \in at : j <= k
  BY <1>4, <1>5
<1>7. at \subseteq DOMAIN s
  OBVIOUS
<1> HIDE DEF at
<1>8. (CHOOSE i \in at : \A j \in at : j <= i) \in at
  BY <1>3, <1>6
<1> QED BY <1>2, <1>7, <1>8 DEF s

\* A report.
LEMMA FinishedIs ==
  ASSUME NEW w, Sound(w), NEW u \in Units, NEW v \in action_finished(w, u)
  PROVE  Sound(v) /\ Inward(w, v)
<1> DEFINE n == w.unit[u].nation_recno
           i == RecnoOf(w, n, w.unit[u].ai_action_id)
           a == Queue(w, n)[i]
           waits == a.action_mode = "travel" /\ u \in Ships /\ ~is_deleted(w, u)
           b == [a EXCEPT !.processed_instance_count = @ + 1,
                          !.action_para2 = IF waits THEN u ELSE @]
           noted == Noted(w, n, i, b)
           stopped == IF waits THEN KeepsDoing(noted, u, "idle") ELSE stop_unit_action(noted, u)
<1>1. n \in Nations /\ w.unit[u] \in UnitRecords /\ Inward(w, w)
  BY PartsOf DEF UnitRecords, Inward
<1>2. CASE w.unit[u].ai_action_id = 0
  BY <1>1, <1>2 DEF action_finished
<1>3. CASE w.unit[u].ai_action_id # 0
  <2>1. w.unit[u].state # "training"
    BY <1>3 DEF Sound, UnitsOK, Within
  <2>2. \/ v \in {w, stop_unit_action(w, u)}
        \/ i # 0 /\ (v = stopped \/ \E x \in auto_next_action(stopped, n, b) : v = del_action(x, n, i))
    <3> HIDE DEF b, stopped
    <3>1. CASE i = 0
      BY <1>3, <3>1 DEF action_finished
    <3>2. CASE i # 0 /\ IsSecondReport(w, a, u)
      BY <1>3, <3>2 DEF action_finished
    <3>3. CASE i # 0 /\ ~IsSecondReport(w, a, u) /\ AllDone(b)
      BY <1>3, <3>3 DEF action_finished, stopped, b
    <3>4. CASE i # 0 /\ ~IsSecondReport(w, a, u) /\ ~AllDone(b)
      BY <1>3, <3>4 DEF action_finished, stopped, b
    <3> QED BY <3>1, <3>2, <3>3, <3>4
  <2>3. CASE v \in {w, stop_unit_action(w, u)}
    BY <1>1, <2>1, <2>3, StoppedIs
  <2>4. CASE i # 0 /\ (v = stopped \/ \E x \in auto_next_action(stopped, n, b) : v = del_action(x, n, i))
    <3>1. i \in DOMAIN Queue(w, n)
      <4> DEFINE id == w.unit[u].ai_action_id
      <4> HIDE DEF id
      <4> QED BY <1>1, <2>4, FoundIs DEF id
    <3>2. a \in Records
      BY <1>1, <3>1, PartsOf
    <3> HIDE DEF n, i
    <3>3. b \in Records /\ b.action_id = a.action_id
      <4> DEFINE p == a.processed_instance_count + 1
                 q == IF waits THEN u ELSE a.action_para2
      <4>1. p \in Nat /\ q \in Units \cup {None}
        BY <3>2 DEF Records
      <4>2. b = [a EXCEPT !.processed_instance_count = p, !.action_para2 = q]
        OBVIOUS
      <4> HIDE DEF a, b, p, q
      <4> QED BY <3>2, <4>1, <4>2 DEF Records
    <3> HIDE DEF b
    <3>4. Sound(noted) /\ noted.unit = w.unit
      BY <1>1, <3>1, <3>3, Rewritten DEF n
    <3> HIDE DEF waits, noted
    <3>5. noted.unit[u].state # "training" /\ noted.unit[u].ai_action_id \in Nat
      BY <1>1, <2>1, <3>4 DEF UnitRecords
    <3>6. Sound(stopped) /\ Inward(noted, stopped)
      <4>1. "idle" \in States \ {"inside", "training"}
        BY DEF States
      <4> DEFINE x == KeepsDoing(noted, u, "idle")
      <4>2. x = Doing(noted, u, "idle", noted.unit[u].ai_action_id)
        BY DEF KeepsDoing
      <4> HIDE DEF x
      <4>3. Sound(x) /\ Inward(noted, x)
        BY <3>4, <3>5, <4>1, <4>2, OutsideDoing
      <4>4. Sound(stop_unit_action(noted, u)) /\ Inward(noted, stop_unit_action(noted, u))
        BY <3>4, <3>5, StoppedIs
      <4> QED BY <4>3, <4>4 DEF x
    <3> HIDE DEF stopped
    <3>7. Inward(w, stopped)
      BY <3>4, <3>6 DEF Inward
    <3>8. ASSUME NEW x \in auto_next_action(stopped, n, b), v = del_action(x, n, i)
          PROVE  Sound(v) /\ Inward(w, v)
      <4>1. Sound(x) /\ Inward(stopped, x)
        BY <1>1, <3>3, <3>6, NextActionIs DEF n
      <4>2. Inward(w, x)
        BY <3>7, <4>1, InwardChain
      <4>3. Sound(v) /\ v.unit = x.unit
        BY <1>1, <3>8, <4>1, Deleted DEF n
      <4> QED BY <4>2, <4>3 DEF Inward
    <3> QED BY <2>4, <3>6, <3>7, <3>8
  <2> QED BY <2>2, <2>3, <2>4
<1> QED BY <1>2, <1>3

-----------------------------------------------------------------------------
(* The steps.                                                              *)

\* The variables as a world.
LEMMA Worlds ==
  IsWorld(World) /\ World.ai = ai /\ World.unit = unit /\ World.train = train
BY DEF World, IsWorld

\* A step to a sound world keeps the invariant.
LEMMA Becoming ==
  ASSUME NEW v, Sound(v), Become(v), busy' \in Calls
  PROVE  Inv'
<1>1. IsWorld(v)
  BY DEF Sound
<1>2. World' = v
  BY <1>1 DEF Become, World, IsWorld
<1>3. Sound(World')
  BY <1>2
<1> QED BY <1>3 DEF Inv

\* At first the queues are empty and nobody does anything.
LEMMA Beginning == Init => Inv
<1> SUFFICES ASSUME Init PROVE Inv
  OBVIOUS
<1> DEFINE q == [action_array |-> <<>>, cur_pos |-> 0, last_action_id |-> 0]
           at(u) == [nation_recno |-> Owner[u], ai_action_id |-> 0, ship |-> None,
                     state |-> IF u \in Troops THEN "inside" ELSE "idle"]
<1>1. q \in Queues /\ QueueOK(q)
  <2>1. <<>> \in Seq(Records) /\ Len(<<>>) = 0
    OBVIOUS
  <2> QED BY <2>1 DEF Queues, QueueOK
<1>2. \A u \in Units : at(u) \in UnitRecords /\ at(u).ai_action_id = 0
  BY QueueAssumption DEF UnitRecords, States
<1> HIDE DEF q, at
<1>3. ai = [n \in Nations |-> q] /\ unit = [u \in Units |-> at(u)] /\ train = None /\ busy = Idle
  BY DEF Init, q, at
<1>4. AiOK(ai)
  BY <1>1, <1>3 DEF AiOK
<1>5. UnitsOK(unit)
  BY <1>2, <1>3 DEF UnitsOK
<1>6. TrainOK(unit, train)
  BY <1>3 DEF TrainOK
<1> QED BY <1>3, <1>4, <1>5, <1>6, Worlds DEF Inv, Sound, Calls

\* A new action is a record.
LEMMA NewNodeIs ==
  ASSUME NEW mode \in Modes, NEW para \in Places \cup SeaActions, NEW k \in Nat,
         NEW given \in Generals \cup {None}, NEW G \in SUBSET Troops
  PROVE  NewNode(mode, para, k, given, G) \in Records
<1>1. 0 \in 0..STD_ACTION_RETRY_COUNT /\ 0 \in 0..RetryWait /\ 0 \in 0..(Overdue + 1)
  BY QueueAssumption
<1> QED BY <1>1 DEF NewNode, Records

\* An action is queued.
LEMMA QueuesAction ==
  ASSUME Inv, NEW n \in Nations,
         QueueAssign(n) \/ QueueWorkers(n) \/ QueueGiven(n) \/ QueueTravel(n)
  PROVE  Inv'
<1>1. Sound(World) /\ busy \in Calls
  BY DEF Inv
<1>2. ASSUME NEW node \in Records, NEW immediate, NEW r \in Link(World, n, node, immediate),
             Become(r.w), UNCHANGED busy
      PROVE  Inv'
  <2>1. Sound(r.w)
    BY <1>1, <1>2, LinkIs
  <2> DEFINE v == r.w
  <2>2. Sound(v) /\ Become(v)
    BY <1>2, <2>1
  <2> HIDE DEF v
  <2> QED BY <1>1, <1>2, <2>2, Becoming
<1>3. ASSUME NEW w, Sound(w), NEW node \in Records, NEW v \in LinkAndProcess(w, n, node),
             Become(v), UNCHANGED busy
      PROVE  Inv'
  BY <1>1, <1>3, LinkAndProcessIs, Becoming
<1>4. CASE QueueAssign(n)
  <2>1. PICK p \in Places : \E r \in Link(World, n, NewNode("assign", p, 1, None, {}), FALSE) : Become(r.w)
    BY <1>4 DEF QueueAssign
  <2>2. NewNode("assign", p, 1, None, {}) \in Records
    BY NewNodeIs DEF Modes
  <2>3. UNCHANGED busy
    BY <1>4 DEF QueueAssign
  <2> QED BY <1>2, <2>1, <2>2, <2>3
<1>5. CASE QueueWorkers(n)
  <2>1. PICK p \in Places, k \in 1..MaxInstances :
          \E r \in Link(World, n, NewNode("worker", p, k, None, {}), FALSE) : Become(r.w)
    BY <1>5 DEF QueueWorkers
  <2>2. k \in Nat
    BY QueueAssumption
  <2>3. NewNode("worker", p, k, None, {}) \in Records
    BY <2>2, NewNodeIs DEF Modes
  <2>4. UNCHANGED busy
    BY <1>5 DEF QueueWorkers
  <2> QED BY <1>2, <2>1, <2>3, <2>4
<1>6. CASE QueueGiven(n)
  <2>1. PICK p \in Places, g \in Generals :
          \/ \E r \in Link(World, n, NewNode("assign", p, 1, g, {}), TRUE) : Become(r.w)
          \/ \E v \in LinkAndProcess(World, n, NewNode("assign", p, 1, g, {})) : Become(v)
    BY <1>6 DEF QueueGiven
  <2>2. NewNode("assign", p, 1, g, {}) \in Records
    BY NewNodeIs DEF Modes
  <2>3. UNCHANGED busy
    BY <1>6 DEF QueueGiven
  <2>4. CASE \E r \in Link(World, n, NewNode("assign", p, 1, g, {}), TRUE) : Become(r.w)
    BY <1>2, <2>2, <2>3, <2>4
  <2>5. CASE \E v \in LinkAndProcess(World, n, NewNode("assign", p, 1, g, {})) : Become(v)
    <3>1. PICK v \in LinkAndProcess(World, n, NewNode("assign", p, 1, g, {})) : Become(v)
      BY <2>5
    <3>2. Sound(v)
      BY <1>1, <2>2, LinkAndProcessIs
    <3> QED BY <1>1, <2>3, <3>1, <3>2, Becoming
  <2> QED BY <2>1, <2>4, <2>5
<1>7. CASE QueueTravel(n)
  <2>1. PICK p \in SeaActions, G \in (SUBSET Troops) \ {{}} :
          \E v \in LinkAndProcess(Ordered(World, G, 0, "idle", None), n,
                                  NewNode("travel", p, Cardinality(G), None, G)) : Become(v)
    BY <1>7 DEF QueueTravel
  <2>2. Cardinality(G) \in Nat
    <3>1. G \subseteq Units
      BY DEF Units
    <3>2. IsFiniteSet(G)
      BY <3>1, FS_Subset, QueueAssumption
    <3> QED BY <3>2, FS_CardinalityType
  <2>3. NewNode("travel", p, Cardinality(G), None, G) \in Records
    BY <2>2, NewNodeIs DEF Modes, TravelModes
  <2>4. Orders(World, G, 0, "idle", None)
    BY QueueAssumption DEF Orders, States, Units
  <2>5. Sound(Ordered(World, G, 0, "idle", None))
    BY <1>1, <2>4, OrderedIs
  <2>6. PICK v \in LinkAndProcess(Ordered(World, G, 0, "idle", None), n,
                                  NewNode("travel", p, Cardinality(G), None, G)) : Become(v)
    BY <2>1
  <2>7. Sound(v)
    BY <2>3, <2>5, LinkAndProcessIs
  <2>8. UNCHANGED busy
    BY <1>7 DEF QueueTravel
  <2> QED BY <1>1, <2>6, <2>7, <2>8, Becoming
<1> QED BY <1>4, <1>5, <1>6, <1>7

\* The call in progress, if it is a pass.
LEMMA PassCall ==
  ASSUME busy \in Calls, InPass
  PROVE  busy.nation \in Nations /\ busy.recno \in Nat \ {0} /\ busy.count \in Nat
         /\ busy = [call |-> "pass", nation |-> busy.nation, recno |-> busy.recno, count |-> busy.count]
BY DEF Calls, Idle, InPass

\* A step of a pass: the record is processed, and the pass goes on behind it.
LEMMA PassSteps ==
  ASSUME Inv, PassStep
  PROVE  Inv' /\ (busy'.call = "pass" =>
                    \E v : /\ Become(v) /\ IsWorld(v)
                           /\ Processed(World, v, busy.nation, busy.recno)
                           /\ busy.recno \in DOMAIN Queue(World, busy.nation)
                           /\ busy'.recno = IF Len(Queue(v, busy.nation)) < Len(Queue(World, busy.nation))
                                            THEN busy.recno ELSE busy.recno + 1)
<1> DEFINE n == busy.nation
           i == busy.recno
<1>1. Sound(World) /\ busy \in Calls /\ InPass
  BY DEF Inv, PassStep
<1>2. n \in Nations /\ i \in Nat \ {0} /\ busy.count \in Nat
      /\ busy = [call |-> "pass", nation |-> n, recno |-> i, count |-> busy.count]
  BY <1>1, PassCall
<1>3. CASE i \in DOMAIN Queue(World, n) /\ busy.count < SessionLimit
  <2>1. PICK v \in ProcessOne(World, n, i, FALSE) :
          /\ Become(v)
          /\ busy' = [busy EXCEPT
               !.recno = IF Len(Queue(v, n)) < Len(Queue(World, n)) THEN i ELSE i + 1,
               !.count = IF IsDue(Queue(World, n)[i], FALSE) THEN @ + 1 ELSE @]
    BY <1>3 DEF PassStep
  <2> DEFINE j == IF Len(Queue(v, n)) < Len(Queue(World, n)) THEN i ELSE i + 1
             c == IF IsDue(Queue(World, n)[i], FALSE) THEN busy.count + 1 ELSE busy.count
             m == busy.nation
  <2>2. j \in Nat \ {0} /\ c \in Nat
    <3>1. i \in Nat \ {0} /\ i + 1 \in Nat \ {0} /\ busy.count \in Nat /\ busy.count + 1 \in Nat
      BY <1>2
    <3>2. j \in {i, i + 1} /\ c \in {busy.count, busy.count + 1}
      OBVIOUS
    <3> HIDE DEF j, c, i
    <3> QED BY <3>1, <3>2
  <2>3. Processed(World, v, n, i)
    BY <1>1, <1>2, <2>1, ProcessOneIs
  <2>4. busy' = [busy EXCEPT !.recno = j, !.count = c]
    BY <2>1
  <2> HIDE DEF j, c
  <2>5. busy' = [call |-> "pass", nation |-> n, recno |-> j, count |-> c]
    <3> DEFINE k == busy.count
               l == busy.recno
    <3>1. busy = [call |-> "pass", nation |-> m, recno |-> l, count |-> k]
      BY <1>2
    <3> HIDE DEF k, l, m
    <3>2. [busy EXCEPT !.recno = j] = [call |-> "pass", nation |-> m, recno |-> j, count |-> k]
      BY <3>1
    <3> QED BY <2>4, <3>2 DEF m
  <2>6. busy' \in Calls
    BY <1>2, <2>2, <2>5 DEF Calls
  <2>7. Sound(v) /\ IsWorld(v)
    BY <2>3 DEF Processed, Sound
  <2>8. Inv'
    BY <2>1, <2>6, <2>7, Becoming
  <2>9. busy'.recno = j
    BY <2>5
  <2> QED BY <1>3, <2>1, <2>3, <2>7, <2>8, <2>9 DEF j
<1>4. CASE ~(i \in DOMAIN Queue(World, n) /\ busy.count < SessionLimit)
  <2>1. busy' = Idle /\ UNCHANGED <<ai, unit, train>>
    BY <1>4 DEF PassStep
  <2>2. World' = World /\ busy' \in Calls /\ busy'.call # "pass"
    BY <2>1 DEF World, Calls, Idle
  <2> QED BY <1>1, <2>2 DEF Inv
<1> QED BY <1>3, <1>4

\* A world in which nobody is trained any more is sound, ...
LEMMA TrainingOut ==
  ASSUME NEW w, Sound(w), w.train # None, NEW u, u = w.train.unit,
         NEW state \in {"idle", "inside"}, NEW v, v = LeavesTraining(w, state)
  PROVE  /\ Sound(v) /\ v.ai = w.ai /\ u \in Units
         /\ w.unit[u].ai_action_id = 0 /\ w.unit[u].state = "training"
         /\ v.unit[u].nation_recno = w.unit[u].nation_recno
         /\ v.unit[u].ai_action_id = 0 /\ v.unit[u].state = state
         /\ \A x \in Units : x # u => v.unit[x] = w.unit[x]
<1> DEFINE b == [w.unit[u] EXCEPT !.state = state, !.ai_action_id = w.unit[u].ai_action_id]
           g == [w.unit EXCEPT ![u] = b]
           y == [w EXCEPT !.unit = g]
<1>1. IsWorld(w) /\ AiOK(w.ai) /\ UnitsOK(w.unit) /\ TrainOK(w.unit, w.train)
  BY DEF Sound
<1>2. u \in Generals /\ w.unit[u].state = "training"
  BY <1>1 DEF TrainOK
<1>3. u \in Units /\ w.unit \in [Units -> UnitRecords] /\ w.unit[u] \in UnitRecords
      /\ w.unit[u].ai_action_id = 0
  BY <1>1, <1>2 DEF UnitsOK, Units, Within
<1>4. KeepsDoing(w, u, state) = y
  BY <1>1 DEF KeepsDoing, Doing, IsWorld
<1>5. b \in UnitRecords /\ b.state = state /\ b.nation_recno = w.unit[u].nation_recno
      /\ b.ai_action_id = 0
  BY <1>3 DEF UnitRecords, States
<1> HIDE DEF b
<1>6. /\ g \in [Units -> UnitRecords] /\ g[u] = b
      /\ \A x \in Units : x # u => g[x] = w.unit[x]
  BY <1>3, <1>5
<1> HIDE DEF g
<1>7. IsWorld(y) /\ y.ai = w.ai /\ y.unit = g
  BY <1>1, UnitSet
<1> HIDE DEF y
<1>8. IsWorld(v) /\ v.ai = y.ai /\ v.unit = y.unit /\ v.train = None
  BY <1>4, <1>7, TrainSet DEF LeavesTraining
<1>9. UnitsOK(g)
  BY <1>1, <1>5, <1>6 DEF UnitsOK, Within
<1>10. Sound(v)
  BY <1>1, <1>7, <1>8, <1>9 DEF Sound, TrainOK
<1> QED BY <1>2, <1>3, <1>5, <1>6, <1>7, <1>8, <1>10

\* ... and so is one in which the trainee has no action.
LEMMA UnassignedIs ==
  ASSUME NEW w, Sound(w)
  PROVE  Sound(Unassigned(w)) /\ Unassigned(w).ai = w.ai /\ Unassigned(w).unit = w.unit
<1> DEFINE t == IF w.train = None THEN None ELSE [unit |-> w.train.unit, id |-> 0]
<1>1. IsWorld(w) /\ TrainOK(w.unit, w.train) /\ Unassigned(w) = [w EXCEPT !.train = t]
  BY DEF Sound, Unassigned, IsWorld
<1>2. TrainOK(w.unit, t)
  BY <1>1 DEF TrainOK
<1> HIDE DEF t
<1> QED BY <1>1, <1>2, TrainSet DEF Sound

\* The trained unit comes out ...
LEMMA FinishesTraining == ASSUME Inv, FinishTraining PROVE Inv'
<1> DEFINE u == train.unit
           n == unit[train.unit].nation_recno
           out == LeavesTraining(World, "idle")
           i == RecnoOf(out, n, train.id)
<1>1. Sound(World) /\ busy \in Calls /\ busy' = busy /\ World.train # None /\ u = World.train.unit
  BY Worlds DEF Inv, FinishTraining
<1>2. PICK v \in ProcessOne(out, n, i, TRUE) : Become(Unassigned(v))
  BY DEF FinishTraining
<1>3. Sound(out) /\ u \in Units
  BY <1>1, TrainingOut
<1>4. n \in Nations
  BY <1>1, <1>3, Worlds, PartsOf DEF UnitRecords
<1> HIDE DEF u, out, n, i
<1>5. Sound(v)
  BY <1>2, <1>3, <1>4, ProcessOneIs DEF Processed
<1>6. Sound(Unassigned(v))
  BY <1>5, UnassignedIs
<1> QED BY <1>1, <1>2, <1>6, Becoming

\* ... or goes back to its people.
LEMMA CancelsTraining == ASSUME Inv, CancelTraining PROVE Inv'
<1>1. /\ Sound(World) /\ busy \in Calls /\ busy' = busy /\ World.train # None
      /\ Become(LeavesTraining(World, "inside"))
  BY Worlds DEF Inv, CancelTraining
<1>2. Sound(LeavesTraining(World, "inside"))
  BY <1>1, TrainingOut
<1> QED BY <1>1, <1>2, Becoming

\* A report, and then the unit does something else.
LEMMA ReportThen ==
  ASSUME NEW w, Sound(w), NEW u \in Units, w.unit[u].state # "training", ~Within(w.unit[u]),
         NEW v \in action_finished(w, u), NEW state \in States \ {"training"}, NEW id \in Nat,
         state = "inside" => id = 0
  PROVE  Sound(Doing(v, u, state, id))
<1>1. Sound(v) /\ ~Within(v.unit[u])
  BY FinishedIs DEF Inward
<1>2. state \in States /\ v.unit[u].state # "training"
      /\ (state \in {"inside", "training"} => id = 0)
  BY <1>1 DEF Within
<1> QED BY <1>1, <1>2, DoingIs

\* What is known of a unit.
LEMMA UnitIn ==
  ASSUME Inv, NEW u \in Units
  PROVE  /\ Sound(World) /\ busy \in Calls
         /\ unit[u] \in UnitRecords /\ World.unit[u] = unit[u]
BY PartsOf, Worlds DEF Inv

\* A unit enters the place it was sent to.
LEMMA Enters == ASSUME Inv, NEW u \in Units, Enter(u) PROVE Inv'
<1>1. PICK v \in action_finished(World, u) : Become(Doing(v, u, "inside", 0))
  BY DEF Enter
<1>2. Sound(Doing(v, u, "inside", 0))
  <2>1. unit[u].state = "ordered" /\ "inside" \in States \ {"training"} /\ 0 \in Nat
    BY DEF Enter, States
  <2>2. World.unit[u].state # "training" /\ ~Within(World.unit[u])
    BY <2>1, UnitIn DEF Within
  <2> QED BY <2>1, <2>2, UnitIn, ReportThen
<1>3. busy' \in Calls
  BY UnitIn DEF Enter
<1> QED BY <1>1, <1>2, <1>3, Becoming

\* A unit boards its ship.
LEMMA Boards == ASSUME Inv, NEW u \in Troops, Board(u) PROVE Inv'
<1>1. PICK v \in action_finished(World, u) : Become(Doing(v, u, "aboard", 0))
  BY DEF Board
<1>2. u \in Units
  BY DEF Units
<1>3. Sound(Doing(v, u, "aboard", 0))
  <2>1. unit[u].state = "boarding" /\ "aboard" \in States \ {"training"} /\ 0 \in Nat
    BY DEF Board, States
  <2>2. World.unit[u].state # "training" /\ ~Within(World.unit[u])
    BY <1>2, <2>1, UnitIn DEF Within
  <2> QED BY <1>2, <2>1, <2>2, UnitIn, ReportThen
<1>4. busy' \in Calls
  BY <1>2, UnitIn DEF Board
<1> QED BY <1>1, <1>3, <1>4, Becoming

\* A unit stops.
LEMMA Stops == ASSUME Inv, NEW u \in Units, Stop(u) PROVE Inv'
<1>1. PICK v \in action_finished(World, u) : Become(KeepsDoing(v, u, "idle"))
  BY DEF Stop
<1> DEFINE id == v.unit[u].ai_action_id
<1>2. KeepsDoing(v, u, "idle") = Doing(v, u, "idle", id)
  BY DEF KeepsDoing
<1>3. id \in Nat
  <2>1. Sound(v)
    BY <1>1, UnitIn, FinishedIs
  <2>2. v.unit[u] \in UnitRecords
    BY <2>1, PartsOf
  <2> QED BY <2>2 DEF UnitRecords
<1> HIDE DEF id
<1>4. Sound(Doing(v, u, "idle", id))
  <2>1. unit[u].state \in {"idle", "ordered", "boarding"} /\ "idle" \in States \ {"training"}
    BY DEF Stop, States
  <2>2. World.unit[u].state # "training" /\ ~Within(World.unit[u])
    BY <2>1, UnitIn DEF Within
  <2> QED BY <1>3, <2>1, <2>2, UnitIn, ReportThen
<1>5. busy' \in Calls
  BY UnitIn DEF Stop
<1> QED BY <1>1, <1>2, <1>4, <1>5, Becoming

\* An idle unit goes home.
LEMMA GoesHome == ASSUME Inv, NEW u \in Units, GoHome(u) PROVE Inv'
<1>1. unit[u].state = "idle" /\ unit[u].ai_action_id = 0 /\ Become(KeepsDoing(World, u, "inside"))
  BY DEF GoHome
<1>2. KeepsDoing(World, u, "inside") = Doing(World, u, "inside", 0)
  BY <1>1, Worlds DEF KeepsDoing
<1>3. "inside" \in States /\ 0 \in Nat /\ World.unit[u].state = "idle"
  BY <1>1, UnitIn DEF States
<1>4. Sound(Doing(World, u, "inside", 0))
  BY <1>3, UnitIn, DoingIs
<1>5. busy' \in Calls
  BY UnitIn DEF GoHome
<1> QED BY <1>1, <1>2, <1>4, <1>5, Becoming

\* Those aboard die with their ship.
LEMMA DyingAboard ==
  ASSUME NEW w, Sound(w), NEW s,
         NEW v, v = [w EXCEPT !.unit = [x \in Units |->
           IF x \in Aboard(w, s) THEN [w.unit[x] EXCEPT !.state = "dead"] ELSE w.unit[x]]]
  PROVE  Sound(v)
<1> DEFINE g == [x \in Units |->
             IF x \in Aboard(w, s) THEN [w.unit[x] EXCEPT !.state = "dead"] ELSE w.unit[x]]
<1>1. IsWorld(w) /\ AiOK(w.ai) /\ UnitsOK(w.unit) /\ TrainOK(w.unit, w.train)
      /\ \A x \in Units : w.unit[x] \in UnitRecords
  BY PartsOf DEF Sound
<1>2. \A x \in Units : [w.unit[x] EXCEPT !.state = "dead"] \in UnitRecords
                       /\ [w.unit[x] EXCEPT !.state = "dead"].state = "dead"
  BY <1>1 DEF UnitRecords, States
<1>3. /\ g \in [Units -> UnitRecords]
      /\ \A x \in Units : \/ g[x] = w.unit[x]
                          \/ g[x].state = "dead" /\ w.unit[x].state = "aboard"
  BY <1>1, <1>2 DEF Aboard
<1>4. v = [w EXCEPT !.unit = g]
  OBVIOUS
<1> HIDE DEF g
<1>5. IsWorld(v) /\ v.ai = w.ai /\ v.unit = g /\ v.train = w.train
  <2> DEFINE x == [w EXCEPT !.unit = g]
  <2>1. IsWorld(x) /\ x.ai = w.ai /\ x.unit = g /\ x.train = w.train
    BY <1>1, UnitSet
  <2> QED BY ONLY <1>4, <2>1
<1>6. UnitsOK(g)
  BY <1>1, <1>3 DEF UnitsOK, Within
<1>7. TrainOK(g, w.train)
  <2>1. ASSUME w.train \in [unit : Generals, id : Nat], w.unit[w.train.unit].state = "training"
        PROVE  g[w.train.unit].state = "training"
    <3>1. w.train.unit \in Units
      BY <2>1 DEF Units
    <3> QED BY <1>3, <2>1, <3>1
  <2> QED BY <1>1, <2>1 DEF TrainOK
<1> QED BY <1>1, <1>5, <1>6, <1>7 DEF Sound

\* A unit dies and reports.
LEMMA Dies == ASSUME Inv, NEW u \in Units, Die(u) PROVE Inv'
<1> DEFINE w == KeepsDoing(World, u, "dead")
           id == unit[u].ai_action_id
<1>1. PICK v \in action_finished(w, u) :
        Become([v EXCEPT !.unit = [x \in Units |->
          IF x \in Aboard(v, u) THEN [v.unit[x] EXCEPT !.state = "dead"] ELSE v.unit[x]]])
  BY DEF Die
<1>2. World.unit[u].state # "training"
  BY DEF Die, is_visible
<1>3. "dead" \in States \ {"inside", "training"} /\ id \in Nat
  BY UnitIn DEF States, UnitRecords
<1>4. w = Doing(World, u, "dead", id)
  BY Worlds DEF KeepsDoing
<1> HIDE DEF w, id
<1>5. Sound(w)
  BY <1>2, <1>3, <1>4, UnitIn, OutsideDoing
<1>6. Sound(v)
  BY <1>1, <1>5, FinishedIs
<1> DEFINE y == [v EXCEPT !.unit = [x \in Units |->
             IF x \in Aboard(v, u) THEN [v.unit[x] EXCEPT !.state = "dead"] ELSE v.unit[x]]]
<1>7. Sound(y)
  BY <1>6, DyingAboard
<1>8. Become(y)
  BY <1>1
<1> HIDE DEF y
<1>9. busy' \in Calls
  BY UnitIn DEF Die
<1> QED BY <1>7, <1>8, <1>9, Becoming

\* A ship reports.
LEMMA ShipsReport == ASSUME Inv, NEW s \in Ships, ShipReports(s) PROVE Inv'
<1>1. PICK v \in action_finished(World, s) : Become(v)
  BY DEF ShipReports
<1>2. s \in Units
  BY DEF Units
<1>3. Sound(v)
  BY <1>1, <1>2, UnitIn, FinishedIs
<1>4. busy' \in Calls
  BY <1>2, UnitIn DEF ShipReports
<1> QED BY <1>1, <1>3, <1>4, Becoming

\* A day passes.
LEMMA DayPasses == ASSUME Inv, NextDay PROVE Inv'
<1> DEFINE Older(a) == [a EXCEPT !.wait = IF @ = 0 THEN 0 ELSE @ - 1,
                                 !.age = IF @ > Overdue THEN @ ELSE @ + 1]
           s(n) == ai[n].action_array
           t(n) == [i \in DOMAIN s(n) |-> Older(s(n)[i])]
           f == [n \in Nations |-> [ai[n] EXCEPT !.action_array = t(n)]]
<1>1. Sound(World) /\ busy \in Calls /\ AiOK(ai) /\ UnitsOK(unit) /\ TrainOK(unit, train)
  BY Worlds DEF Inv, Sound
<1>2. ASSUME NEW a \in Records
      PROVE  Older(a) \in Records /\ Older(a).action_id = a.action_id
  <2> DEFINE x == IF a.wait = 0 THEN 0 ELSE a.wait - 1
             y == IF a.age > Overdue THEN a.age ELSE a.age + 1
  <2>1. x \in 0..RetryWait /\ y \in 0..(Overdue + 1)
    <3>1. a.wait \in 0..RetryWait /\ a.age \in 0..(Overdue + 1)
      BY DEF Records
    <3>2. Overdue \in Nat /\ RetryWait \in Nat
      BY QueueAssumption
    <3> QED BY <3>1, <3>2
  <2>2. Older(a) = [a EXCEPT !.wait = x, !.age = y]
    OBVIOUS
  <2> HIDE DEF x, y, Older
  <2> QED BY <2>1, <2>2 DEF Records
<1> HIDE DEF Older
<1>3. ASSUME NEW n \in Nations
      PROVE  [ai[n] EXCEPT !.action_array = t(n)] \in Queues
             /\ QueueOK([ai[n] EXCEPT !.action_array = t(n)])
  <2> DEFINE z == s(n)
             r == t(n)
             c == ai[n].cur_pos
             l == ai[n].last_action_id
             q == [action_array |-> r, cur_pos |-> c, last_action_id |-> l]
  <2>1. z \in Seq(Records) /\ Len(z) \in Nat /\ DOMAIN z = 1..Len(z)
        /\ ai[n] \in Queues /\ QueueOK(ai[n])
    BY <1>1, PartsOf, Worlds DEF Queue
  <2>2. r = [i \in 1..Len(z) |-> Older(z[i])]
    BY <2>1
  <2>3. \A j \in 1..Len(z) : z[j].action_id \in 1..l
    BY <2>1 DEF QueueOK
  <2>4. \A j, k \in 1..Len(z) : z[j].action_id = z[k].action_id => j = k
    BY <2>1 DEF QueueOK
  <2>5. c \in 0..Len(z) /\ c \in Nat /\ l \in Nat
    BY <2>1 DEF QueueOK, Queues
  <2>6. [ai[n] EXCEPT !.action_array = r] = q
    <3> HIDE DEF r
    <3> QED BY <2>1 DEF Queues
  <2> HIDE DEF r, z, l, c
  <2>7. \A j \in 1..Len(z) : z[j] \in Records
    BY <2>1
  <2>8. \A j \in 1..Len(z) : r[j] \in Records /\ r[j].action_id = z[j].action_id
    BY <1>2, <2>2, <2>7
  <2>9. r \in Seq(Records) /\ Len(r) = Len(z)
    BY <2>1, <2>2, <2>8
  <2>10. q \in Queues
    <3> DEFINE Lists == Seq(Records)
    <3>1. r \in Lists
      BY <2>9
    <3> HIDE DEF Lists
    <3>2. q \in [action_array : Lists, cur_pos : Nat, last_action_id : Nat]
      BY <2>5, <3>1
    <3> QED BY <3>2 DEF Queues, Lists
  <2>11. QueueOK(q)
    BY <2>3, <2>4, <2>5, <2>8, <2>9 DEF QueueOK
  <2> QED BY <2>6, <2>10, <2>11 DEF r
<1>4. AiOK(f)
  <2> DEFINE q(n) == [ai[n] EXCEPT !.action_array = t(n)]
  <2>1. \A n \in Nations : q(n) \in Queues /\ QueueOK(q(n))
    BY <1>3
  <2>2. f = [n \in Nations |-> q(n)]
    OBVIOUS
  <2> HIDE DEF q, f
  <2> QED BY <2>1, <2>2 DEF AiOK
<1>5. ai' = f /\ UNCHANGED <<unit, train, busy>>
  BY DEF NextDay, Older
<1> HIDE DEF f
<1> DEFINE v == [ai |-> f, unit |-> unit, train |-> train]
<1>6. IsWorld(v) /\ v.ai = f /\ v.unit = unit /\ v.train = train
  BY DEF IsWorld
<1>7. World' = v
  BY <1>5 DEF World
<1> HIDE DEF v
<1>8. Sound(v)
  BY <1>1, <1>4, <1>6 DEF Sound
<1>9. Sound(World')
  BY <1>7, <1>8
<1> QED BY <1>1, <1>5, <1>9 DEF Inv

\* A unit changes its nation.
LEMMA NationIs ==
  ASSUME NEW w, Sound(w), NEW u \in Units, NEW to \in Nations,
         NEW v, v = [w EXCEPT !.unit[u].nation_recno = to]
  PROVE  Sound(v)
<1> DEFINE b == [w.unit[u] EXCEPT !.nation_recno = to]
           g == [w.unit EXCEPT ![u] = b]
<1>1. IsWorld(w) /\ AiOK(w.ai) /\ UnitsOK(w.unit) /\ TrainOK(w.unit, w.train)
      /\ w.unit[u] \in UnitRecords
  BY PartsOf DEF Sound
<1>2. v = [w EXCEPT !.unit = g]
  BY <1>1 DEF IsWorld
<1>3. b \in UnitRecords /\ b.state = w.unit[u].state /\ b.ai_action_id = w.unit[u].ai_action_id
  BY <1>1 DEF UnitRecords
<1> HIDE DEF b
<1>4. /\ g \in [Units -> UnitRecords] /\ g[u] = b
      /\ \A x \in Units : x # u => g[x] = w.unit[x]
  BY <1>1, <1>3 DEF UnitsOK
<1> HIDE DEF g
<1>5. IsWorld(v) /\ v.ai = w.ai /\ v.unit = g /\ v.train = w.train
  <2> DEFINE x == [w EXCEPT !.unit = g]
  <2>1. IsWorld(x) /\ x.ai = w.ai /\ x.unit = g /\ x.train = w.train
    BY <1>1, UnitSet
  <2> QED BY ONLY <1>2, <2>1
<1>6. UnitsOK(g)
  BY <1>1, <1>3, <1>4 DEF UnitsOK, Within
<1>7. TrainOK(g, w.train)
  <2>1. ASSUME w.train \in [unit : Generals, id : Nat], w.unit[w.train.unit].state = "training"
        PROVE  g[w.train.unit].state = "training"
    <3>1. w.train.unit \in Units
      BY <2>1 DEF Units
    <3> QED BY <1>3, <1>4, <2>1, <3>1
  <2> QED BY <1>1, <2>1 DEF TrainOK
<1> QED BY <1>1, <1>5, <1>6, <1>7 DEF Sound

\* One step of a hand over.
LEMMA HandsOver == ASSUME Inv, HandOverStep PROVE Inv'
<1> DEFINE n == busy.nation
           left == {u \in Units : unit[u].nation_recno = n}
<1>1. Sound(World) /\ busy \in Calls /\ busy.call = "handover"
  BY DEF Inv, HandOverStep
<1>2. n \in Nations /\ busy.to \in Nations
  BY <1>1 DEF Calls, Idle
<1>3. CASE left # {}
  <2>1. PICK u \in left :
          \E v \in IF is_deleted(World, u) THEN {World} ELSE action_finished(World, u) :
            Become([v EXCEPT !.unit[u].nation_recno = busy.to])
    BY <1>3 DEF HandOverStep
  <2>2. PICK v \in IF is_deleted(World, u) THEN {World} ELSE action_finished(World, u) :
            Become([v EXCEPT !.unit[u].nation_recno = busy.to])
    BY <2>1
  <2>3. Sound(v)
    BY <1>1, <2>2, FinishedIs
  <2> DEFINE x == [v EXCEPT !.unit[u].nation_recno = busy.to]
  <2>4. Sound(x)
    BY <1>2, <2>3, NationIs
  <2>5. Become(x)
    BY <2>2
  <2>6. busy' = busy
    BY <1>3 DEF HandOverStep
  <2>7. PICK y : y = x
    OBVIOUS
  <2> HIDE DEF x
  <2> QED BY <1>1, <2>4, <2>5, <2>6, <2>7, Becoming
<1>4. CASE left = {}
  <2> DEFINE l == ai[n].last_action_id
             q == [action_array |-> <<>>, cur_pos |-> 0, last_action_id |-> l]
             v == [World EXCEPT !.ai[n] = q]
  <2>1. ai[n] \in Queues /\ l \in Nat /\ ai \in [Nations -> Queues]
    BY <1>1, <1>2, PartsOf, Worlds DEF Queues, Sound, AiOK
  <2>2. q \in Queues /\ QueueOK(q)
    <3>1. <<>> \in Seq(Records) /\ Len(<<>>) = 0
      OBVIOUS
    <3> HIDE DEF l
    <3> QED BY <2>1, <3>1 DEF Queues, QueueOK
  <2>3. ai' = [ai EXCEPT ![n] = q] /\ busy' = Idle /\ UNCHANGED <<unit, train>>
    <3>1. ai' = [ai EXCEPT ![n].action_array = <<>>, ![n].cur_pos = 0] /\ busy' = Idle
          /\ UNCHANGED <<unit, train>>
      BY <1>4 DEF HandOverStep
    <3> DEFINE r == [ai[n] EXCEPT !.action_array = <<>>]
               g == [ai EXCEPT ![n] = r]
    <3>2. g[n] = r
      BY <1>2, <2>1
    <3>3. r = [action_array |-> <<>>, cur_pos |-> ai[n].cur_pos, last_action_id |-> l]
      BY <2>1 DEF Queues
    <3>4. [r EXCEPT !.cur_pos = 0] = q
      <4> HIDE DEF l, r
      <4> QED BY <3>3
    <3> HIDE DEF r
    <3>5. [g EXCEPT ![n].cur_pos = 0] = [g EXCEPT ![n] = q]
      <4> HIDE DEF g, q
      <4> QED BY <3>2, <3>4
    <3>6. [g EXCEPT ![n] = q] = [ai EXCEPT ![n] = q]
      <4> HIDE DEF q
      <4> QED BY <1>2, <2>1
    <3>7. [ai EXCEPT ![n].action_array = <<>>, ![n].cur_pos = 0] = [g EXCEPT ![n].cur_pos = 0]
      BY DEF r
    <3> HIDE DEF g, q
    <3> QED BY <3>1, <3>5, <3>6, <3>7
  <2> HIDE DEF q
  <2>4. Sound(v)
    BY <1>1, <1>2, <2>2, OneQueue
  <2>5. v = [ai |-> [ai EXCEPT ![n] = q], unit |-> unit, train |-> train]
    BY DEF World
  <2>6. World' = v
    BY <2>3, <2>5 DEF World
  <2> HIDE DEF v
  <2>7. Sound(World') /\ busy' \in Calls
    BY <2>3, <2>4, <2>6 DEF Calls
  <2> QED BY <2>7 DEF Inv
<1> QED BY <1>3, <1>4

\* A pass or a hand over begins.
LEMMA Begins ==
  ASSUME Inv, NEW n \in Nations, NEW to \in Nations, BeginPass(n) \/ BeginHandOver(n, to)
  PROVE  Inv'
<1>1. World' = World
  BY DEF World, BeginPass, BeginHandOver
<1>2. busy' \in Calls
  BY DEF BeginPass, BeginHandOver, Calls
<1> QED BY <1>1, <1>2 DEF Inv

\* What a pass has still to examine after one record.
LEMMA Remaining ==
  ASSUME NEW w, Sound(w), NEW n \in Nations, NEW i \in DOMAIN Queue(w, n),
         NEW v, Processed(w, v, n, i), NEW j,
         j = IF Len(Queue(v, n)) < Len(Queue(w, n)) THEN i ELSE i + 1
  PROVE  Left(Queue(v, n), j - 1) = Left(Queue(w, n), i)
<1> DEFINE s == Queue(w, n)
           t == Queue(v, n)
<1>1. Len(s) \in Nat /\ i \in 1..Len(s) /\ (SameIds(s, t) \/ Shorter(s, t, i))
      /\ (j = IF Len(t) < Len(s) THEN i ELSE i + 1)
  BY PartsOf DEF Processed
<1> HIDE DEF s, t
<1>2. CASE SameIds(s, t)
  <2>1. j - 1 = i /\ Len(t) = Len(s)
    BY <1>1, <1>2 DEF SameIds
  <2>2. \A k \in 1..(Len(s) - i) : i + k \in 1..Len(s)
    BY <1>1
  <2>3. \A k \in 1..(Len(s) - i) : t[i + k].action_id = s[i + k].action_id
    BY <1>2, <2>2 DEF SameIds
  <2>4. Left(t, j - 1) = Left(s, i)
    BY <2>1, <2>3 DEF Left
  <2> QED BY <2>4 DEF s, t
<1>3. CASE Shorter(s, t, i)
  <2>1. j = i /\ Len(t) = Len(s) - 1
    BY <1>1, <1>3 DEF Shorter
  <2>2. Len(t) - (j - 1) = Len(s) - i
    BY <1>1, <2>1
  <2>3. \A k \in 1..(Len(s) - i) :
          i - 1 + k \in 1..(Len(s) - 1) /\ ~(i - 1 + k < i) /\ i - 1 + k + 1 = i + k
    BY <1>1
  <2>4. ASSUME NEW k \in 1..(Len(s) - i)
        PROVE  t[j - 1 + k].action_id = s[i + k].action_id
    <3> DEFINE m == i - 1 + k
    <3>1. m \in 1..(Len(s) - 1) /\ ~(m < i) /\ m + 1 = i + k
      BY <2>3
    <3> HIDE DEF m
    <3>2. t[m].action_id = s[m + 1].action_id
      BY <1>3, <3>1 DEF Shorter
    <3> QED BY <2>1, <3>1, <3>2 DEF m
  <2>5. Left(t, j - 1) = Left(s, i)
    BY <2>2, <2>4 DEF Left
  <2> QED BY <2>5 DEF s, t
<1> QED BY <1>1, <1>2, <1>3

-----------------------------------------------------------------------------
(* The theorems.                                                           *)

\* Whatever the nations decide and whatever happens to their units, queues, units and the
\* town's trainee keep the invariant: every Nation::action_array stays a queue whose records
\* have different ids, all of them given out.
THEOREM ActionQueueInvariant == Spec => []Inv
<1>1. Init => Inv
  BY Beginning
<1>2. Inv /\ [Next]_vars => Inv'
  <2> SUFFICES ASSUME Inv, [Next]_vars PROVE Inv'
    OBVIOUS
  <2>1. ASSUME NEW n \in AINations,
               QueueAssign(n) \/ QueueWorkers(n) \/ QueueGiven(n) \/ QueueTravel(n)
        PROVE  Inv'
    BY <2>1, QueuesAction, QueueAssumption
  <2>2. ASSUME NEW n \in AINations, BeginPass(n) PROVE Inv'
    BY <2>2, Begins, QueueAssumption
  <2>3. CASE PassStep
    BY <2>3, PassSteps
  <2>4. CASE FinishTraining \/ CancelTraining
    BY <2>4, FinishesTraining, CancelsTraining
  <2>5. ASSUME NEW u \in Units, Enter(u) \/ Stop(u) \/ GoHome(u) \/ Die(u) PROVE Inv'
    BY <2>5, Enters, Stops, GoesHome, Dies
  <2>6. ASSUME NEW u \in Troops, Board(u) PROVE Inv'
    BY <2>6, Boards
  <2>7. ASSUME NEW s \in Ships, ShipReports(s) PROVE Inv'
    BY <2>7, ShipsReport
  <2>8. CASE NextDay
    BY <2>8, DayPasses
  <2>9. ASSUME NEW n \in Nations, NEW to \in Nations, BeginHandOver(n, to) PROVE Inv'
    BY <2>9, Begins
  <2>10. CASE HandOverStep
    BY <2>10, HandsOver
  <2>11. CASE UNCHANGED vars
    <3>1. World' = World /\ busy' = busy
      BY <2>11 DEF vars, World
    <3> QED BY <3>1 DEF Inv
  <2> QED BY <2>1, <2>2, <2>3, <2>4, <2>5, <2>6, <2>7, <2>8, <2>9, <2>10, <2>11 DEF Next
<1> QED BY <1>1, <1>2, PTL DEF Spec

\* TypeOK of every instance: the current record of action_array exists after any linkout,
\* get_action_based_on_id finds at most one record, and who is trained stays in training.
THEOREM QueueTypes == Spec => []TypeOK
<1>1. Inv => TypeOK
  <2> SUFFICES ASSUME Inv PROVE TypeOK
    OBVIOUS
  <2>1. Sound(World)
    BY DEF Inv
  <2>2. ASSUME NEW n \in Nations
        PROVE  /\ ai[n].cur_pos \in 0..Len(ai[n].action_array)
               /\ ai[n].last_action_id \in Nat
               /\ \A i, j \in DOMAIN ai[n].action_array :
                    ai[n].action_array[i].action_id = ai[n].action_array[j].action_id => i = j
               /\ \A a \in Actions(n) :
                    /\ a.action_id \in 1..ai[n].last_action_id
                    /\ a.action_mode \in {"assign", "worker"} \cup TravelModes
                    /\ a.retry_count \in 0..STD_ACTION_RETRY_COUNT
                    /\ a.wait \in 0..RetryWait /\ a.age \in 0..(Overdue + 1)
    <3> DEFINE s == ai[n].action_array
    <3>1. /\ ai[n] \in Queues /\ QueueOK(ai[n]) /\ s \in Seq(Records)
          /\ DOMAIN s = 1..Len(s) /\ \A i \in DOMAIN s : s[i] \in Records
      BY <2>1, PartsOf, Worlds DEF Queue
    <3>2. ai[n].cur_pos \in 0..Len(s) /\ ai[n].last_action_id \in Nat
      BY <3>1 DEF QueueOK, Queues
    <3>3. \A i, j \in DOMAIN s : s[i].action_id = s[j].action_id => i = j
      BY <3>1 DEF QueueOK
    <3>4. ASSUME NEW a \in Actions(n)
          PROVE  /\ a.action_id \in 1..ai[n].last_action_id
                 /\ a.action_mode \in {"assign", "worker"} \cup TravelModes
                 /\ a.retry_count \in 0..STD_ACTION_RETRY_COUNT
                 /\ a.wait \in 0..RetryWait /\ a.age \in 0..(Overdue + 1)
      <4>1. PICK i \in DOMAIN s : a = s[i]
        BY DEF Actions, ToSet
      <4>2. a \in Records
        BY <3>1, <4>1
      <4>3. a.action_id \in 1..ai[n].last_action_id
        BY <3>1, <4>1 DEF QueueOK
      <4> QED BY <4>2, <4>3 DEF Records, Modes
    <3> QED BY <3>2, <3>3, <3>4
  <2>3. ASSUME NEW u \in Units
        PROVE  /\ unit[u].nation_recno \in Nations
               /\ unit[u].ai_action_id \in Nat
               /\ unit[u].state \in States
    BY UnitIn DEF UnitRecords
  <2>4. train = None \/ unit[train.unit].state = "training"
    BY <2>1, Worlds DEF Sound, TrainOK
  <2> QED BY <2>2, <2>3, <2>4 DEF TypeOK, States
<1> QED BY <1>1, ActionQueueInvariant, PTL

\* PassSkipsNothing of every instance: Nation::process_action goes on with the record that
\* followed the one it has just processed, whatever the handler did and whether or not it
\* deleted its record.
THEOREM EveryActionExamined == Spec => PassSkipsNothing
<1> DEFINE A == InPass /\ busy'.call = "pass"
                  => LET n == busy.nation
                     IN  Left(ai'[n].action_array, busy'.recno - 1)
                           = Left(ai[n].action_array, busy.recno)
<1>1. Inv /\ [Next]_vars => [A]_vars
  <2> SUFFICES ASSUME Inv, Next, InPass, busy'.call = "pass" PROVE A
    OBVIOUS
  <2> DEFINE n == busy.nation
             i == busy.recno
  <2>1. PassStep
    <3>1. busy # Idle /\ busy.call # "handover"
      BY DEF InPass, Idle
    <3> QED BY <3>1 DEF Next, QueueAssign, QueueWorkers, QueueGiven, QueueTravel, Queueing,
               BeginPass, FinishTraining, CancelTraining, Enter, Stop, GoHome, Die, Board, ShipReports,
               NextDay, BeginHandOver, HandOverStep
  <2>2. PICK v : /\ Become(v) /\ IsWorld(v) /\ Processed(World, v, n, i)
                 /\ i \in DOMAIN Queue(World, n)
                 /\ busy'.recno = IF Len(Queue(v, n)) < Len(Queue(World, n)) THEN i ELSE i + 1
    BY <2>1, PassSteps
  <2>3. n \in Nations /\ Sound(World)
    BY PassCall DEF Inv
  <2>4. PICK j : j = busy'.recno
    OBVIOUS
  <2>5. PICK w : w = World
    OBVIOUS
  <2>6. PICK m : m = n
    OBVIOUS
  <2>7. PICK l : l = i
    OBVIOUS
  <2>8. Left(Queue(v, m), j - 1) = Left(Queue(w, m), l)
    <3>1. Sound(w) /\ m \in Nations /\ l \in DOMAIN Queue(w, m) /\ Processed(w, v, m, l)
          /\ j = IF Len(Queue(v, m)) < Len(Queue(w, m)) THEN l ELSE l + 1
      BY <2>2, <2>3, <2>4, <2>5, <2>6, <2>7
    <3> QED BY <3>1, Remaining
  <2>9. ai'[n].action_array = Queue(v, m)
    BY <2>2, <2>6 DEF Become, Queue
  <2>10. ai[n].action_array = Queue(w, m)
    BY <2>5, <2>6, Worlds DEF Queue
  <2> QED BY <2>4, <2>7, <2>8, <2>9, <2>10
<1> QED BY <1>1, ActionQueueInvariant, PTL DEF Spec, PassSkipsNothing

-----------------------------------------------------------------------------
(* Counting: the units that hold the id of an action, and what their       *)
(* number has to do with the counts of its record.                         *)

\* The units of a nation that work for an action, and those it waits for
Holders(g, n, k) ==
  {u \in Units : g[u].nation_recno = n /\ g[u].ai_action_id = k /\ g[u].state # "dead"}
Awaited(g, n, a) ==
  Holders(g, n, a.action_id) \ (IF a.action_mode = "travel" THEN {a.action_para2} ELSE {})

Sailing == {"travel", "travel2"}

CountOK(a) ==
  /\ a.processed_instance_count <= a.processing_instance_count
  /\ a.processing_instance_count <= a.instance_count
  /\ a.instance_count > 0
  /\ a.action_mode = "assign" => a.instance_count = 1
  /\ a.action_mode \in Sailing => a.processing_instance_count = a.instance_count
  /\ a.action_mode = "travel3" => a.processing_instance_count \in {0, a.instance_count}
  /\ a.retry_count = 0 /\ a.processing_instance_count # a.instance_count
       => a.processed_instance_count < a.processing_instance_count

\* No more units hold the id than may still report ...
UpperOK(g, n, a) ==
  a.action_mode # "travel" => Cardinality(Holders(g, n, a.action_id)) <= Outstanding(a)

\* ... and, where no unit is called away before its report, no fewer.
LowerOK(g, n, a) ==
  a.action_mode \in {"worker"} \cup Sailing => Outstanding(a) <= Cardinality(Awaited(g, n, a))

\* The ship that waits for its passengers still works for the travel.
ShipOK(g, n, low, a) ==
  a.action_mode = "travel" /\ a.action_para2 # None =>
    /\ a.action_para2 \in Ships
    /\ low => g[a.action_para2].nation_recno = n
    /\ /\ a.processed_instance_count < a.instance_count
       /\ g[a.action_para2].nation_recno = n
       /\ g[a.action_para2].state # "dead"
       => g[a.action_para2].ai_action_id = a.action_id

\* Generals are only assigned, and only those who could not land are aboard and work.
KindOK(g, n, a) ==
  \A u \in Holders(g, n, a.action_id) :
    /\ u \in Generals => a.action_mode = "assign"
    /\ g[u].state = "aboard" => a.action_mode = "travel3"

\* A record and the units; "low" is given up for a nation that hands over its units.
RecordOK(g, n, low, a) ==
  /\ CountOK(a) /\ UpperOK(g, n, a) /\ (low => LowerOK(g, n, a))
  /\ ShipOK(g, n, low, a) /\ KindOK(g, n, a)

\* Units of a nation get the id k, 0 when they stop working, and none dies or changes sides.
Gives(g, h, n, U, k) ==
  \A u \in Units :
    /\ h[u].nation_recno = n <=> g[u].nation_recno = n
    /\ g[u].nation_recno = n =>
         /\ h[u].state = "dead" <=> g[u].state = "dead"
         /\ g[u].state # "dead"
              => h[u].ai_action_id = IF u \in U THEN k ELSE g[u].ai_action_id
         /\ h[u].state = "aboard" => g[u].state = "aboard" \/ u \in U

\* None of U works for the action c, or that does not matter any more.
Spared(g, n, U, c) ==
  \A u \in U \cap Holders(g, n, c.action_id) :
    \/ c.action_mode \in {"assign", "travel3"}
    \/ c.processed_instance_count >= c.instance_count

\* The units are finitely many, and so are those who work for an action.
LEMMA HoldersFinite ==
  ASSUME NEW g, NEW n, NEW k
  PROVE  /\ Holders(g, n, k) \subseteq Units /\ IsFiniteSet(Holders(g, n, k))
         /\ Cardinality(Holders(g, n, k)) \in Nat
<1>1. Holders(g, n, k) \subseteq Units
  BY DEF Holders
<1>2. IsFiniteSet(Holders(g, n, k))
  BY <1>1, FS_Subset, QueueAssumption
<1> QED BY <1>1, <1>2, FS_CardinalityType

\* So are those an action waits for.
LEMMA AwaitedFinite ==
  ASSUME NEW g, NEW n, NEW a
  PROVE  /\ IsFiniteSet(Awaited(g, n, a)) /\ Cardinality(Awaited(g, n, a)) \in Nat
         /\ Awaited(g, n, a) \subseteq Holders(g, n, a.action_id)
<1>1. Awaited(g, n, a) \subseteq Holders(g, n, a.action_id)
  BY DEF Awaited
<1>2. IsFiniteSet(Awaited(g, n, a))
  BY <1>1, FS_Subset, HoldersFinite
<1> QED BY <1>1, <1>2, FS_CardinalityType

\* The counts of a record are numbers.
LEMMA CountsAre ==
  ASSUME NEW a \in Records
  PROVE  /\ a.processed_instance_count \in Nat /\ a.processing_instance_count \in Nat
         /\ a.instance_count \in Nat /\ a.action_id \in Nat /\ a.retry_count \in Nat
         /\ a.action_mode \in Modes
         /\ Outstanding(a) = a.processing_instance_count - a.processed_instance_count
         /\ Outstanding(a) \in Int
BY QueueAssumption DEF Records, Outstanding

\* Who works for an action when units have got the id of another ...
LEMMA OtherHolders ==
  ASSUME NEW g, NEW h, NEW n, NEW U, NEW k, Gives(g, h, n, U, k), NEW id, id # k
  PROVE  Holders(h, n, id) = Holders(g, n, id) \ U
BY DEF Holders, Gives

\* ... and of their own.
LEMMA SameHolders ==
  ASSUME NEW g, NEW h, NEW n, NEW U, NEW k, Gives(g, h, n, U, k)
  PROVE  Holders(h, n, k)
           = Holders(g, n, k) \cup {u \in Units \cap U : g[u].nation_recno = n /\ g[u].state # "dead"}
BY DEF Holders, Gives

\* An action is not disturbed when units get the id of another one and it is spared.
LEMMA OtherRecord ==
  ASSUME NEW g, NEW h, NEW n, NEW U, NEW k, Gives(g, h, n, U, k), NEW low \in BOOLEAN,
         NEW c \in Records, RecordOK(g, n, low, c), c.action_id # k, Spared(g, n, U, c)
  PROVE  RecordOK(h, n, low, c)
<1> DEFINE H == Holders(g, n, c.action_id)
           J == Holders(h, n, c.action_id)
<1>1. J = H \ U
  BY OtherHolders
<1>2. /\ c.processed_instance_count \in Nat /\ c.processing_instance_count \in Nat
      /\ c.instance_count \in Nat /\ Outstanding(c) \in Int
      /\ Outstanding(c) = c.processing_instance_count - c.processed_instance_count
  BY CountsAre
<1>3. CountOK(c) /\ UpperOK(g, n, c) /\ (low => LowerOK(g, n, c)) /\ ShipOK(g, n, low, c)
      /\ KindOK(g, n, c)
  BY DEF RecordOK
<1>4. c.processing_instance_count <= c.instance_count
  BY <1>3 DEF CountOK
<1>5. IsFiniteSet(H) /\ Cardinality(H) \in Nat /\ Cardinality(J) \in Nat
      /\ Cardinality(J) <= Cardinality(H)
  <2>1. IsFiniteSet(H) /\ Cardinality(H) \in Nat /\ Cardinality(J) \in Nat
    BY HoldersFinite
  <2> HIDE DEF H, J
  <2> QED BY <1>1, <2>1, FS_Subset
<1>6. UpperOK(h, n, c)
  BY <1>2, <1>3, <1>5 DEF UpperOK
<1>7. ASSUME low PROVE LowerOK(h, n, c)
  <2>1. CASE U \cap H = {}
    <3>1. J = H
      BY <1>1, <2>1
    <3>2. Awaited(h, n, c) = Awaited(g, n, c)
      BY <3>1 DEF Awaited
    <3> QED BY <1>3, <1>7, <3>2 DEF LowerOK
  <2>2. CASE c.action_mode \in {"assign", "travel3"}
    BY <2>2 DEF LowerOK, Sailing
  <2>3. CASE c.processed_instance_count >= c.instance_count
    <3>1. Outstanding(c) <= 0
      BY <1>2, <1>4, <2>3
    <3>2. Cardinality(Awaited(h, n, c)) \in Nat
      BY AwaitedFinite
    <3> QED BY <1>2, <3>1, <3>2 DEF LowerOK
  <2> QED BY <2>1, <2>2, <2>3 DEF Spared
<1>8. ShipOK(h, n, low, c)
  <2> SUFFICES ASSUME c.action_mode = "travel", c.action_para2 # None
               PROVE  /\ c.action_para2 \in Ships
                      /\ low => h[c.action_para2].nation_recno = n
                      /\ /\ c.processed_instance_count < c.instance_count
                         /\ h[c.action_para2].nation_recno = n
                         /\ h[c.action_para2].state # "dead"
                         => h[c.action_para2].ai_action_id = c.action_id
    BY DEF ShipOK
  <2> DEFINE s == c.action_para2
  <2>1. s \in Ships /\ s \in Units /\ (low => g[s].nation_recno = n)
    BY <1>3 DEF ShipOK, Units
  <2>2. low => h[s].nation_recno = n
    BY <2>1 DEF Gives
  <2>3. ASSUME c.processed_instance_count < c.instance_count, h[s].nation_recno = n,
               h[s].state # "dead"
        PROVE  h[s].ai_action_id = c.action_id
    <3>1. g[s].nation_recno = n /\ g[s].state # "dead"
      BY <2>1, <2>3 DEF Gives
    <3>2. g[s].ai_action_id = c.action_id
      BY <1>3, <2>3, <3>1 DEF ShipOK
    <3>3. s \in H
      BY <2>1, <3>1, <3>2 DEF Holders
    <3>4. s \notin U
      BY <1>2, <2>3, <3>3 DEF Spared
    <3> QED BY <2>1, <3>1, <3>2, <3>4 DEF Gives
  <2> QED BY <2>1, <2>2, <2>3
<1>9. KindOK(h, n, c)
  <2> SUFFICES ASSUME NEW u \in J
               PROVE  /\ u \in Generals => c.action_mode = "assign"
                      /\ h[u].state = "aboard" => c.action_mode = "travel3"
    BY DEF KindOK
  <2>1. u \in H /\ u \notin U /\ u \in Units /\ g[u].nation_recno = n
    BY <1>1 DEF Holders
  <2>2. h[u].state = "aboard" => g[u].state = "aboard"
    BY <2>1 DEF Gives
  <2> QED BY <1>3, <2>1, <2>2 DEF KindOK
<1> QED BY <1>3, <1>6, <1>7, <1>8, <1>9 DEF RecordOK

\* One unit of the same nation, which does not work for the action, does or suffers
\* something: the action is not disturbed.
LEMMA Elsewhere ==
  ASSUME NEW g, NEW h, NEW n, NEW low \in BOOLEAN, NEW c \in Records, RecordOK(g, n, low, c),
         NEW u \in Units, \A x \in Units : x # u => h[x] = g[x],
         h[u].nation_recno = g[u].nation_recno,
         g[u].nation_recno = n => g[u].ai_action_id # c.action_id /\ g[u].state # "dead",
         g[u].nation_recno = n => h[u].state = "dead" \/ h[u].ai_action_id # c.action_id
  PROVE  RecordOK(h, n, low, c)
<1> DEFINE k == c.action_id
<1>1. Holders(h, n, k) = Holders(g, n, k) /\ u \notin Holders(g, n, k)
  <2>1. u \notin Holders(g, n, k) /\ u \notin Holders(h, n, k)
    BY DEF Holders
  <2>2. \A x \in Units : x # u => (x \in Holders(h, n, k) <=> x \in Holders(g, n, k))
    BY DEF Holders
  <2>3. Holders(g, n, k) \subseteq Units /\ Holders(h, n, k) \subseteq Units
    BY DEF Holders
  <2> QED BY <2>1, <2>2, <2>3
<1>2. CountOK(c) /\ UpperOK(g, n, c) /\ (low => LowerOK(g, n, c)) /\ ShipOK(g, n, low, c)
      /\ KindOK(g, n, c)
  BY DEF RecordOK
<1>3. UpperOK(h, n, c)
  BY <1>1, <1>2 DEF UpperOK
<1>4. Awaited(h, n, c) = Awaited(g, n, c)
  BY <1>1 DEF Awaited
<1>5. low => LowerOK(h, n, c)
  BY <1>2, <1>4 DEF LowerOK
<1>6. ShipOK(h, n, low, c)
  <2> SUFFICES ASSUME c.action_mode = "travel", c.action_para2 # None
               PROVE  /\ c.action_para2 \in Ships
                      /\ low => h[c.action_para2].nation_recno = n
                      /\ /\ c.processed_instance_count < c.instance_count
                         /\ h[c.action_para2].nation_recno = n
                         /\ h[c.action_para2].state # "dead"
                         => h[c.action_para2].ai_action_id = c.action_id
    BY DEF ShipOK
  <2>1. /\ c.action_para2 \in Ships /\ c.action_para2 \in Units
        /\ low => g[c.action_para2].nation_recno = n
        /\ /\ c.processed_instance_count < c.instance_count
           /\ g[c.action_para2].nation_recno = n
           /\ g[c.action_para2].state # "dead"
           => g[c.action_para2].ai_action_id = c.action_id
    BY <1>2 DEF ShipOK, Units
  <2>2. CASE c.action_para2 # u
    BY <2>1, <2>2
  <2>3. CASE c.action_para2 = u
    BY <2>1, <2>3
  <2> QED BY <2>2, <2>3
<1>7. KindOK(h, n, c)
  <2>1. \A x \in Holders(h, n, k) : x \in Holders(g, n, k) /\ h[x] = g[x]
    <3>1. \A x \in Holders(h, n, k) : x \in Units /\ x # u
      BY <1>1 DEF Holders
    <3> QED BY <1>1, <3>1
  <2> QED BY <1>2, <2>1 DEF KindOK
<1> QED BY <1>2, <1>3, <1>5, <1>6, <1>7 DEF RecordOK

\* Those aboard a ship die with it.
Sink(g, h, D) ==
  /\ D \in SUBSET Troops
  /\ \A u \in D : g[u].state = "aboard" /\ h[u].state = "dead"
  /\ \A u \in Units : /\ h[u].nation_recno = g[u].nation_recno
                      /\ h[u].ai_action_id = g[u].ai_action_id
                      /\ u \notin D => h[u].state = g[u].state

\* None of them is waited for.
LEMMA Drowned ==
  ASSUME NEW g, NEW h, NEW n, NEW low \in BOOLEAN, NEW c \in Records, RecordOK(g, n, low, c),
         NEW D, Sink(g, h, D)
  PROVE  RecordOK(h, n, low, c)
<1> USE DEF Sink
<1> DEFINE H == Holders(g, n, c.action_id)
           J == Holders(h, n, c.action_id)
<1>1. J = H \ D
  <2>1. \A u \in Units : u \in J <=> u \in H /\ u \notin D
    BY DEF Holders
  <2> QED BY <2>1 DEF Holders
<1>2. CountOK(c) /\ UpperOK(g, n, c) /\ (low => LowerOK(g, n, c)) /\ ShipOK(g, n, low, c)
      /\ KindOK(g, n, c) /\ Outstanding(c) \in Int
  BY CountsAre DEF RecordOK
<1>3. IsFiniteSet(H) /\ Cardinality(H) \in Nat /\ Cardinality(J) \in Nat
      /\ Cardinality(J) <= Cardinality(H)
  <2>1. IsFiniteSet(H) /\ Cardinality(H) \in Nat /\ Cardinality(J) \in Nat
    BY HoldersFinite
  <2> HIDE DEF H, J
  <2> QED BY <1>1, <2>1, FS_Subset
<1>4. UpperOK(h, n, c)
  BY <1>2, <1>3 DEF UpperOK
<1>5. ASSUME low PROVE LowerOK(h, n, c)
  <2>1. CASE D \cap H = {}
    <3>1. J = H
      BY <1>1, <2>1
    <3>2. Awaited(h, n, c) = Awaited(g, n, c)
      BY <3>1 DEF Awaited
    <3> QED BY <1>2, <1>5, <3>2 DEF LowerOK
  <2>2. CASE D \cap H # {}
    <3>1. c.action_mode = "travel3"
      BY <1>2, <2>2 DEF KindOK
    <3> QED BY <3>1 DEF LowerOK, Sailing
  <2> QED BY <2>1, <2>2
<1>6. ShipOK(h, n, low, c)
  <2>1. \A s \in Ships : s \in Units /\ s \notin D
    BY QueueAssumption DEF Units
  <2>2. \A s \in Ships : /\ h[s].nation_recno = g[s].nation_recno /\ h[s].state = g[s].state
                         /\ h[s].ai_action_id = g[s].ai_action_id
    BY <2>1
  <2> QED BY <1>2, <2>2 DEF ShipOK
<1>7. KindOK(h, n, c)
  <2>1. \A u \in J : u \in H /\ h[u].state = g[u].state
    BY <1>1 DEF Holders
  <2> QED BY <1>2, <2>1 DEF KindOK
<1> QED BY <1>2, <1>4, <1>5, <1>6, <1>7 DEF RecordOK

\* A unit leaves a nation that hands over its units.
LEMMA Leaves ==
  ASSUME NEW g, NEW h, NEW n, NEW c \in Records, RecordOK(g, n, FALSE, c),
         NEW u \in Units, \A x \in Units : x # u => h[x] = g[x], h[u].nation_recno # n
  PROVE  RecordOK(h, n, FALSE, c)
<1> DEFINE H == Holders(g, n, c.action_id)
           J == Holders(h, n, c.action_id)
<1>1. J = H \ {u}
  BY DEF Holders
<1>2. CountOK(c) /\ UpperOK(g, n, c) /\ ShipOK(g, n, FALSE, c) /\ KindOK(g, n, c)
      /\ Outstanding(c) \in Int
  BY CountsAre DEF RecordOK
<1>3. Cardinality(H) \in Nat /\ Cardinality(J) \in Nat /\ Cardinality(J) <= Cardinality(H)
  <2>1. IsFiniteSet(H) /\ Cardinality(H) \in Nat /\ Cardinality(J) \in Nat
    BY HoldersFinite
  <2> HIDE DEF H, J
  <2> QED BY <1>1, <2>1, FS_Subset
<1>4. UpperOK(h, n, c)
  BY <1>2, <1>3 DEF UpperOK
<1>5. ShipOK(h, n, FALSE, c)
  <2>1. c.action_para2 \in Ships => c.action_para2 \in Units
    BY DEF Units
  <2> QED BY <1>2, <2>1 DEF ShipOK
<1>6. KindOK(h, n, c)
  <2>1. \A x \in J : x \in H /\ x \in Units /\ x # u
    BY <1>1 DEF Holders
  <2> QED BY <1>2, <2>1 DEF KindOK
<1> QED BY <1>2, <1>4, <1>5, <1>6 DEF RecordOK

\* A unit joins a nation and works for none of its actions.
LEMMA Joins ==
  ASSUME NEW g, NEW h, NEW n, NEW c \in Records, RecordOK(g, n, TRUE, c),
         NEW u \in Units, \A x \in Units : x # u => h[x] = g[x], g[u].nation_recno # n,
         h[u].state = "dead" \/ h[u].ai_action_id # c.action_id
  PROVE  RecordOK(h, n, TRUE, c)
<1> DEFINE H == Holders(g, n, c.action_id)
           J == Holders(h, n, c.action_id)
<1>1. J = H
  <2>1. u \notin J /\ u \notin H
    BY DEF Holders
  <2>2. \A x \in Units : x # u => (x \in J <=> x \in H)
    BY DEF Holders
  <2> QED BY <2>1, <2>2 DEF Holders
<1>2. CountOK(c) /\ UpperOK(g, n, c) /\ LowerOK(g, n, c) /\ ShipOK(g, n, TRUE, c) /\ KindOK(g, n, c)
  BY DEF RecordOK
<1>3. UpperOK(h, n, c) /\ LowerOK(h, n, c)
  BY <1>1, <1>2 DEF UpperOK, LowerOK, Awaited
<1>4. ShipOK(h, n, TRUE, c)
  <2>1. c.action_mode = "travel" /\ c.action_para2 # None
          => c.action_para2 \in Units /\ c.action_para2 # u
    BY <1>2 DEF ShipOK, Units
  <2> QED BY <1>2, <2>1 DEF ShipOK
<1>5. KindOK(h, n, c)
  <2>1. \A x \in J : x \in H /\ x \in Units /\ x # u
    BY <1>1 DEF Holders
  <2> QED BY <1>2, <2>1 DEF KindOK
<1> QED BY <1>2, <1>3, <1>4, <1>5 DEF RecordOK

\* A unit reports to its action, and works for it no more unless it is the ship that now
\* waits for its passengers: the record is in order, unless all is done and it is deleted.
LEMMA Reported ==
  ASSUME NEW g, NEW h, NEW n, NEW low \in BOOLEAN, NEW a \in Records, RecordOK(g, n, low, a),
         a.action_mode = "travel" => a.processed_instance_count < a.instance_count,
         NEW u \in Holders(g, n, a.action_id), \A x \in Units : x # u => h[x] = g[x],
         h[u].nation_recno = n,
         NEW b \in Records,
         b.action_mode = a.action_mode, b.action_id = a.action_id,
         b.instance_count = a.instance_count, b.retry_count = a.retry_count,
         b.processing_instance_count = a.processing_instance_count,
         b.processed_instance_count = a.processed_instance_count + 1,
         \/ /\ a.action_mode = "travel" /\ u \in Ships
            /\ a.action_para2 = None /\ b.action_para2 = u
            /\ h[u].ai_action_id = a.action_id /\ h[u].state \notin {"dead", "aboard"}
         \/ /\ b.action_para2 = a.action_para2
            /\ h[u].state = "dead" \/ h[u].ai_action_id # a.action_id
            /\ a.action_mode = "travel" /\ a.action_para2 = u => h[u].state = "dead",
         a.action_mode \in Sailing \/ ~AllDone(b)
  PROVE  RecordOK(h, n, low, b)
<1> DEFINE k == a.action_id
           waits == /\ a.action_mode = "travel" /\ u \in Ships
                    /\ a.action_para2 = None /\ b.action_para2 = u
                    /\ h[u].ai_action_id = a.action_id /\ h[u].state \notin {"dead", "aboard"}
           H == Holders(g, n, k)
           J == Holders(h, n, k)
           p == a.processed_instance_count
           q == a.processing_instance_count
           m == a.instance_count
<1>1. CountOK(a) /\ UpperOK(g, n, a) /\ (low => LowerOK(g, n, a)) /\ ShipOK(g, n, low, a)
      /\ KindOK(g, n, a)
  BY DEF RecordOK
<1>2. /\ p \in Nat /\ q \in Nat /\ m \in Nat /\ Outstanding(a) = q - p
      /\ Outstanding(b) = q - (p + 1)
  BY CountsAre DEF Outstanding
<1>3. IsFiniteSet(H) /\ IsFiniteSet(J) /\ Cardinality(H) \in Nat /\ Cardinality(J) \in Nat
      /\ u \in H /\ H \subseteq Units /\ u \in Units /\ J \subseteq Units
  BY HoldersFinite
<1>4. \A x \in Units : x # u => (x \in J <=> x \in H)
  BY DEF Holders
<1>5. u \in J <=> waits
  BY <1>3 DEF Holders
<1>6. Cardinality(H \ {u}) = Cardinality(H) - 1 /\ Cardinality(H) >= 1
  <2>1. Cardinality(H \ {u}) = Cardinality(H) - 1 /\ IsFiniteSet(H \ {u})
    <3> HIDE DEF H
    <3> QED BY <1>3, FS_RemoveElement
  <2>2. Cardinality(H \ {u}) \in Nat
    BY <2>1, FS_CardinalityType
  <2> HIDE DEF H
  <2> QED BY <1>3, <2>1, <2>2
<1>7. p + 1 <= q
  <2>1. CASE a.action_mode = "travel"
    BY <1>1, <1>2, <2>1 DEF CountOK, Sailing
  <2>2. CASE a.action_mode # "travel"
    <3>1. Cardinality(H) <= q - p
      BY <1>1, <1>2, <2>2 DEF UpperOK
    <3> HIDE DEF H, p, q
    <3> QED BY <1>2, <1>3, <1>6, <3>1
  <2> QED BY <2>1, <2>2
<1>8. CountOK(b)
  BY <1>1, <1>2, <1>7 DEF CountOK, AllDone, Sailing
<1>9. UpperOK(h, n, b)
  <2> SUFFICES ASSUME b.action_mode # "travel" PROVE Cardinality(J) <= Outstanding(b)
    BY DEF UpperOK
  <2>1. J = H \ {u}
    BY <1>3, <1>4, <1>5
  <2>2. Cardinality(H) <= q - p
    BY <1>1, <1>2 DEF UpperOK
  <2> HIDE DEF H, J, p, q
  <2> QED BY <1>2, <1>3, <1>6, <2>1, <2>2
<1>10. ASSUME low PROVE LowerOK(h, n, b)
  <2> SUFFICES ASSUME b.action_mode \in {"worker"} \cup Sailing
               PROVE  Outstanding(b) <= Cardinality(Awaited(h, n, b))
    BY DEF LowerOK
  <2> DEFINE A == Awaited(g, n, a)
             B == Awaited(h, n, b)
  <2>1. q - p <= Cardinality(A)
    BY <1>1, <1>2, <1>10 DEF LowerOK
  <2>2. IsFiniteSet(A) /\ Cardinality(A) \in Nat /\ IsFiniteSet(B) /\ Cardinality(B) \in Nat
    BY AwaitedFinite
  <2>3. A \ {u} \subseteq B
    <3>1. A \subseteq H /\ A \subseteq Units
      BY <1>3, AwaitedFinite
    <3>2. ASSUME NEW x \in A \ {u} PROVE x \in B
      <4>1. x \in J
        BY <1>4, <3>1, <3>2
      <4>2. b.action_mode = "travel" => x # b.action_para2
        BY <3>2 DEF Awaited
      <4> QED BY <4>1, <4>2 DEF Awaited
    <3> QED BY <3>2
  <2> HIDE DEF A, B
  <2> DEFINE C == A \ {u}
  <2>4. Cardinality(C) <= Cardinality(B) /\ Cardinality(C) \in Nat
        /\ Cardinality(A) <= Cardinality(C) + 1
    <3>1. C \in SUBSET B /\ C \in SUBSET A
      BY <2>3
    <3>2. u \in A => Cardinality(C) = Cardinality(A) - 1
      BY <2>2, FS_RemoveElement
    <3>3. u \notin A => C = A
      OBVIOUS
    <3> HIDE DEF C
    <3>4. IsFiniteSet(C) /\ Cardinality(C) <= Cardinality(B)
      BY <2>2, <3>1, FS_Subset
    <3>5. Cardinality(C) \in Nat
      BY <3>4, FS_CardinalityType
    <3> QED BY <2>2, <3>2, <3>3, <3>4, <3>5
  <2> HIDE DEF C
  <2> HIDE DEF p, q
  <2>5. q - (p + 1) <= Cardinality(B)
    BY <1>2, <2>1, <2>2, <2>4
  <2> QED BY <1>2, <2>5 DEF B
<1>11. ShipOK(h, n, low, b)
  <2> SUFFICES ASSUME a.action_mode = "travel", b.action_para2 # None
               PROVE  /\ b.action_para2 \in Ships
                      /\ low => h[b.action_para2].nation_recno = n
                      /\ /\ b.processed_instance_count < b.instance_count
                         /\ h[b.action_para2].nation_recno = n
                         /\ h[b.action_para2].state # "dead"
                         => h[b.action_para2].ai_action_id = b.action_id
    BY DEF ShipOK
  <2>1. CASE waits
    BY <2>1
  <2>2. CASE ~waits
    <3> DEFINE s == a.action_para2
    <3>1. b.action_para2 = s /\ s # None
      BY <2>2
    <3>2. s \in Ships /\ s \in Units /\ (low => g[s].nation_recno = n)
      BY <1>1, <3>1 DEF ShipOK, Units
    <3>3. CASE s = u
      BY <2>2, <3>1, <3>2, <3>3
    <3>4. CASE s # u
      <4>1. h[s] = g[s]
        BY <3>2, <3>4
      <4>2. p < m /\ g[s].nation_recno = n /\ g[s].state # "dead" => g[s].ai_action_id = k
        BY <1>1, <3>1 DEF ShipOK
      <4>3. p < m
        OBVIOUS
      <4> QED BY <3>1, <3>2, <4>1, <4>2, <4>3
    <3> QED BY <3>3, <3>4
  <2> QED BY <2>1, <2>2
<1>12. KindOK(h, n, b)
  <2>1. ASSUME NEW x \in J
        PROVE  /\ x \in Generals => a.action_mode = "assign"
               /\ h[x].state = "aboard" => a.action_mode = "travel3"
    <3>1. CASE x = u
      <4>1. waits
        BY <1>5, <2>1, <3>1
      <4> QED BY <3>1, <4>1, QueueAssumption
    <3>2. CASE x # u
      <4>1. x \in H /\ h[x] = g[x]
        BY <1>3, <1>4, <2>1, <3>2
      <4> QED BY <1>1, <4>1 DEF KindOK
    <3> QED BY <3>1, <3>2
  <2> QED BY <2>1 DEF KindOK
<1> QED BY <1>8, <1>9, <1>10, <1>11, <1>12 DEF RecordOK

-----------------------------------------------------------------------------
(* What the operators of the queue do to its records.                      *)

\* The queues of the other nations are left alone.
Apart(w, v, n) == \A m \in Nations : m # n => v.ai[m] = w.ai[m]

\* The i-th record becomes b ...
Replaced(w, v, n, i, b) ==
  /\ Len(Queue(v, n)) = Len(Queue(w, n))
  /\ \A j \in 1..Len(Queue(w, n)) : Queue(v, n)[j] = IF j = i THEN b ELSE Queue(w, n)[j]
  /\ v.ai[n].cur_pos = w.ai[n].cur_pos /\ v.ai[n].last_action_id = w.ai[n].last_action_id

\* ... or is taken out.
Removed(w, v, n, i) ==
  /\ Len(Queue(v, n)) = Len(Queue(w, n)) - 1
  /\ \A j \in 1..(Len(Queue(w, n)) - 1) :
       Queue(v, n)[j] = IF j < i THEN Queue(w, n)[j] ELSE Queue(w, n)[j + 1]
  /\ v.ai[n].cur_pos = IF w.ai[n].cur_pos <= Len(Queue(w, n)) - 1
                       THEN w.ai[n].cur_pos ELSE Len(Queue(w, n)) - 1
  /\ v.ai[n].last_action_id = w.ai[n].last_action_id

\* Noted writes one record.
LEMMA NotedIs ==
  ASSUME NEW w, Sound(w), NEW n \in Nations, NEW i \in DOMAIN Queue(w, n),
         NEW b \in Records, b.action_id = Queue(w, n)[i].action_id,
         NEW v, v = Noted(w, n, i, b)
  PROVE  /\ Sound(v) /\ v.unit = w.unit /\ v.train = w.train
         /\ Apart(w, v, n) /\ Replaced(w, v, n, i, b)
<1> DEFINE s == w.ai[n].action_array
           t == [s EXCEPT ![i] = b]
           q == [w.ai[n] EXCEPT !.action_array = t]
           f == [w.ai EXCEPT ![n] = q]
<1>1. /\ s \in Seq(Records) /\ Queue(w, n) = s /\ IsWorld(w) /\ w.ai[n] \in Queues
      /\ DOMAIN s = 1..Len(s) /\ w.ai \in [Nations -> Queues]
  BY PartsOf DEF Queue, Sound, AiOK
<1>2. Sound(v) /\ v.unit = w.unit /\ v.train = w.train
  BY Rewritten
<1>3. v = [w EXCEPT !.ai = f]
  BY DEF Noted
<1>4. f[n] = q /\ \A m \in Nations : m # n => f[m] = w.ai[m]
  BY <1>1
<1>5. Len(t) = Len(s) /\ \A j \in 1..Len(s) : t[j] = IF j = i THEN b ELSE s[j]
  <2> HIDE DEF s
  <2> QED BY <1>1
<1>6. q.action_array = t /\ q.cur_pos = w.ai[n].cur_pos /\ q.last_action_id = w.ai[n].last_action_id
  <2> HIDE DEF t
  <2> QED BY <1>1 DEF Queues
<1> HIDE DEF f, q, t, s
<1>7. v.ai = f
  BY <1>1, <1>3, AiSet
<1>8. Apart(w, v, n)
  BY <1>4, <1>7 DEF Apart
<1>9. Queue(v, n) = t
  BY <1>4, <1>6, <1>7 DEF Queue
<1>10. Replaced(w, v, n, i, b)
  BY <1>1, <1>4, <1>5, <1>6, <1>7, <1>9 DEF Replaced
<1> QED BY <1>2, <1>8, <1>10

\* del_action takes out one record.
LEMMA DeletedIs ==
  ASSUME NEW w, Sound(w), NEW n \in Nations, NEW i \in DOMAIN Queue(w, n),
         NEW v, v = del_action(w, n, i)
  PROVE  /\ Sound(v) /\ v.unit = w.unit /\ v.train = w.train
         /\ Apart(w, v, n) /\ Removed(w, v, n, i)
<1> DEFINE s == w.ai[n].action_array
           t == RemoveAt(s, i)
           c == w.ai[n].cur_pos
           d == IF c <= Len(s) - 1 THEN c ELSE Len(s) - 1
           l == w.ai[n].last_action_id
           q == [action_array |-> t, cur_pos |-> d, last_action_id |-> l]
           f == [w.ai EXCEPT ![n] = q]
<1>1. /\ s \in Seq(Records) /\ Queue(w, n) = s /\ IsWorld(w) /\ w.ai[n] \in Queues
      /\ DOMAIN s = 1..Len(s) /\ w.ai \in [Nations -> Queues]
  BY PartsOf DEF Queue, Sound, AiOK
<1>2. Sound(v) /\ v.unit = w.unit /\ v.train = w.train
  BY Deleted
<1>3. v = [w EXCEPT !.ai = f]
  BY <1>1 DEF del_action
<1>4. f[n] = q /\ \A m \in Nations : m # n => f[m] = w.ai[m]
  BY <1>1
<1>5. Len(t) = Len(s) - 1
      /\ \A j \in 1..(Len(s) - 1) : t[j] = IF j < i THEN s[j] ELSE s[j + 1]
  <2>1. i \in 1..Len(s)
    BY <1>1
  <2> HIDE DEF s
  <2> QED BY <1>1, <2>1, WithoutOne
<1>6. q.action_array = t /\ q.cur_pos = d /\ q.last_action_id = l
  OBVIOUS
<1>7. d = IF w.ai[n].cur_pos <= Len(s) - 1 THEN w.ai[n].cur_pos ELSE Len(s) - 1
  OBVIOUS
<1> HIDE DEF f, q, t, s, d
<1>8. v.ai = f
  BY <1>1, <1>3, AiSet
<1>9. Apart(w, v, n)
  BY <1>4, <1>8 DEF Apart
<1>10. Queue(v, n) = t
  BY <1>4, <1>6, <1>8 DEF Queue
<1>11. Removed(w, v, n, i)
  BY <1>1, <1>4, <1>5, <1>6, <1>7, <1>8, <1>10 DEF Removed
<1> QED BY <1>2, <1>9, <1>11

\* Where nothing is done nothing changes.
LEMMA ApartChain ==
  ASSUME NEW w, NEW v, NEW x, NEW n, Apart(w, v, n), Apart(v, x, n)
  PROVE  Apart(w, x, n)
BY DEF Apart

-----------------------------------------------------------------------------
(* A nation at work.                                                       *)

\* An action is in order, and given to none but units of T.
TaskOK(g, n, T, low, a) == RecordOK(g, n, low, a) /\ a.unit_recno \in T \cup {None}

\* A travel is not over until its record is deleted.
Undone(a) == a.action_mode = "travel" => a.processed_instance_count < a.instance_count

\* Nobody works for an action that is still to come.
IdsOK(w, n) ==
  \A u \in Units : w.unit[u].nation_recno = n /\ w.unit[u].state # "dead"
    => w.unit[u].ai_action_id <= w.ai[n].last_action_id

OwnIn(w, n, T) == \A u \in Units : w.unit[u].nation_recno = n => u \in T

Works(w, n, T, low) ==
  /\ \A j \in DOMAIN Queue(w, n) : TaskOK(w.unit, n, T, low, Queue(w, n)[j])
  /\ IdsOK(w, n) /\ OwnIn(w, n, T)

\* What happens to the units of the others when n acts: those aboard its ships may be put
\* ashore, and of those in T nothing is said.
Calm(g, h, n, T) ==
  \A u \in Units :
    /\ h[u].nation_recno = g[u].nation_recno
    /\ h[u].state = "dead" <=> g[u].state = "dead"
    /\ g[u].nation_recno # n =>
         /\ h[u].state = "aboard" => g[u].state = "aboard"
         /\ \/ u \in T
            \/ h[u].ai_action_id = g[u].ai_action_id
            \/ g[u].state = "aboard" /\ h[u].ai_action_id = 0

\* Two such changes are one.
LEMMA CalmChain ==
  ASSUME NEW g, NEW h, NEW k, NEW n, NEW T, Calm(g, h, n, T), Calm(h, k, n, T)
  PROVE  Calm(g, k, n, T)
<1> SUFFICES ASSUME NEW u \in Units
             PROVE  /\ k[u].nation_recno = g[u].nation_recno
                    /\ k[u].state = "dead" <=> g[u].state = "dead"
                    /\ g[u].nation_recno # n =>
                         /\ k[u].state = "aboard" => g[u].state = "aboard"
                         /\ \/ u \in T
                            \/ k[u].ai_action_id = g[u].ai_action_id
                            \/ g[u].state = "aboard" /\ k[u].ai_action_id = 0
  BY DEF Calm
<1>1. /\ h[u].nation_recno = g[u].nation_recno
      /\ h[u].state = "dead" <=> g[u].state = "dead"
      /\ g[u].nation_recno # n =>
           /\ h[u].state = "aboard" => g[u].state = "aboard"
           /\ \/ u \in T
              \/ h[u].ai_action_id = g[u].ai_action_id
              \/ g[u].state = "aboard" /\ h[u].ai_action_id = 0
  BY DEF Calm
<1>2. /\ k[u].nation_recno = h[u].nation_recno
      /\ k[u].state = "dead" <=> h[u].state = "dead"
      /\ h[u].nation_recno # n =>
           /\ k[u].state = "aboard" => h[u].state = "aboard"
           /\ \/ u \in T
              \/ k[u].ai_action_id = h[u].ai_action_id
              \/ h[u].state = "aboard" /\ k[u].ai_action_id = 0
  BY DEF Calm
<1> QED BY <1>1, <1>2

\* Nothing happens.
LEMMA CalmSelf ==
  ASSUME NEW g, NEW n, NEW T
  PROVE  Calm(g, g, n, T)
BY DEF Calm

\* Who has no action is spared by all.
LEMMA IdleSpared ==
  ASSUME NEW g, NEW n, NEW U, \A u \in U : g[u].nation_recno = n => g[u].ai_action_id = 0,
         NEW c, c.action_id # 0
  PROVE  Spared(g, n, U, c)
BY DEF Spared, Holders

\* What an order does to the units.
LEMMA OrderedUnits ==
  ASSUME NEW w, Sound(w), NEW U, NEW id, NEW state, NEW ship, Orders(w, U, id, state, ship),
         NEW v, v = Ordered(w, U, id, state, ship)
  PROVE  \A u \in Units :
           /\ v.unit[u].nation_recno = w.unit[u].nation_recno
           /\ u \in U => v.unit[u].ai_action_id = id /\ v.unit[u].state = state
           /\ u \notin U => v.unit[u] = w.unit[u]
<1> DEFINE new(u) == [w.unit[u] EXCEPT !.ai_action_id = id, !.state = state, !.ship = ship]
           g == [u \in Units |-> IF u \in U THEN new(u) ELSE w.unit[u]]
<1>1. IsWorld(w) /\ \A u \in Units : w.unit[u] \in UnitRecords
  BY PartsOf
<1>2. v = [w EXCEPT !.unit = g]
  BY DEF Ordered
<1>3. \A u \in Units : /\ new(u).state = state /\ new(u).ai_action_id = id
                       /\ new(u).nation_recno = w.unit[u].nation_recno
  BY <1>1 DEF UnitRecords
<1> HIDE DEF new
<1>4. \A u \in Units : g[u] = IF u \in U THEN new(u) ELSE w.unit[u]
  OBVIOUS
<1> HIDE DEF g
<1>5. v.unit = g
  BY <1>1, <1>2, UnitSet
<1> QED BY <1>3, <1>4, <1>5

\* Living units of T get an order.
LEMMA OrderedGives ==
  ASSUME NEW w, Sound(w), NEW U, NEW id, NEW state, NEW ship, Orders(w, U, id, state, ship),
         state # "dead", \A u \in U : w.unit[u].state # "dead",
         state = "aboard" => \A u \in U : w.unit[u].state = "aboard",
         NEW n, NEW T, U \subseteq T,
         NEW v, v = Ordered(w, U, id, state, ship)
  PROVE  Gives(w.unit, v.unit, n, U, id) /\ Calm(w.unit, v.unit, n, T)
<1>1. \A u \in Units :
        /\ v.unit[u].nation_recno = w.unit[u].nation_recno
        /\ u \in U => v.unit[u].ai_action_id = id /\ v.unit[u].state = state
        /\ u \notin U => v.unit[u] = w.unit[u]
  BY OrderedUnits
<1>2. Gives(w.unit, v.unit, n, U, id)
  BY <1>1 DEF Gives
<1>3. Calm(w.unit, v.unit, n, T)
  <2> SUFFICES ASSUME NEW u \in Units
               PROVE  /\ v.unit[u].nation_recno = w.unit[u].nation_recno
                      /\ v.unit[u].state = "dead" <=> w.unit[u].state = "dead"
                      /\ w.unit[u].nation_recno # n =>
                           /\ v.unit[u].state = "aboard" => w.unit[u].state = "aboard"
                           /\ \/ u \in T
                              \/ v.unit[u].ai_action_id = w.unit[u].ai_action_id
                              \/ w.unit[u].state = "aboard" /\ v.unit[u].ai_action_id = 0
    BY DEF Calm
  <2>1. CASE u \in U
    BY <1>1, <2>1
  <2>2. CASE u \notin U
    <3>1. v.unit[u] = w.unit[u]
      BY <1>1, <2>2
    <3> QED BY <3>1
  <2> QED BY <2>1, <2>2
<1> QED BY <1>2, <1>3

\* Units get the id of the i-th action: all others are in order as before.
LEMMA GivenOthers ==
  ASSUME NEW w, Sound(w), NEW n \in Nations, NEW i \in DOMAIN Queue(w, n), NEW T,
         NEW low \in BOOLEAN, NEW g, NEW U, Gives(w.unit, g, n, U, Queue(w, n)[i].action_id),
         \A j \in DOMAIN Queue(w, n) : j # i =>
           TaskOK(w.unit, n, T, low, Queue(w, n)[j]) /\ Spared(w.unit, n, U, Queue(w, n)[j])
  PROVE  \A j \in DOMAIN Queue(w, n) : j # i => TaskOK(g, n, T, low, Queue(w, n)[j])
<1> SUFFICES ASSUME NEW j \in DOMAIN Queue(w, n), j # i
             PROVE  TaskOK(g, n, T, low, Queue(w, n)[j])
  OBVIOUS
<1> DEFINE c == Queue(w, n)[j]
           k == Queue(w, n)[i].action_id
<1>1. c \in Records /\ c.action_id # k
  <2> DEFINE s == Queue(w, n)
  <2>1. DOMAIN s = 1..Len(s) /\ \A x \in DOMAIN s : s[x] \in Records
    BY PartsOf
  <2>2. \A x, y \in 1..Len(s) : s[x].action_id = s[y].action_id => x = y
    BY PartsOf DEF QueueOK, Queue
  <2> HIDE DEF s
  <2>3. i \in DOMAIN s /\ j \in DOMAIN s
    BY DEF s
  <2>4. s[j] \in Records /\ s[j].action_id # s[i].action_id
    BY <2>1, <2>2, <2>3
  <2> QED BY <2>4 DEF s
<1>2. RecordOK(w.unit, n, low, c) /\ c.unit_recno \in T \cup {None} /\ Spared(w.unit, n, U, c)
  BY DEF TaskOK
<1>3. RecordOK(g, n, low, c)
  <2> HIDE DEF c, k
  <2>1. Gives(w.unit, g, n, U, k)
    BY DEF k
  <2> QED BY <1>1, <1>2, <2>1, OtherRecord
<1> QED BY <1>2, <1>3 DEF TaskOK

\* The ids that units hold are still old ones.
LEMMA GivenIds ==
  ASSUME NEW w, NEW n, IdsOK(w, n), NEW v, NEW U, NEW k, Gives(w.unit, v.unit, n, U, k),
         v.ai[n].last_action_id = w.ai[n].last_action_id,
         k <= w.ai[n].last_action_id
  PROVE  IdsOK(v, n)
BY DEF IdsOK, Gives

\* The nations of the units are the same.
LEMMA CalmOwn ==
  ASSUME NEW w, NEW v, NEW n, NEW T, OwnIn(w, n, T), Calm(w.unit, v.unit, n, T)
  PROVE  OwnIn(v, n, T)
BY DEF OwnIn, Calm

-----------------------------------------------------------------------------
(* The handlers, once more: what they do to the actions of their nation.   *)

\* All actions of n but the i-th are in order.
Ready(w, n, i, T, low) ==
  /\ \A j \in DOMAIN Queue(w, n) : j # i => TaskOK(w.unit, n, T, low, Queue(w, n)[j])
  /\ IdsOK(w, n) /\ OwnIn(w, n, T)

\* The handler of the i-th has made it b and left the others in order.
Arranged(w, v, n, i, T, low, b) ==
  /\ Sound(v) /\ Apart(w, v, n) /\ Replaced(w, v, n, i, b)
  /\ Calm(w.unit, v.unit, n, T) /\ IdsOK(v, n)
  /\ b \in Records /\ b.action_id = Queue(w, n)[i].action_id
  /\ b.retry_count = Queue(w, n)[i].retry_count
  /\ \A j \in DOMAIN Queue(w, n) : j # i => TaskOK(v.unit, n, T, low, Queue(w, n)[j])

\* process_action counts an order when its handler has returned.
Counted(b) == [b EXCEPT !.processing_instance_count = @ + 1]

\* The result of a handler: an order, which is in order once it is counted, a failure that
\* leaves the action as it was, or an action that nobody has ever worked for.
HandledOK(w, r, n, i, T, low) ==
  \E b : /\ Arranged(w, r.w, n, i, T, low, b)
         /\ \/ r.rc = "ordered" /\ TaskOK(r.w.unit, n, T, low, Counted(b)) /\ Undone(b)
            \/ /\ r.rc \in {"retry", "training", "remove"}
               /\ b.action_mode # "travel" /\ TaskOK(r.w.unit, n, T, low, b)
            \/ /\ r.rc = "remove"
               /\ b.processing_instance_count = b.processed_instance_count

\* The part of a sea travel that has just been queued, before its handler has run.
Fresh(w, n, T, a) ==
  /\ a.processing_instance_count = 0 /\ a.processed_instance_count = 0
  /\ a.retry_count > 0 /\ a.unit_recno \in T \cup {None}
  /\ Holders(w.unit, n, a.action_id) = {}
  /\ \/ /\ a.action_mode = "travel" /\ a.group # {} /\ a.instance_count = Cardinality(a.group)
        /\ \A u \in a.group : /\ w.unit[u].nation_recno = n /\ w.unit[u].ai_action_id = 0
                              /\ w.unit[u].state = "idle"
     \/ /\ a.action_mode = "travel2" /\ a.instance_count = 1
        /\ HasShip(w, n, a) =>
             \A j \in DOMAIN Queue(w, n) : Spared(w.unit, n, {a.action_para2}, Queue(w, n)[j])

\* The id of an action has been given out.
LEMMA IdIs ==
  ASSUME NEW w, Sound(w), NEW n \in Nations, NEW i \in DOMAIN Queue(w, n)
  PROVE  /\ Queue(w, n)[i] \in Records /\ Queue(w, n)[i].action_id \in Nat
         /\ Queue(w, n)[i].action_id # 0
         /\ w.ai[n].last_action_id \in Nat
         /\ Queue(w, n)[i].action_id <= w.ai[n].last_action_id
<1> DEFINE s == Queue(w, n)
<1>1. /\ DOMAIN s = 1..Len(s) /\ s[i] \in Records /\ w.ai[n].last_action_id \in Nat
  BY PartsOf DEF Queues
<1>2. \A j \in 1..Len(s) : s[j].action_id \in 1..w.ai[n].last_action_id
  BY PartsOf DEF QueueOK, Queue
<1> HIDE DEF s
<1>3. i \in 1..Len(s)
  BY <1>1 DEF s
<1>4. s[i].action_id \in 1..w.ai[n].last_action_id
  BY <1>2, <1>3
<1> QED BY <1>1, <1>4 DEF s

\* Only the order is counted.
LEMMA CountedIs ==
  ASSUME NEW b \in Records
  PROVE  /\ Counted(b) \in Records
         /\ Counted(b).processing_instance_count = b.processing_instance_count + 1
         /\ Counted(b).processed_instance_count = b.processed_instance_count
         /\ Counted(b).instance_count = b.instance_count
         /\ Counted(b).action_id = b.action_id /\ Counted(b).action_mode = b.action_mode
         /\ Counted(b).action_para2 = b.action_para2 /\ Counted(b).unit_recno = b.unit_recno
         /\ Counted(b).retry_count = b.retry_count /\ Counted(b).group = b.group
<1> DEFINE p == b.processing_instance_count + 1
<1>1. p \in Nat
  BY DEF Records
<1>2. Counted(b) = [b EXCEPT !.processing_instance_count = p]
  BY DEF Counted
<1> HIDE DEF p
<1> QED BY <1>1, <1>2 DEF Records, p

\* The queue is left alone ...
LEMMA ReplacedSelf ==
  ASSUME NEW w, NEW n, NEW i, NEW v, v.ai = w.ai
  PROVE  Apart(w, v, n) /\ Replaced(w, v, n, i, Queue(w, n)[i])
BY DEF Apart, Replaced, Queue

\* ... or the record is written after the units.
LEMMA ReplacedNoted ==
  ASSUME NEW w, NEW n \in Nations, NEW i \in DOMAIN Queue(w, n), NEW x, Sound(x), x.ai = w.ai,
         NEW b \in Records, b.action_id = Queue(w, n)[i].action_id,
         NEW v, v = Noted(x, n, i, b)
  PROVE  Sound(v) /\ v.unit = x.unit /\ Apart(w, v, n) /\ Replaced(w, v, n, i, b)
<1>1. Queue(x, n) = Queue(w, n)
  BY DEF Queue
<1>2. Sound(v) /\ v.unit = x.unit /\ Apart(x, v, n) /\ Replaced(x, v, n, i, b)
  BY <1>1, NotedIs
<1> QED BY <1>1, <1>2 DEF Apart, Replaced

\* Units get the id of the i-th action, whose record is written.
LEMMA Arranging ==
  ASSUME NEW w, Sound(w), NEW n \in Nations, NEW i \in DOMAIN Queue(w, n), NEW T,
         NEW low \in BOOLEAN, Ready(w, n, i, T, low),
         NEW v, Sound(v), NEW U, Gives(w.unit, v.unit, n, U, Queue(w, n)[i].action_id),
         \A j \in DOMAIN Queue(w, n) : j # i => Spared(w.unit, n, U, Queue(w, n)[j]),
         Calm(w.unit, v.unit, n, T), NEW b \in Records, b.action_id = Queue(w, n)[i].action_id,
         b.retry_count = Queue(w, n)[i].retry_count, Apart(w, v, n), Replaced(w, v, n, i, b)
  PROVE  Arranged(w, v, n, i, T, low, b)
<1>1. /\ \A j \in DOMAIN Queue(w, n) : j # i => TaskOK(w.unit, n, T, low, Queue(w, n)[j])
      /\ IdsOK(w, n)
  BY DEF Ready
<1>2. \A j \in DOMAIN Queue(w, n) : j # i => TaskOK(v.unit, n, T, low, Queue(w, n)[j])
  <2> DEFINE g == v.unit
  <2>1. Gives(w.unit, g, n, U, Queue(w, n)[i].action_id)
    OBVIOUS
  <2> HIDE DEF g
  <2>2. \A j \in DOMAIN Queue(w, n) : j # i => TaskOK(g, n, T, low, Queue(w, n)[j])
    BY <1>1, <2>1, GivenOthers
  <2> QED BY <2>2 DEF g
<1>3. IdsOK(v, n)
  <2>1. v.ai[n].last_action_id = w.ai[n].last_action_id
    BY DEF Replaced
  <2>2. Queue(w, n)[i].action_id <= w.ai[n].last_action_id
    BY IdIs
  <2> DEFINE k == Queue(w, n)[i].action_id
  <2>3. Gives(w.unit, v.unit, n, U, k) /\ k <= w.ai[n].last_action_id
    BY <2>2
  <2> HIDE DEF k
  <2> QED BY <1>1, <2>1, <2>3, GivenIds
<1> QED BY <1>2, <1>3 DEF Arranged

\* Nobody gets an id.
LEMMA NoneGiven ==
  ASSUME NEW g, NEW h, NEW n, NEW k, Gives(g, h, n, {}, k), NEW l
  PROVE  Gives(g, h, n, {}, l)
BY DEF Gives

\* A handler fails.
LEMMA HandlerFails ==
  ASSUME NEW w, Sound(w), NEW n \in Nations, NEW i \in DOMAIN Queue(w, n), NEW T,
         NEW low \in BOOLEAN, Ready(w, n, i, T, low),
         TaskOK(w.unit, n, T, low, Queue(w, n)[i]), Queue(w, n)[i].action_mode # "travel",
         NEW v, Sound(v), v.ai = w.ai, Gives(w.unit, v.unit, n, {}, 0), Calm(w.unit, v.unit, n, T),
         NEW rc \in {"retry", "training", "remove"}
  PROVE  HandledOK(w, Outcome(rc, v), n, i, T, low)
<1> DEFINE a == Queue(w, n)[i]
<1>1. a \in Records /\ a.action_id # 0
  BY IdIs
<1>2. Apart(w, v, n) /\ Replaced(w, v, n, i, a)
  BY ReplacedSelf
<1>3. Gives(w.unit, v.unit, n, {}, a.action_id)
  BY NoneGiven
<1>4. \A j \in DOMAIN Queue(w, n) : j # i => Spared(w.unit, n, {}, Queue(w, n)[j])
  BY DEF Spared
<1>5. Spared(w.unit, n, {}, a)
  BY DEF Spared
<1> HIDE DEF a
<1>6. Arranged(w, v, n, i, T, low, a)
  BY <1>1, <1>2, <1>3, <1>4, Arranging DEF a
<1>7. TaskOK(w.unit, n, T, low, a)
  BY DEF a
<1>8. RecordOK(v.unit, n, low, a)
  <2> DEFINE g == w.unit
             h == v.unit
  <2>1. RecordOK(g, n, low, a) /\ Gives(g, h, n, {}, 0) /\ Spared(g, n, {}, a)
    BY <1>5, <1>7 DEF TaskOK
  <2> HIDE DEF g, h
  <2>2. RecordOK(h, n, low, a)
    BY <1>1, <2>1, OtherRecord
  <2> QED BY <2>2 DEF h
<1>9. TaskOK(v.unit, n, T, low, a)
  BY <1>7, <1>8 DEF TaskOK
<1> QED BY <1>6, <1>9 DEF HandledOK, Outcome, a

\* A handler sends units: their orders are counted.
LEMMA HandlerSends ==
  ASSUME NEW w, Sound(w), NEW n \in Nations, NEW i \in DOMAIN Queue(w, n), NEW T,
         NEW low \in BOOLEAN, NEW v, NEW b, Arranged(w, v, n, i, T, low, b),
         TaskOK(v.unit, n, T, low, Counted(b)), Undone(b)
  PROVE  HandledOK(w, Outcome("ordered", v), n, i, T, low)
BY DEF HandledOK, Outcome

\* What a change of one unit does to the units.
LEMMA DoingUnits ==
  ASSUME NEW w, Sound(w), NEW u \in Units, NEW state, NEW id,
         NEW v, v = Doing(w, u, state, id)
  PROVE  /\ v.unit[u].nation_recno = w.unit[u].nation_recno
         /\ v.unit[u].ai_action_id = id /\ v.unit[u].state = state
         /\ \A x \in Units : x # u => v.unit[x] = w.unit[x]
<1> DEFINE r == w.unit[u]
           b == [r EXCEPT !.state = state, !.ai_action_id = id]
           g == [w.unit EXCEPT ![u] = b]
<1>1. IsWorld(w) /\ w.unit \in [Units -> UnitRecords] /\ r \in UnitRecords
  BY PartsOf DEF Sound, UnitsOK
<1>2. v = [w EXCEPT !.unit = g]
  BY <1>1 DEF Doing, IsWorld
<1>3. b.state = state /\ b.ai_action_id = id /\ b.nation_recno = r.nation_recno
  <2> HIDE DEF r
  <2> QED BY <1>1 DEF UnitRecords
<1> HIDE DEF b
<1>4. g[u] = b /\ \A x \in Units : x # u => g[x] = w.unit[x]
  BY <1>1
<1> HIDE DEF g
<1>5. v.unit = g
  BY <1>1, <1>2, UnitSet
<1> QED BY <1>3, <1>4, <1>5

\* Nothing is given.
LEMMA GivesSelf ==
  ASSUME NEW g, NEW n
  PROVE  Gives(g, g, n, {}, 0)
BY DEF Gives

\* Who is trained works for nobody.
LEMMA TrainedGives ==
  ASSUME NEW w, Sound(w), NEW n \in Nations, NEW id \in Nat, NEW v \in Trained(w, n, id), NEW T
  PROVE  Gives(w.unit, v.unit, n, {}, 0) /\ Calm(w.unit, v.unit, n, T)
<1>1. PICK u \in Generals :
        /\ IsInside(w, n, u)
        /\ v = [KeepsDoing(w, u, "training") EXCEPT !.train = [unit |-> u, id |-> id]]
  BY DEF Trained
<1> DEFINE x == KeepsDoing(w, u, "training")
           k == w.unit[u].ai_action_id
<1>2. u \in Units /\ w.unit[u].state = "inside" /\ w.unit[u].nation_recno = n
      /\ k \in Nat /\ k = 0
  BY <1>1, PartsOf DEF Units, IsInside, Sound, UnitsOK, Within, UnitRecords
<1>3. x = Doing(w, u, "training", k)
  BY DEF KeepsDoing
<1>4. v = [x EXCEPT !.train = [unit |-> u, id |-> id]]
  BY <1>1
<1> HIDE DEF x, k
<1>5. /\ Sound(x) /\ x.unit[u].nation_recno = n /\ x.unit[u].ai_action_id = k
      /\ x.unit[u].state = "training" /\ \A y \in Units : y # u => x.unit[y] = w.unit[y]
  <2>1. "training" \in States
    BY DEF States
  <2>2. Sound(x)
    BY <1>2, <1>3, <2>1, DoingIs
  <2> QED BY <1>2, <1>3, <2>2, DoingUnits
<1>6. v.unit = x.unit
  BY <1>4, <1>5, TrainSet DEF Sound
<1>7. \A y \in Units : /\ v.unit[y].nation_recno = w.unit[y].nation_recno
                       /\ v.unit[y].ai_action_id = w.unit[y].ai_action_id
                       /\ v.unit[y].state = w.unit[y].state \/ (y = u /\ v.unit[y].state = "training")
  BY <1>2, <1>5, <1>6 DEF k
<1>8. Gives(w.unit, v.unit, n, {}, 0)
  BY <1>2, <1>7 DEF Gives
<1>9. Calm(w.unit, v.unit, n, T)
  BY <1>2, <1>7 DEF Calm
<1> QED BY <1>8, <1>9

\* A general may be taken from any action, for it only is for an assignment.
LEMMA GeneralSpared ==
  ASSUME NEW g, NEW n, NEW low, NEW c, RecordOK(g, n, low, c), NEW u \in Generals
  PROVE  Spared(g, n, {u}, c)
BY DEF RecordOK, KindOK, Spared

\* The only one who works for an action
LEMMA OneHolder ==
  ASSUME NEW g, NEW h, NEW n, NEW k, NEW u, Gives(g, h, n, {u}, k), Holders(g, n, k) = {}
  PROVE  Holders(h, n, k) \subseteq {u} /\ Cardinality(Holders(h, n, k)) <= 1
<1>1. Holders(h, n, k) \subseteq {u}
  BY SameHolders
<1>2. IsFiniteSet({u}) /\ Cardinality({u}) = 1
  BY FS_Singleton
<1> QED BY <1>1, <1>2, FS_Subset

\* An action that has not been ordered yet has nobody who works for it.
LEMMA NoneWork ==
  ASSUME NEW g, NEW n, NEW low, NEW a \in Records, RecordOK(g, n, low, a),
         a.action_mode \in {"assign", "travel3"},
         a.processing_instance_count # a.instance_count
  PROVE  /\ a.processing_instance_count = 0 /\ a.processed_instance_count = 0
         /\ Holders(g, n, a.action_id) = {} /\ (a.action_mode = "assign" => a.instance_count = 1)
<1>1. CountOK(a) /\ UpperOK(g, n, a)
  BY DEF RecordOK
<1>2. /\ a.processed_instance_count \in Nat /\ a.processing_instance_count \in Nat
      /\ a.instance_count \in Nat
      /\ Outstanding(a) = a.processing_instance_count - a.processed_instance_count
  BY CountsAre
<1>3. a.processing_instance_count = 0 /\ a.processed_instance_count = 0
      /\ (a.action_mode = "assign" => a.instance_count = 1)
  BY <1>1, <1>2 DEF CountOK
<1>4. Cardinality(Holders(g, n, a.action_id)) <= 0
  BY <1>1, <1>2, <1>3 DEF UpperOK
<1>5. Holders(g, n, a.action_id) = {}
  BY <1>4, HoldersFinite, FS_EmptySet
<1> QED BY <1>3, <1>5

\* A general is assigned.
LEMMA AssignWorks ==
  ASSUME NEW w, Sound(w), NEW n \in Nations, NEW i \in DOMAIN Queue(w, n), NEW T,
         NEW low \in BOOLEAN, Ready(w, n, i, T, low),
         TaskOK(w.unit, n, T, low, Queue(w, n)[i]), Queue(w, n)[i].action_mode = "assign",
         Queue(w, n)[i].processing_instance_count # Queue(w, n)[i].instance_count,
         NEW r \in ai_assign(w, n, i)
  PROVE  HandledOK(w, r, n, i, T, low)
<1> DEFINE a == Queue(w, n)[i]
           Sent(u) ==
             Noted(Ordered(w, {u}, a.action_id, "ordered", None), n, i, [a EXCEPT !.unit_recno = u])
<1>1. a \in Records /\ a.action_id \in Nat /\ a.action_id # 0
  BY IdIs
<1>2. \/ r \in {Outcome("remove", w), Outcome("retry", w)}
      \/ \E u \in SkilledUnits(w, n, a) : r = Outcome("ordered", Sent(u))
      \/ \E v \in Trained(w, n, a.action_id) : r = Outcome("retry", v)
  BY DEF ai_assign
<1>3. CASE r \in {Outcome("remove", w), Outcome("retry", w)}
  <2>1. Gives(w.unit, w.unit, n, {}, 0) /\ Calm(w.unit, w.unit, n, T)
    BY GivesSelf, CalmSelf
  <2> QED BY <1>3, <2>1, HandlerFails
<1>4. CASE \E v \in Trained(w, n, a.action_id) : r = Outcome("retry", v)
  <2>1. PICK v \in Trained(w, n, a.action_id) : r = Outcome("retry", v)
    BY <1>4
  <2>2. Sound(v) /\ v.ai = w.ai
    BY <1>1, <2>1, TrainedIs
  <2>3. Gives(w.unit, v.unit, n, {}, 0) /\ Calm(w.unit, v.unit, n, T)
    BY <1>1, <2>1, TrainedGives
  <2> QED BY <2>1, <2>2, <2>3, HandlerFails
<1>5. ASSUME NEW u \in SkilledUnits(w, n, a), r = Outcome("ordered", Sent(u))
      PROVE  HandledOK(w, r, n, i, T, low)
  <2>1. RecordOK(w.unit, n, low, a) /\ a.unit_recno \in T \cup {None}
    BY DEF TaskOK
  <2>2. /\ u \in Generals /\ u \in Units /\ u \in T
        /\ w.unit[u].state # "training" /\ w.unit[u].state # "dead"
    BY <1>1, <1>5, <2>1, QueueAssumption
       DEF SkilledUnits, Records, is_visible, IsFree, IsInside, Units, Ready, OwnIn
  <2> DEFINE x == Ordered(w, {u}, a.action_id, "ordered", None)
             b == [a EXCEPT !.unit_recno = u]
             v == Noted(x, n, i, b)
  <2>3. Orders(w, {u}, a.action_id, "ordered", None)
    BY <1>1, <2>2 DEF Orders, States
  <2>4. Sound(x) /\ x.ai = w.ai
    BY <2>3, OrderedIs
  <2>5. Gives(w.unit, x.unit, n, {u}, a.action_id) /\ Calm(w.unit, x.unit, n, T)
    BY <2>2, <2>3, OrderedGives
  <2>6. /\ b \in Records /\ b.action_id = a.action_id /\ b.retry_count = a.retry_count
        /\ b.unit_recno = u /\ b.action_mode = a.action_mode
        /\ b.instance_count = a.instance_count
        /\ b.processing_instance_count = a.processing_instance_count
        /\ b.processed_instance_count = a.processed_instance_count
    <3> HIDE DEF a
    <3> QED BY <1>1, <2>2 DEF Records
  <2> HIDE DEF x, b
  <2>7. Sound(v) /\ v.unit = x.unit /\ Apart(w, v, n) /\ Replaced(w, v, n, i, b)
    BY <2>4, <2>6, ReplacedNoted
  <2> HIDE DEF v
  <2>8. \A j \in DOMAIN Queue(w, n) : j # i => Spared(w.unit, n, {u}, Queue(w, n)[j])
    BY <2>2, GeneralSpared DEF Ready, TaskOK
  <2>9. Arranged(w, v, n, i, T, low, b)
    BY <2>5, <2>6, <2>7, <2>8, Arranging
  <2> DEFINE c == Counted(b)
  <2>10. /\ c \in Records /\ c.processing_instance_count = b.processing_instance_count + 1
         /\ c.processed_instance_count = b.processed_instance_count
         /\ c.instance_count = b.instance_count /\ c.action_id = b.action_id
         /\ c.action_mode = b.action_mode /\ c.unit_recno = b.unit_recno
    BY <2>6, CountedIs
  <2> HIDE DEF c
  <2>11. /\ a.processing_instance_count = 0 /\ a.processed_instance_count = 0
         /\ Holders(w.unit, n, a.action_id) = {} /\ a.instance_count = 1
    BY <1>1, <2>1, NoneWork
  <2>12. /\ c.processing_instance_count = 1 /\ c.processed_instance_count = 0
         /\ c.instance_count = 1 /\ c.action_mode = "assign" /\ c.action_id = a.action_id
    BY <2>6, <2>10, <2>11
  <2>13. CountOK(c)
    BY <2>12 DEF CountOK, Sailing
  <2>14. Holders(x.unit, n, c.action_id) \subseteq {u}
         /\ Cardinality(Holders(x.unit, n, c.action_id)) <= 1
    <3> DEFINE k == a.action_id
               g == w.unit
               h == x.unit
    <3>1. Gives(g, h, n, {u}, k) /\ Holders(g, n, k) = {} /\ c.action_id = k
      BY <2>5, <2>11, <2>12
    <3> HIDE DEF k, g, h
    <3>2. Holders(h, n, k) \subseteq {u} /\ Cardinality(Holders(h, n, k)) <= 1
      BY <3>1, OneHolder
    <3> QED BY <3>1, <3>2 DEF h
  <2>15. UpperOK(x.unit, n, c)
    BY <2>12, <2>14 DEF UpperOK, Outstanding
  <2>16. LowerOK(x.unit, n, c) /\ ShipOK(x.unit, n, low, c)
    BY <2>12 DEF LowerOK, ShipOK, Sailing
  <2>17. KindOK(x.unit, n, c)
    <3>1. \A y \in {u} : x.unit[y].state = "ordered"
      BY <2>3, OrderedIs DEF x
    <3> QED BY <2>12, <2>14, <3>1 DEF KindOK
  <2>18. TaskOK(v.unit, n, T, low, c)
    BY <2>2, <2>6, <2>7, <2>10, <2>13, <2>15, <2>16, <2>17 DEF TaskOK, RecordOK
  <2>19. Undone(b)
    BY <2>6 DEF Undone
  <2>20. r = Outcome("ordered", v)
    BY <1>5 DEF v, x, b
  <2> QED BY <2>9, <2>18, <2>19, <2>20, HandlerSends DEF c
<1> QED BY <1>2, <1>3, <1>4, <1>5

\* Who does not work for an action is added to those who do.
LEMMA AddedHolder ==
  ASSUME NEW g, NEW h, NEW n, NEW k, NEW u, Gives(g, h, n, {u}, k),
         u \notin Holders(g, n, k), u \in Holders(h, n, k)
  PROVE  /\ Holders(h, n, k) = Holders(g, n, k) \cup {u}
         /\ Cardinality(Holders(h, n, k)) = Cardinality(Holders(g, n, k)) + 1
<1> DEFINE H == Holders(g, n, k)
           N == {x \in Units \cap {u} : g[x].nation_recno = n /\ g[x].state # "dead"}
<1>1. Holders(h, n, k) = H \cup N
  BY SameHolders
<1>2. IsFiniteSet(H)
  BY HoldersFinite
<1>3. N \subseteq {u}
  OBVIOUS
<1> HIDE DEF H, N
<1>4. u \notin H /\ u \in N
  BY <1>1 DEF H
<1>5. Holders(h, n, k) = H \cup {u}
  BY <1>1, <1>3, <1>4
<1>6. Cardinality(H \cup {u}) = Cardinality(H) + 1
  BY <1>2, <1>4, FS_AddElement
<1> QED BY <1>5, <1>6 DEF H

\* A recruit is sent or trained.
LEMMA RecruitsWork ==
  ASSUME NEW w, Sound(w), NEW n \in Nations, NEW i \in DOMAIN Queue(w, n), NEW T,
         NEW low \in BOOLEAN, Ready(w, n, i, T, low),
         TaskOK(w.unit, n, T, low, Queue(w, n)[i]), Queue(w, n)[i].action_mode = "worker",
         Queue(w, n)[i].processing_instance_count # Queue(w, n)[i].instance_count,
         NEW r \in Recruits(w, n, i)
  PROVE  HandledOK(w, r, n, i, T, low)
<1> DEFINE a == Queue(w, n)[i]
<1>1. a \in Records /\ a.action_id \in Nat /\ a.action_id # 0
  BY IdIs
<1>2. \/ r = Outcome("retry", w)
      \/ \E u \in Troops : /\ IsInside(w, n, u)
                           /\ r = Outcome("ordered", Ordered(w, {u}, a.action_id, "ordered", None))
      \/ \E v \in Trained(w, n, a.action_id) : r = Outcome("training", v)
  BY DEF Recruits
<1>3. CASE r = Outcome("retry", w)
  <2>1. Gives(w.unit, w.unit, n, {}, 0) /\ Calm(w.unit, w.unit, n, T)
    BY GivesSelf, CalmSelf
  <2> QED BY <1>3, <2>1, HandlerFails
<1>4. ASSUME NEW u \in Troops, IsInside(w, n, u),
             r = Outcome("ordered", Ordered(w, {u}, a.action_id, "ordered", None))
      PROVE  HandledOK(w, r, n, i, T, low)
  <2>1. RecordOK(w.unit, n, low, a) /\ a.unit_recno \in T \cup {None}
    BY DEF TaskOK
  <2>2. /\ u \in Units /\ u \notin Generals /\ u \in T /\ w.unit[u].nation_recno = n
        /\ w.unit[u].state # "dead" /\ w.unit[u].ai_action_id = 0
    BY <1>4, QueueAssumption DEF IsInside, Units, Ready, OwnIn, Sound, UnitsOK, Within
  <2> DEFINE v == Ordered(w, {u}, a.action_id, "ordered", None)
             c == Counted(a)
  <2>3. Orders(w, {u}, a.action_id, "ordered", None)
    BY <1>1, <2>2 DEF Orders, States
  <2>4. Sound(v) /\ v.ai = w.ai /\ v.unit[u].state = "ordered"
    BY <2>3, OrderedIs
  <2>5. Gives(w.unit, v.unit, n, {u}, a.action_id) /\ Calm(w.unit, v.unit, n, T)
    BY <2>2, <2>3, OrderedGives
  <2> HIDE DEF v
  <2>6. Apart(w, v, n) /\ Replaced(w, v, n, i, a)
    BY <2>4, ReplacedSelf
  <2>7. \A j \in DOMAIN Queue(w, n) : j # i => Spared(w.unit, n, {u}, Queue(w, n)[j])
    BY <2>2, IdIs, IdleSpared
  <2>8. Arranged(w, v, n, i, T, low, a)
    BY <1>1, <2>4, <2>5, <2>6, <2>7, Arranging
  <2>9. /\ c \in Records /\ c.processing_instance_count = a.processing_instance_count + 1
        /\ c.processed_instance_count = a.processed_instance_count
        /\ c.instance_count = a.instance_count /\ c.action_id = a.action_id
        /\ c.action_mode = "worker" /\ c.unit_recno = a.unit_recno
    BY <1>1, CountedIs
  <2> HIDE DEF c
  <2> DEFINE H == Holders(w.unit, n, a.action_id)
             J == Holders(v.unit, n, a.action_id)
  <2>10. J = H \cup {u} /\ Cardinality(J) = Cardinality(H) + 1 /\ Cardinality(H) \in Nat
    <3> DEFINE k == a.action_id
               g == w.unit
               h == v.unit
    <3>1. Gives(g, h, n, {u}, k) /\ u \notin Holders(g, n, k) /\ u \in Holders(h, n, k)
      <4>1. v.unit[u].nation_recno = n /\ v.unit[u].ai_action_id = k /\ v.unit[u].state # "dead"
        BY <2>2, <2>4, <2>5 DEF Gives
      <4> QED BY <1>1, <2>2, <2>5, <4>1 DEF Holders
    <3> HIDE DEF k, g, h
    <3>2. /\ Holders(h, n, k) = Holders(g, n, k) \cup {u} /\ Cardinality(Holders(g, n, k)) \in Nat
          /\ Cardinality(Holders(h, n, k)) = Cardinality(Holders(g, n, k)) + 1
      <4>1. /\ Holders(h, n, k) = Holders(g, n, k) \cup {u}
            /\ Cardinality(Holders(h, n, k)) = Cardinality(Holders(g, n, k)) + 1
        BY <3>1, AddedHolder
      <4>2. Cardinality(Holders(g, n, k)) \in Nat
        BY HoldersFinite
      <4> QED BY <4>1, <4>2
    <3> QED BY <3>2 DEF g, h, k
  <2>11. /\ a.processed_instance_count \in Nat /\ a.processing_instance_count \in Nat
         /\ a.instance_count \in Nat
         /\ Outstanding(a) = a.processing_instance_count - a.processed_instance_count
         /\ Outstanding(c) = Outstanding(a) + 1 /\ Outstanding(a) \in Int
    BY <1>1, <2>9, CountsAre DEF Outstanding
  <2>12. /\ CountOK(a) /\ UpperOK(w.unit, n, a) /\ (low => LowerOK(w.unit, n, a))
         /\ KindOK(w.unit, n, a)
    BY <2>1 DEF RecordOK
  <2>13. CountOK(c)
    BY <2>9, <2>11, <2>12 DEF CountOK, Sailing
  <2>14. Cardinality(H) <= Outstanding(a)
    BY <2>12 DEF UpperOK
  <2>15. UpperOK(v.unit, n, c)
    <3>1. Cardinality(J) <= Outstanding(c)
      BY <2>10, <2>11, <2>14
    <3> QED BY <2>9, <3>1 DEF UpperOK
  <2>16. low => LowerOK(v.unit, n, c)
    <3>1. Awaited(w.unit, n, a) = H /\ Awaited(v.unit, n, c) = J
      BY <2>9 DEF Awaited
    <3>2. low => Outstanding(a) <= Cardinality(H)
      BY <2>12, <3>1 DEF LowerOK
    <3>3. low => Outstanding(c) <= Cardinality(J)
      BY <2>10, <2>11, <3>2
    <3> QED BY <3>1, <3>3 DEF LowerOK
  <2>17. ShipOK(v.unit, n, low, c)
    BY <2>9 DEF ShipOK
  <2>18. KindOK(v.unit, n, c)
    <3>1. \A y \in Units : y # u => v.unit[y] = w.unit[y]
      BY <2>3, OrderedIs DEF v
    <3>2. H \subseteq Units
      BY HoldersFinite
    <3> HIDE DEF H, J
    <3>3. ASSUME NEW y \in J
          PROVE  /\ y \in Generals => c.action_mode = "assign"
                 /\ v.unit[y].state = "aboard" => c.action_mode = "travel3"
      <4>1. CASE y = u
        BY <2>2, <2>4, <4>1
      <4>2. CASE y # u
        <5>1. y \in H /\ v.unit[y] = w.unit[y]
          BY <2>10, <3>1, <3>2, <4>2
        <5> QED BY <2>9, <2>12, <5>1 DEF KindOK, H
      <4> QED BY <4>1, <4>2
    <3> QED BY <2>9, <3>3 DEF KindOK, J
  <2>19. TaskOK(v.unit, n, T, low, c)
    BY <2>1, <2>9, <2>13, <2>15, <2>16, <2>17, <2>18 DEF TaskOK, RecordOK
  <2>20. Undone(a)
    BY DEF Undone
  <2>21. r = Outcome("ordered", v)
    BY <1>4 DEF v
  <2> QED BY <2>8, <2>19, <2>20, <2>21, HandlerSends DEF c
<1>5. ASSUME NEW v \in Trained(w, n, a.action_id), r = Outcome("training", v)
      PROVE  HandledOK(w, r, n, i, T, low)
  <2>1. Sound(v) /\ v.ai = w.ai
    BY <1>1, TrainedIs
  <2>2. Gives(w.unit, v.unit, n, {}, 0) /\ Calm(w.unit, v.unit, n, T)
    BY <1>1, TrainedGives
  <2> QED BY <1>5, <2>1, <2>2, HandlerFails
<1> QED BY <1>2, <1>3, <1>4, <1>5

\* Replacing a record, and then it again, or removing it
LEMMA ReplacedThen ==
  ASSUME NEW w, Sound(w), NEW n \in Nations, NEW v, NEW x, NEW i \in DOMAIN Queue(w, n),
         NEW b, Replaced(w, v, n, i, b)
  PROVE  /\ \A c : Replaced(v, x, n, i, c) => Replaced(w, x, n, i, c)
         /\ Removed(v, x, n, i) => Removed(w, x, n, i)
<1> DEFINE s == Queue(w, n)
           t == Queue(v, n)
           u == Queue(x, n)
<1>1. DOMAIN s = 1..Len(s) /\ Len(s) \in Nat
  BY PartsOf
<1>2. /\ Len(t) = Len(s) /\ \A j \in 1..Len(s) : t[j] = IF j = i THEN b ELSE s[j]
      /\ v.ai[n].cur_pos = w.ai[n].cur_pos /\ v.ai[n].last_action_id = w.ai[n].last_action_id
  BY DEF Replaced
<1>3. ASSUME NEW c, Replaced(v, x, n, i, c) PROVE Replaced(w, x, n, i, c)
  <2>1. /\ Len(u) = Len(t) /\ \A j \in 1..Len(t) : u[j] = IF j = i THEN c ELSE t[j]
        /\ x.ai[n].cur_pos = v.ai[n].cur_pos /\ x.ai[n].last_action_id = v.ai[n].last_action_id
    BY <1>3 DEF Replaced
  <2> HIDE DEF s, t, u
  <2>2. /\ Len(u) = Len(s) /\ \A j \in 1..Len(s) : u[j] = IF j = i THEN c ELSE s[j]
        /\ x.ai[n].cur_pos = w.ai[n].cur_pos /\ x.ai[n].last_action_id = w.ai[n].last_action_id
    BY <1>2, <2>1
  <2> QED BY <2>2 DEF Replaced, s, u
<1>4. ASSUME Removed(v, x, n, i) PROVE Removed(w, x, n, i)
  <2>1. /\ Len(u) = Len(t) - 1
        /\ \A j \in 1..(Len(t) - 1) : u[j] = IF j < i THEN t[j] ELSE t[j + 1]
        /\ x.ai[n].cur_pos = IF v.ai[n].cur_pos <= Len(t) - 1 THEN v.ai[n].cur_pos ELSE Len(t) - 1
        /\ x.ai[n].last_action_id = v.ai[n].last_action_id
    BY <1>4 DEF Removed
  <2>2. i \in 1..Len(s)
    BY <1>1
  <2> HIDE DEF s, t, u
  <2>3. ASSUME NEW j \in 1..(Len(s) - 1)
        PROVE  u[j] = IF j < i THEN s[j] ELSE s[j + 1]
    <3>1. j \in 1..Len(s) /\ j + 1 \in 1..Len(s) /\ j \in 1..(Len(t) - 1)
      BY <1>1, <1>2
    <3>2. j < i => j # i
      BY <2>2, <3>1
    <3>3. ~(j < i) => j + 1 # i
      BY <2>2, <3>1
    <3> QED BY <1>2, <2>1, <3>1, <3>2, <3>3
  <2>4. Len(u) = Len(s) - 1
    BY <1>2, <2>1
  <2>5. /\ x.ai[n].cur_pos = IF w.ai[n].cur_pos <= Len(s) - 1 THEN w.ai[n].cur_pos ELSE Len(s) - 1
        /\ x.ai[n].last_action_id = w.ai[n].last_action_id
    BY <1>2, <2>1
  <2> QED BY <2>3, <2>4, <2>5 DEF Removed, s, u
<1> QED BY <1>3, <1>4

\* An action that asks for fewer is in order, and so are the others.
LEMMA AskingWorks ==
  ASSUME NEW w, Sound(w), NEW n \in Nations, NEW i \in DOMAIN Queue(w, n), NEW T,
         NEW low \in BOOLEAN, Ready(w, n, i, T, low),
         TaskOK(w.unit, n, T, low, Queue(w, n)[i]), Queue(w, n)[i].action_mode = "worker",
         Queue(w, n)[i].processing_instance_count # Queue(w, n)[i].instance_count,
         NEW k \in Needed(Queue(w, n)[i]), NEW v, v = Asking(w, n, i, k)
  PROVE  /\ Sound(v) /\ v.unit = w.unit /\ Apart(w, v, n) /\ i \in DOMAIN Queue(v, n)
         /\ Ready(v, n, i, T, low) /\ Replaced(w, v, n, i, Queue(v, n)[i])
         /\ Queue(v, n)[i].action_id = Queue(w, n)[i].action_id
         /\ Queue(v, n)[i].retry_count = Queue(w, n)[i].retry_count
         /\ TaskOK(v.unit, n, T, low, Queue(v, n)[i]) /\ Queue(v, n)[i].action_mode = "worker"
         /\ Queue(v, n)[i].processing_instance_count # Queue(v, n)[i].instance_count
         /\ \A j \in DOMAIN Queue(w, n) : j # i => Queue(v, n)[j] = Queue(w, n)[j]
<1> DEFINE a == Queue(w, n)[i]
           b == [a EXCEPT !.instance_count = k]
<1>1. a \in Records
  BY IdIs
<1>2. /\ b \in Records /\ b.action_id = a.action_id /\ b.retry_count = a.retry_count
      /\ b.instance_count = k /\ b.action_mode = a.action_mode
      /\ b.unit_recno = a.unit_recno /\ b.action_para2 = a.action_para2
      /\ b.processing_instance_count = a.processing_instance_count
      /\ b.processed_instance_count = a.processed_instance_count
      /\ k > a.processing_instance_count /\ k <= a.instance_count /\ k \in Nat
  BY <1>1, FewerAsked
<1> HIDE DEF b
<1>3. Sound(v) /\ v.unit = w.unit /\ Apart(w, v, n) /\ Replaced(w, v, n, i, b)
  <2>1. v = Noted(w, n, i, b)
    BY DEF Asking, b
  <2> QED BY <1>2, <2>1, NotedIs
<1>4. /\ DOMAIN Queue(w, n) = 1..Len(Queue(w, n)) /\ DOMAIN Queue(v, n) = DOMAIN Queue(w, n)
      /\ Queue(v, n)[i] = b
      /\ \A j \in DOMAIN Queue(w, n) : j # i => Queue(v, n)[j] = Queue(w, n)[j]
  BY <1>3, PartsOf DEF Replaced
<1>5. Ready(v, n, i, T, low)
  BY <1>3, <1>4 DEF Ready, IdsOK, OwnIn, Replaced
<1>6. RecordOK(w.unit, n, low, a) /\ a.unit_recno \in T \cup {None}
  BY DEF TaskOK
<1>7. CountOK(b)
  <2>1. CountOK(a) /\ a.action_mode = "worker" /\ a.processing_instance_count # a.instance_count
    BY <1>6 DEF RecordOK
  <2> HIDE DEF a
  <2> QED BY <1>1, <1>2, <2>1 DEF CountOK, Records, Sailing
<1>8. RecordOK(w.unit, n, low, b)
  <2>1. Outstanding(b) = Outstanding(a)
    BY <1>2 DEF Outstanding
  <2> QED BY <1>2, <1>6, <1>7, <2>1 DEF RecordOK, UpperOK, LowerOK, Awaited, ShipOK, KindOK
<1>9. TaskOK(v.unit, n, T, low, b)
  BY <1>2, <1>3, <1>6, <1>8 DEF TaskOK
<1>10. b.processing_instance_count # b.instance_count
  BY <1>1, <1>2 DEF Records
<1> QED BY <1>2, <1>3, <1>4, <1>5, <1>9, <1>10

\* What is needed is noted, and then people are recruited.
LEMMA WorkerWorks ==
  ASSUME NEW w, Sound(w), NEW n \in Nations, NEW i \in DOMAIN Queue(w, n), NEW T,
         NEW low \in BOOLEAN, Ready(w, n, i, T, low),
         TaskOK(w.unit, n, T, low, Queue(w, n)[i]), Queue(w, n)[i].action_mode = "worker",
         Queue(w, n)[i].processing_instance_count # Queue(w, n)[i].instance_count,
         NEW r \in ai_assign_worker(w, n, i)
  PROVE  HandledOK(w, r, n, i, T, low)
<1> DEFINE a == Queue(w, n)[i]
<1>1. \/ r \in {Outcome("remove", w), Outcome("retry", w)}
      \/ \E k \in Needed(a) : r \in Recruits(Asking(w, n, i, k), n, i)
  BY DEF ai_assign_worker, Asking
<1>2. CASE r \in {Outcome("remove", w), Outcome("retry", w)}
  <2>1. Gives(w.unit, w.unit, n, {}, 0) /\ Calm(w.unit, w.unit, n, T)
    BY GivesSelf, CalmSelf
  <2> QED BY <1>2, <2>1, HandlerFails
<1>3. ASSUME NEW k \in Needed(a), NEW v, v = Asking(w, n, i, k), r \in Recruits(v, n, i)
      PROVE  HandledOK(w, r, n, i, T, low)
  <2>1. /\ Sound(v) /\ v.unit = w.unit /\ Apart(w, v, n) /\ i \in DOMAIN Queue(v, n)
        /\ Ready(v, n, i, T, low) /\ Replaced(w, v, n, i, Queue(v, n)[i])
        /\ Queue(v, n)[i].action_id = a.action_id /\ Queue(v, n)[i].retry_count = a.retry_count
        /\ TaskOK(v.unit, n, T, low, Queue(v, n)[i]) /\ Queue(v, n)[i].action_mode = "worker"
        /\ Queue(v, n)[i].processing_instance_count # Queue(v, n)[i].instance_count
        /\ \A j \in DOMAIN Queue(w, n) : j # i => Queue(v, n)[j] = Queue(w, n)[j]
    BY <1>3, AskingWorks
  <2>2. HandledOK(v, r, n, i, T, low)
    BY <1>3, <2>1, RecruitsWork
  <2>3. ASSUME NEW b, Arranged(v, r.w, n, i, T, low, b) PROVE Arranged(w, r.w, n, i, T, low, b)
    <3>1. /\ Sound(r.w) /\ Apart(v, r.w, n) /\ Replaced(v, r.w, n, i, b)
          /\ Calm(v.unit, r.w.unit, n, T) /\ IdsOK(r.w, n)
          /\ b \in Records /\ b.action_id = a.action_id /\ b.retry_count = a.retry_count
          /\ \A j \in DOMAIN Queue(v, n) : j # i => TaskOK(r.w.unit, n, T, low, Queue(v, n)[j])
      BY <2>1, <2>3 DEF Arranged
    <3>2. Apart(w, r.w, n) /\ Replaced(w, r.w, n, i, b) /\ Calm(w.unit, r.w.unit, n, T)
      BY <2>1, <3>1, ReplacedThen, ApartChain
    <3>3. DOMAIN Queue(v, n) = DOMAIN Queue(w, n)
      BY <2>1, PartsOf DEF Replaced
    <3> QED BY <2>1, <3>1, <3>2, <3>3 DEF Arranged
  <2> QED BY <2>2, <2>3 DEF HandledOK
<1> QED BY <1>1, <1>2, <1>3

\* A part of a sea travel that cannot even be begun
LEMMA FreshFails ==
  ASSUME NEW w, Sound(w), NEW n \in Nations, NEW i \in DOMAIN Queue(w, n), NEW T,
         NEW low \in BOOLEAN, Ready(w, n, i, T, low), Fresh(w, n, T, Queue(w, n)[i])
  PROVE  HandledOK(w, Outcome("remove", w), n, i, T, low)
<1> DEFINE a == Queue(w, n)[i]
<1>1. a \in Records /\ Apart(w, w, n) /\ Replaced(w, w, n, i, a)
  BY IdIs, ReplacedSelf
<1>2. Calm(w.unit, w.unit, n, T)
  BY CalmSelf
<1>3. Arranged(w, w, n, i, T, low, a)
  BY <1>1, <1>2 DEF Arranged, Ready
<1>4. a.processing_instance_count = a.processed_instance_count
  BY DEF Fresh
<1> QED BY <1>3, <1>4 DEF HandledOK, Outcome

\* Several orders: the units of n get the id, the others aboard its ships may be put ashore.
LEMMA UnitsGive ==
  ASSUME NEW g, NEW h, NEW n, NEW U, NEW k, NEW T, U \subseteq T,
         \A u \in Units : h[u].nation_recno = g[u].nation_recno,
         \A u \in Units : u \in U =>
           /\ h[u].ai_action_id = k /\ g[u].state # "dead" /\ h[u].state # "dead"
           /\ h[u].state = "aboard" => g[u].state = "aboard",
         \A u \in Units : u \notin U =>
           \/ h[u] = g[u]
           \/ /\ g[u].state = "aboard" /\ h[u].state = "idle"
              /\ h[u].ai_action_id = g[u].ai_action_id
  PROVE  Gives(g, h, n, U, k) /\ Calm(g, h, n, T)
<1>1. Gives(g, h, n, U, k)
  <2> SUFFICES ASSUME NEW u \in Units
               PROVE  /\ h[u].nation_recno = n <=> g[u].nation_recno = n
                      /\ g[u].nation_recno = n =>
                           /\ h[u].state = "dead" <=> g[u].state = "dead"
                           /\ g[u].state # "dead"
                                => h[u].ai_action_id = IF u \in U THEN k ELSE g[u].ai_action_id
                           /\ h[u].state = "aboard" => g[u].state = "aboard" \/ u \in U
    BY DEF Gives
  <2>1. CASE u \in U
    BY <2>1
  <2>2. CASE u \notin U
    BY <2>2
  <2> QED BY <2>1, <2>2
<1>2. Calm(g, h, n, T)
  <2> SUFFICES ASSUME NEW u \in Units
               PROVE  /\ h[u].nation_recno = g[u].nation_recno
                      /\ h[u].state = "dead" <=> g[u].state = "dead"
                      /\ g[u].nation_recno # n =>
                           /\ h[u].state = "aboard" => g[u].state = "aboard"
                           /\ \/ u \in T
                              \/ h[u].ai_action_id = g[u].ai_action_id
                              \/ g[u].state = "aboard" /\ h[u].ai_action_id = 0
    BY DEF Calm
  <2>1. CASE u \in U
    BY <2>1
  <2>2. CASE u \notin U
    BY <2>2
  <2> QED BY <2>1, <2>2
<1> QED BY <1>1, <1>2

\* People board a ship: a part of the travel that waits for them and for the ship.
LEMMA TravelWorks ==
  ASSUME NEW w, Sound(w), NEW n \in Nations, NEW i \in DOMAIN Queue(w, n), NEW T,
         NEW low \in BOOLEAN, Ready(w, n, i, T, low),
         Fresh(w, n, T, Queue(w, n)[i]), Queue(w, n)[i].action_mode = "travel",
         NEW r \in ai_sea_travel(w, n, i)
  PROVE  HandledOK(w, r, n, i, T, low)
<1> DEFINE a == Queue(w, n)[i]
           aboard(s) == Ordered(w, a.group, a.action_id, "boarding", s)
           sent(s) == Ordered(aboard(s), {s}, a.action_id, "ordered", None)
           b == [a EXCEPT !.instance_count = @ + 1,
                          !.processing_instance_count = a.instance_count,
                          !.action_para2 = None]
<1>1. a \in Records /\ a.action_id \in Nat /\ a.action_id # 0 /\ a.group \in SUBSET Troops
  BY IdIs DEF Records
<1>2. \/ r = Outcome("remove", w)
      \/ \E s \in Ships : IsFree(w, n, s) /\ r = Outcome("ordered", Noted(sent(s), n, i, b))
  BY DEF ai_sea_travel
<1>3. CASE r = Outcome("remove", w)
  BY <1>3, FreshFails
<1>4. ASSUME NEW s \in Ships, IsFree(w, n, s), r = Outcome("ordered", Noted(sent(s), n, i, b))
      PROVE  HandledOK(w, r, n, i, T, low)
  <2> DEFINE G == a.group
             U == G \cup {s}
             k == a.action_id
             m == a.instance_count
             y == aboard(s)
             x == sent(s)
             v == Noted(x, n, i, b)
  <2>1. /\ a.processed_instance_count = 0 /\ a.retry_count > 0 /\ a.unit_recno \in T \cup {None}
        /\ Holders(w.unit, n, k) = {} /\ m = Cardinality(G) /\ G # {}
        /\ \A u \in G : /\ w.unit[u].nation_recno = n /\ w.unit[u].ai_action_id = 0
                        /\ w.unit[u].state = "idle"
    BY DEF Fresh
  <2>2. /\ G \subseteq Units /\ s \in Units /\ s \notin G /\ U \subseteq Units
        /\ U \cap Generals = {} /\ None \notin U
    BY <1>1, QueueAssumption DEF Units
  <2>3. \A u \in U : /\ w.unit[u].nation_recno = n /\ w.unit[u].ai_action_id = 0
                     /\ w.unit[u].state = "idle"
    BY <1>4, <2>1 DEF IsFree
  <2>4. IsFiniteSet(G) /\ m \in Nat /\ Cardinality(U) = m + 1
    <3>1. IsFiniteSet(G)
      BY <2>2, QueueAssumption, FS_Subset
    <3> HIDE DEF G
    <3> QED BY <2>1, <2>2, <3>1, FS_AddElement, FS_CardinalityType
  <2>5. b \in Records /\ b.action_id = k /\ b.retry_count = a.retry_count
        /\ b.instance_count = m + 1 /\ b.processing_instance_count = m
        /\ b.processed_instance_count = 0 /\ b.action_para2 = None
        /\ b.action_mode = "travel" /\ b.unit_recno = a.unit_recno
    <3> DEFINE p == m + 1
    <3>1. p \in Nat /\ None \in Units \cup {None}
      BY <2>4
    <3>2. b = [a EXCEPT !.instance_count = p, !.processing_instance_count = m,
                        !.action_para2 = None]
      OBVIOUS
    <3>3. a.processed_instance_count = 0 /\ a.action_mode = "travel"
      BY <2>1
    <3> HIDE DEF a, b, p
    <3>4. b \in Records /\ b.action_id = a.action_id /\ b.retry_count = a.retry_count
          /\ b.instance_count = p /\ b.processing_instance_count = m
          /\ b.processed_instance_count = 0 /\ b.action_para2 = None
          /\ b.action_mode = "travel" /\ b.unit_recno = a.unit_recno
      BY <1>1, <2>4, <3>1, <3>2, <3>3 DEF Records
    <3> QED BY <3>4 DEF p
  <2>6. /\ y = Ordered(w, G, k, "boarding", s) /\ x = Ordered(y, {s}, k, "ordered", None)
        /\ r = Outcome("ordered", v)
    BY <1>4
  <2>7. k \in Nat /\ k # 0 /\ k = Queue(w, n)[i].action_id
    BY <1>1
  <2> HIDE DEF b, x, y, v, U, G, k, m
  <2>8. Orders(w, G, k, "boarding", s) /\ Orders(y, {s}, k, "ordered", None)
    <3>1. G \cap Generals = {} /\ s \notin Generals
      BY <2>2 DEF U
    <3> QED BY <2>2, <2>7, <3>1 DEF Orders, States
  <2>9. Sound(y) /\ y.ai = w.ai
    BY <2>6, <2>8, OrderedIs
  <2>10. Sound(x) /\ x.ai = w.ai
    BY <2>6, <2>8, <2>9, OrderedIs
  <2>11. \A u \in Units :
           /\ y.unit[u].nation_recno = w.unit[u].nation_recno
           /\ u \in G => y.unit[u].ai_action_id = k /\ y.unit[u].state = "boarding"
           /\ u \notin G => y.unit[u] = w.unit[u]
    BY <2>6, <2>8, OrderedUnits
  <2>12. \A u \in Units :
           /\ x.unit[u].nation_recno = y.unit[u].nation_recno
           /\ u \in {s} => x.unit[u].ai_action_id = k /\ x.unit[u].state = "ordered"
           /\ u \notin {s} => x.unit[u] = y.unit[u]
    BY <2>6, <2>8, <2>9, OrderedUnits
  <2>13. /\ \A u \in Units : x.unit[u].nation_recno = w.unit[u].nation_recno
         /\ \A u \in Units : u \in U => /\ x.unit[u].ai_action_id = k
                                        /\ x.unit[u].state \in {"boarding", "ordered"}
         /\ \A u \in Units : u \notin U => x.unit[u] = w.unit[u]
    BY <2>11, <2>12 DEF U
  <2>14. U \subseteq T
    BY <2>2, <2>3 DEF Ready, OwnIn
  <2>15. Gives(w.unit, x.unit, n, U, k) /\ Calm(w.unit, x.unit, n, T)
    <3> DEFINE g == w.unit
               h == x.unit
    <3>1. /\ \A u \in Units : h[u].nation_recno = g[u].nation_recno
          /\ \A u \in Units : u \in U =>
               /\ h[u].ai_action_id = k /\ g[u].state # "dead" /\ h[u].state # "dead"
               /\ h[u].state = "aboard" => g[u].state = "aboard"
          /\ \A u \in Units : u \notin U =>
               \/ h[u] = g[u]
               \/ /\ g[u].state = "aboard" /\ h[u].state = "idle"
                  /\ h[u].ai_action_id = g[u].ai_action_id
      BY <2>3, <2>13
    <3> HIDE DEF g, h
    <3>2. Gives(g, h, n, U, k) /\ Calm(g, h, n, T)
      BY <2>14, <3>1, UnitsGive
    <3> QED BY <3>2 DEF g, h
  <2>16. Sound(v) /\ v.unit = x.unit /\ Apart(w, v, n) /\ Replaced(w, v, n, i, b)
    BY <2>5, <2>7, <2>10, ReplacedNoted DEF v
  <2>17. \A j \in DOMAIN Queue(w, n) : j # i => Spared(w.unit, n, U, Queue(w, n)[j])
    BY <2>3, IdIs, IdleSpared
  <2>18. Arranged(w, v, n, i, T, low, b)
    BY <2>5, <2>7, <2>15, <2>16, <2>17, Arranging DEF a
  <2> DEFINE c == Counted(b)
  <2>19. /\ c.processing_instance_count = m + 1 /\ c.processed_instance_count = 0
         /\ c.instance_count = m + 1 /\ c.action_id = k /\ c.action_mode = "travel"
         /\ c.unit_recno = a.unit_recno /\ c.action_para2 = None
    BY <2>5, CountedIs
  <2> HIDE DEF c
  <2>20. CountOK(c)
    BY <2>4, <2>19 DEF CountOK, Sailing
  <2>21. UpperOK(x.unit, n, c) /\ ShipOK(x.unit, n, low, c)
    BY <2>19 DEF UpperOK, ShipOK
  <2>22. Holders(x.unit, n, k) = U
    <3>1. Holders(x.unit, n, k) = {} \cup {u \in Units \cap U : w.unit[u].nation_recno = n
                                                             /\ w.unit[u].state # "dead"}
      BY <2>1, <2>15, SameHolders DEF k
    <3> QED BY <2>2, <2>3, <3>1
  <2>23. LowerOK(x.unit, n, c)
    <3>1. Awaited(x.unit, n, c) = U
      BY <2>2, <2>19, <2>22 DEF Awaited
    <3> QED BY <2>4, <2>19, <3>1 DEF LowerOK, Outstanding
  <2>24. KindOK(x.unit, n, c)
    BY <2>2, <2>13, <2>19, <2>22 DEF KindOK
  <2>25. TaskOK(v.unit, n, T, low, c)
    BY <2>1, <2>16, <2>19, <2>20, <2>21, <2>23, <2>24 DEF TaskOK, RecordOK
  <2>26. Undone(b)
    BY <2>4, <2>5 DEF Undone
  <2> QED BY <2>6, <2>18, <2>25, <2>26, HandlerSends DEF c
<1> QED BY <1>2, <1>3, <1>4

\* Their ship sails.
LEMMA Travel2Works ==
  ASSUME NEW w, Sound(w), NEW n \in Nations, NEW i \in DOMAIN Queue(w, n), NEW T,
         NEW low \in BOOLEAN, Ready(w, n, i, T, low),
         Fresh(w, n, T, Queue(w, n)[i]), Queue(w, n)[i].action_mode = "travel2",
         NEW r \in ai_sea_travel2(w, n, i)
  PROVE  HandledOK(w, r, n, i, T, low)
<1> DEFINE a == Queue(w, n)[i]
           s == a.action_para2
           k == a.action_id
           v == Ordered(w, {s}, k, "ordered", None)
<1>1. a \in Records /\ k \in Nat /\ k # 0
  BY IdIs
<1>2. r = Outcome("remove", w) \/ (HasShip(w, n, a) /\ r = Outcome("ordered", v))
  BY DEF ai_sea_travel2
<1>3. CASE r = Outcome("remove", w)
  BY <1>3, FreshFails
<1>4. CASE HasShip(w, n, a) /\ r = Outcome("ordered", v)
  <2>1. s \in Ships /\ s \in Units /\ s \notin Generals /\ w.unit[s].nation_recno = n
        /\ w.unit[s].state # "dead" /\ s \in T
    BY <1>4, QueueAssumption DEF HasShip, Units, is_deleted, Ready, OwnIn
  <2>2. /\ a.processing_instance_count = 0 /\ a.processed_instance_count = 0
        /\ a.retry_count > 0 /\ a.unit_recno \in T \cup {None} /\ a.instance_count = 1
        /\ Holders(w.unit, n, k) = {}
        /\ \A j \in DOMAIN Queue(w, n) : Spared(w.unit, n, {s}, Queue(w, n)[j])
    BY <1>4 DEF Fresh
  <2> HIDE DEF s, k, v
  <2>3. Orders(w, {s}, k, "ordered", None)
    BY <1>1, <2>1 DEF Orders, States
  <2>4. Sound(v) /\ v.ai = w.ai /\ v.unit[s].state = "ordered"
    BY <2>3, OrderedIs DEF v
  <2>5. Gives(w.unit, v.unit, n, {s}, k) /\ Calm(w.unit, v.unit, n, T)
    BY <2>1, <2>3, OrderedGives DEF v
  <2>6. Apart(w, v, n) /\ Replaced(w, v, n, i, a)
    BY <2>4, ReplacedSelf
  <2>7. Arranged(w, v, n, i, T, low, a)
    BY <1>1, <2>2, <2>4, <2>5, <2>6, Arranging DEF k
  <2> DEFINE c == Counted(a)
  <2>8. /\ c.processing_instance_count = 1 /\ c.processed_instance_count = 0
        /\ c.instance_count = 1 /\ c.action_id = k /\ c.action_mode = "travel2"
        /\ c.unit_recno = a.unit_recno
    BY <1>1, <2>2, CountedIs DEF k
  <2> HIDE DEF c
  <2>9. CountOK(c) /\ ShipOK(v.unit, n, low, c)
    BY <2>8 DEF CountOK, Sailing, ShipOK
  <2>10. Holders(v.unit, n, k) = {s}
    <3>1. Holders(v.unit, n, k) = {} \cup {u \in Units \cap {s} : w.unit[u].nation_recno = n
                                                               /\ w.unit[u].state # "dead"}
      BY <2>2, <2>5, SameHolders
    <3> QED BY <2>1, <3>1
  <2>11. Cardinality({s}) = 1
    BY FS_Singleton
  <2>12. UpperOK(v.unit, n, c)
    BY <2>8, <2>10, <2>11 DEF UpperOK, Outstanding
  <2>13. LowerOK(v.unit, n, c)
    <3>1. Awaited(v.unit, n, c) = {s}
      BY <2>8, <2>10 DEF Awaited
    <3> QED BY <2>8, <2>11, <3>1 DEF LowerOK, Outstanding
  <2>14. KindOK(v.unit, n, c)
    BY <2>1, <2>4, <2>8, <2>10 DEF KindOK
  <2>15. TaskOK(v.unit, n, T, low, c)
    BY <2>2, <2>8, <2>9, <2>12, <2>13, <2>14 DEF TaskOK, RecordOK
  <2>16. Undone(a)
    BY DEF Undone
  <2> QED BY <1>4, <2>7, <2>15, <2>16, HandlerSends DEF c
<1> QED BY <1>2, <1>3, <1>4

\* They land: all who have come are waited for, those who find no room as well.
LEMMA Travel3Works ==
  ASSUME NEW w, Sound(w), NEW n \in Nations, NEW i \in DOMAIN Queue(w, n), NEW T,
         NEW low \in BOOLEAN, Ready(w, n, i, T, low),
         TaskOK(w.unit, n, T, low, Queue(w, n)[i]), Queue(w, n)[i].action_mode = "travel3",
         Queue(w, n)[i].processing_instance_count # Queue(w, n)[i].instance_count,
         NEW r \in ai_sea_travel3(w, n, i)
  PROVE  HandledOK(w, r, n, i, T, low)
<1> DEFINE a == Queue(w, n)[i]
           k == a.action_id
           all == Aboard(w, a.action_para2)
<1>1. a \in Records /\ k \in Nat /\ k # 0 /\ a.action_para2 \in Units \cup {None}
      /\ a.processing_instance_count \in Nat
  BY IdIs DEF Records
<1>2. \/ r \in {Outcome("remove", w), Outcome("retry", w)}
      \/ \E S, ours \in SUBSET all :
           Landing(w, n, ours) /\ r = Outcome("ordered", Landed(w, n, i, S, ours))
  BY LandsSome
<1>3. CASE r \in {Outcome("remove", w), Outcome("retry", w)}
  <2>1. Gives(w.unit, w.unit, n, {}, 0) /\ Calm(w.unit, w.unit, n, T)
    BY GivesSelf, CalmSelf
  <2> QED BY <1>3, <2>1, HandlerFails
<1>4. ASSUME NEW S \in SUBSET all, NEW ours \in SUBSET all, Landing(w, n, ours),
             r = Outcome("ordered", Landed(w, n, i, S, ours))
      PROVE  HandledOK(w, r, n, i, T, low)
  <2> DEFINE m == Cardinality(ours)
             y1 == Ashore(w, S)
             y2 == Ordered(y1, S \cap ours, k, "ordered", None)
             x == Ordered(y2, ours \ S, k, "aboard", a.action_para2)
             b == [a EXCEPT !.processing_instance_count = @ + m - 1,
                            !.instance_count = a.processing_instance_count + m]
             v == Noted(x, n, i, b)
  <2>1. /\ all \subseteq Troops /\ ours \subseteq all /\ S \subseteq all
        /\ \A u \in all : w.unit[u].state = "aboard"
        /\ ours # {} /\ \A u \in ours : w.unit[u].nation_recno = n
    BY <1>4 DEF Aboard, Landing
  <2>2. RecordOK(w.unit, n, low, a) /\ a.unit_recno \in T \cup {None}
    BY DEF TaskOK
  <2>3. /\ a.processing_instance_count = 0 /\ a.processed_instance_count = 0
        /\ Holders(w.unit, n, k) = {}
    BY <1>1, <2>2, NoneWork
  <2>4. r = Outcome("ordered", v)
    BY <1>4 DEF Landed
  <2>5. /\ y1 = Ashore(w, S) /\ y2 = Ordered(y1, S \cap ours, k, "ordered", None)
        /\ x = Ordered(y2, ours \ S, k, "aboard", a.action_para2)
    OBVIOUS
  <2>6. k = Queue(w, n)[i].action_id /\ a = Queue(w, n)[i] /\ a.action_mode = "travel3"
    OBVIOUS
  <2> HIDE DEF all, y1, y2, x, v
  <2>7. IsFiniteSet(ours) /\ m \in Nat /\ m # 0
    <3>1. Troops \subseteq Units /\ IsFiniteSet(Units)
      BY QueueAssumption DEF Units
    <3>2. IsFiniteSet(ours)
      BY <2>1, <3>1, FS_Subset
    <3> QED BY <2>1, <3>2, FS_CardinalityType, FS_EmptySet
  <2>8. /\ all \subseteq Units /\ all \cap Generals = {}
    BY <2>1, QueueAssumption DEF Units
  <2>9. m = Cardinality(ours)
    OBVIOUS
  <2> HIDE DEF m
  <2>10. /\ b \in Records /\ b.action_id = k /\ b.retry_count = a.retry_count
         /\ b.processing_instance_count = m - 1 /\ b.instance_count = m
         /\ b.processed_instance_count = 0 /\ b.action_mode = "travel3"
         /\ b.unit_recno = a.unit_recno
    <3> DEFINE p == a.processing_instance_count + m - 1
               q == a.processing_instance_count + m
    <3>1. p \in Nat /\ q \in Nat /\ p = m - 1 /\ q = m
      BY <1>1, <2>3, <2>7
    <3>2. b = [a EXCEPT !.processing_instance_count = p, !.instance_count = q]
      OBVIOUS
    <3> HIDE DEF p, q, b, a
    <3>3. /\ b \in Records /\ b.action_id = a.action_id /\ b.retry_count = a.retry_count
          /\ b.processing_instance_count = p /\ b.instance_count = q
          /\ b.processed_instance_count = a.processed_instance_count
          /\ b.action_mode = a.action_mode /\ b.unit_recno = a.unit_recno
      BY <1>1, <3>1, <3>2 DEF Records
    <3> QED BY <2>3, <2>6, <3>1, <3>3 DEF k
  <2> HIDE DEF b, k, a
  <2>11. /\ S \subseteq Troops
         /\ Orders(y1, S \cap ours, k, "ordered", None)
         /\ Orders(y2, ours \ S, k, "aboard", a.action_para2)
    <3>1. S \subseteq Units /\ S \cap Generals = {} /\ ours \subseteq Units /\ ours \cap Generals = {}
      BY <2>1, <2>8
    <3> QED BY <1>1, <2>1, <3>1 DEF Orders, States
  <2>12. Sound(y1) /\ y1.ai = w.ai
    BY <2>5, <2>11, AshoreIs
  <2>13. Sound(y2) /\ y2.ai = w.ai
    BY <2>5, <2>11, <2>12, OrderedIs
  <2>14. Sound(x) /\ x.ai = w.ai
    BY <2>5, <2>11, <2>13, OrderedIs
  <2>15. \A u \in Units :
           /\ y1.unit[u].nation_recno = w.unit[u].nation_recno
           /\ y1.unit[u].ai_action_id = w.unit[u].ai_action_id
           /\ u \in S => y1.unit[u].state = "idle"
           /\ u \notin S => y1.unit[u] = w.unit[u]
    BY <2>5, <2>11, AshoreIs
  <2>16. \A u \in Units :
           /\ y2.unit[u].nation_recno = y1.unit[u].nation_recno
           /\ u \in S \cap ours => y2.unit[u].ai_action_id = k /\ y2.unit[u].state = "ordered"
           /\ u \notin S \cap ours => y2.unit[u] = y1.unit[u]
    BY <2>5, <2>11, <2>12, OrderedUnits
  <2>17. \A u \in Units :
           /\ x.unit[u].nation_recno = y2.unit[u].nation_recno
           /\ u \in ours \ S => x.unit[u].ai_action_id = k /\ x.unit[u].state = "aboard"
           /\ u \notin ours \ S => x.unit[u] = y2.unit[u]
    BY <2>5, <2>11, <2>13, OrderedUnits
  <2>18. /\ \A u \in Units : x.unit[u].nation_recno = w.unit[u].nation_recno
         /\ \A u \in Units : u \in ours => /\ x.unit[u].ai_action_id = k
                                           /\ x.unit[u].state \in {"ordered", "aboard"}
         /\ \A u \in Units : u \notin ours =>
              \/ x.unit[u] = w.unit[u]
              \/ /\ u \in S /\ x.unit[u].state = "idle"
                 /\ x.unit[u].ai_action_id = w.unit[u].ai_action_id
    <3> SUFFICES ASSUME NEW u \in Units
                 PROVE  /\ x.unit[u].nation_recno = w.unit[u].nation_recno
                        /\ u \in ours => /\ x.unit[u].ai_action_id = k
                                         /\ x.unit[u].state \in {"ordered", "aboard"}
                        /\ u \notin ours =>
                             \/ x.unit[u] = w.unit[u]
                             \/ /\ u \in S /\ x.unit[u].state = "idle"
                                /\ x.unit[u].ai_action_id = w.unit[u].ai_action_id
      OBVIOUS
    <3>1. CASE u \in ours /\ u \in S
      BY <2>15, <2>16, <2>17, <3>1
    <3>2. CASE u \in ours /\ u \notin S
      BY <2>15, <2>16, <2>17, <3>2
    <3>3. CASE u \notin ours
      BY <2>15, <2>16, <2>17, <3>3
    <3> QED BY <3>1, <3>2, <3>3
  <2>19. ours \subseteq T
    BY <2>1, <2>8 DEF Ready, OwnIn
  <2>20. Gives(w.unit, x.unit, n, ours, k) /\ Calm(w.unit, x.unit, n, T)
    <3> DEFINE g == w.unit
               h == x.unit
    <3>1. /\ \A u \in Units : h[u].nation_recno = g[u].nation_recno
          /\ \A u \in Units : u \in ours =>
               /\ h[u].ai_action_id = k /\ g[u].state # "dead" /\ h[u].state # "dead"
               /\ h[u].state = "aboard" => g[u].state = "aboard"
          /\ \A u \in Units : u \notin ours =>
               \/ h[u] = g[u]
               \/ /\ g[u].state = "aboard" /\ h[u].state = "idle"
                  /\ h[u].ai_action_id = g[u].ai_action_id
      BY <2>1, <2>18
    <3> HIDE DEF g, h
    <3>2. Gives(g, h, n, ours, k) /\ Calm(g, h, n, T)
      BY <2>19, <3>1, UnitsGive
    <3> QED BY <3>2 DEF g, h
  <2>21. Sound(v) /\ v.unit = x.unit /\ Apart(w, v, n) /\ Replaced(w, v, n, i, b)
    BY <2>6, <2>10, <2>14, ReplacedNoted DEF v
  <2>22. \A j \in DOMAIN Queue(w, n) : j # i => Spared(w.unit, n, ours, Queue(w, n)[j])
    BY <2>1 DEF Ready, TaskOK, RecordOK, KindOK, Spared
  <2>23. Arranged(w, v, n, i, T, low, b)
    BY <2>6, <2>10, <2>20, <2>21, <2>22, Arranging
  <2> DEFINE c == Counted(b)
  <2>24. /\ c.processing_instance_count = m /\ c.processed_instance_count = 0
         /\ c.instance_count = m /\ c.action_id = k /\ c.action_mode = "travel3"
         /\ c.unit_recno = a.unit_recno
    BY <2>7, <2>10, CountedIs
  <2> HIDE DEF c
  <2>25. CountOK(c) /\ ShipOK(x.unit, n, low, c) /\ LowerOK(x.unit, n, c)
    BY <2>7, <2>24 DEF CountOK, Sailing, ShipOK, LowerOK
  <2>26. Holders(x.unit, n, k) = ours
    <3>1. Holders(x.unit, n, k) = {} \cup {u \in Units \cap ours : w.unit[u].nation_recno = n
                                                                /\ w.unit[u].state # "dead"}
      BY <2>3, <2>20, SameHolders
    <3> QED BY <2>1, <2>8, <3>1
  <2>27. UpperOK(x.unit, n, c)
    BY <2>7, <2>9, <2>24, <2>26 DEF UpperOK, Outstanding
  <2>28. KindOK(x.unit, n, c)
    BY <2>1, <2>8, <2>24, <2>26 DEF KindOK
  <2>29. TaskOK(v.unit, n, T, low, c)
    BY <2>2, <2>21, <2>24, <2>25, <2>27, <2>28 DEF TaskOK, RecordOK
  <2>30. Undone(b)
    BY <2>10 DEF Undone
  <2> QED BY <2>4, <2>23, <2>29, <2>30, HandlerSends DEF c
<1> QED BY <1>2, <1>3, <1>4

\* Every handler of an action that is due: in order as it is, or just queued.
LEMMA HandleWorks ==
  ASSUME NEW w, Sound(w), NEW n \in Nations, NEW i \in DOMAIN Queue(w, n), NEW T,
         NEW low \in BOOLEAN, Ready(w, n, i, T, low),
         TaskOK(w.unit, n, T, low, Queue(w, n)[i]) \/ Fresh(w, n, T, Queue(w, n)[i]),
         Queue(w, n)[i].processing_instance_count # Queue(w, n)[i].instance_count,
         NEW r \in Handle(w, n, i)
  PROVE  HandledOK(w, r, n, i, T, low)
<1> DEFINE a == Queue(w, n)[i]
           mode == a.action_mode
<1>1. mode \in Modes
  BY IdIs DEF Records
<1>2. CASE Fresh(w, n, T, a)
  <2>1. mode \in {"travel", "travel2"}
    BY <1>2 DEF Fresh
  <2>2. CASE mode = "travel"
    BY <1>2, <2>2, TravelWorks DEF Handle
  <2>3. CASE mode = "travel2"
    BY <1>2, <2>3, Travel2Works DEF Handle
  <2> QED BY <2>1, <2>2, <2>3
<1>3. CASE TaskOK(w.unit, n, T, low, a)
  <2>1. mode \notin Sailing
    BY <1>3 DEF TaskOK, RecordOK, CountOK
  <2>2. CASE mode = "assign"
    BY <1>3, <2>2, AssignWorks DEF Handle
  <2>3. CASE mode = "worker"
    BY <1>3, <2>3, WorkerWorks DEF Handle
  <2>4. CASE mode = "travel3"
    BY <1>3, <2>4, Travel3Works DEF Handle
  <2> QED BY <1>1, <2>1, <2>2, <2>3, <2>4 DEF Modes, TravelModes, Sailing
<1> QED BY <1>2, <1>3

-----------------------------------------------------------------------------
(* Processing one record, and queueing a new one.                          *)

\* All travels but perhaps that of the d-th record are under way.
Others(w, n, d) == \A j \in DOMAIN Queue(w, n) : j = d \/ Undone(Queue(w, n)[j])

\* What processing a record does to the queue
Stepped(w, v, n, i) ==
  \/ v = w
  \/ /\ i \in DOMAIN Queue(w, n)
     /\ Removed(w, v, n, i) \/ \E b : Undone(b) /\ Replaced(w, v, n, i, b)

\* Nation n has acted: its actions are in order, and the other nations have not been disturbed.
Acted(w, v, n, T, low) ==
  Sound(v) /\ Works(v, n, T, low) /\ Apart(w, v, n) /\ Calm(w.unit, v.unit, n, T)

\* One after the other
LEMMA ActedChain ==
  ASSUME NEW w, NEW v, NEW x, NEW n, NEW T, NEW low,
         Acted(w, v, n, T, low), Acted(v, x, n, T, low)
  PROVE  Acted(w, x, n, T, low)
BY ApartChain, CalmChain DEF Acted

\* The queue is in order with the record replaced ...
LEMMA ReplacedWorks ==
  ASSUME NEW w, Sound(w), NEW n \in Nations, NEW v, Sound(v), NEW i \in DOMAIN Queue(w, n),
         NEW b, Replaced(w, v, n, i, b), NEW T, NEW low,
         \A j \in DOMAIN Queue(w, n) : j # i => TaskOK(v.unit, n, T, low, Queue(w, n)[j]),
         TaskOK(v.unit, n, T, low, b), IdsOK(v, n), OwnIn(v, n, T)
  PROVE  Works(v, n, T, low)
<1>1. /\ DOMAIN Queue(w, n) = 1..Len(Queue(w, n)) /\ DOMAIN Queue(v, n) = 1..Len(Queue(v, n))
  BY PartsOf
<1>2. \A j \in DOMAIN Queue(v, n) : TaskOK(v.unit, n, T, low, Queue(v, n)[j])
  <2> SUFFICES ASSUME NEW j \in DOMAIN Queue(v, n)
               PROVE  TaskOK(v.unit, n, T, low, Queue(v, n)[j])
    OBVIOUS
  <2>1. j \in DOMAIN Queue(w, n) /\ Queue(v, n)[j] = IF j = i THEN b ELSE Queue(w, n)[j]
    BY <1>1 DEF Replaced
  <2>2. CASE j = i
    BY <2>1, <2>2
  <2>3. CASE j # i
    BY <2>1, <2>3
  <2> QED BY <2>2, <2>3
<1> QED BY <1>2 DEF Works

\* ... or removed.
LEMMA RemovedWorks ==
  ASSUME NEW v, Sound(v), NEW n \in Nations, NEW x, Sound(x), NEW i \in DOMAIN Queue(v, n),
         Removed(v, x, n, i), x.unit = v.unit, NEW T, NEW low,
         \A j \in DOMAIN Queue(v, n) : j # i => TaskOK(v.unit, n, T, low, Queue(v, n)[j]),
         IdsOK(v, n), OwnIn(v, n, T)
  PROVE  Works(x, n, T, low)
<1>1. /\ DOMAIN Queue(v, n) = 1..Len(Queue(v, n)) /\ DOMAIN Queue(x, n) = 1..Len(Queue(x, n))
      /\ Len(Queue(v, n)) \in Nat /\ Len(Queue(x, n)) = Len(Queue(v, n)) - 1
      /\ \A j \in 1..(Len(Queue(v, n)) - 1) :
           Queue(x, n)[j] = IF j < i THEN Queue(v, n)[j] ELSE Queue(v, n)[j + 1]
      /\ x.ai[n].last_action_id = v.ai[n].last_action_id
  BY PartsOf DEF Removed
<1>2. \A j \in DOMAIN Queue(x, n) : TaskOK(x.unit, n, T, low, Queue(x, n)[j])
  <2> SUFFICES ASSUME NEW j \in DOMAIN Queue(x, n)
               PROVE  TaskOK(v.unit, n, T, low, Queue(x, n)[j])
    OBVIOUS
  <2> DEFINE s == Queue(v, n)
             u == Queue(x, n)
  <2>1. /\ j \in 1..(Len(s) - 1) /\ i \in 1..Len(s) /\ Len(s) \in Nat
        /\ u[j] = IF j < i THEN s[j] ELSE s[j + 1]
    BY <1>1
  <2>2. DOMAIN s = 1..Len(s)
    BY <1>1
  <2>3. \A l \in DOMAIN s : l # i => TaskOK(v.unit, n, T, low, s[l])
    OBVIOUS
  <2> HIDE DEF s, u
  <2>4. CASE j < i
    BY <2>1, <2>2, <2>3, <2>4 DEF u
  <2>5. CASE ~(j < i)
    <3>1. j + 1 \in DOMAIN s /\ j + 1 # i
      BY <2>1, <2>2, <2>5
    <3> QED BY <2>1, <2>3, <2>5, <3>1 DEF u
  <2> QED BY <2>4, <2>5
<1>3. IdsOK(x, n) /\ OwnIn(x, n, T)
  BY <1>1 DEF IdsOK, OwnIn
<1> QED BY <1>2, <1>3 DEF Works

\* A record stays in order when only its tries, its wait and its age change.
LEMMA SameCounts ==
  ASSUME NEW g, NEW n, NEW low, NEW b \in Records, RecordOK(g, n, low, b), NEW c,
         c.action_mode = b.action_mode, c.action_id = b.action_id,
         c.action_para2 = b.action_para2, c.instance_count = b.instance_count,
         c.processing_instance_count = b.processing_instance_count,
         c.processed_instance_count = b.processed_instance_count,
         \/ c.retry_count = b.retry_count
         \/ c.retry_count = 0 => b.processing_instance_count # b.processed_instance_count
  PROVE  RecordOK(g, n, low, c)
<1>1. CountOK(b) /\ UpperOK(g, n, b) /\ (low => LowerOK(g, n, b)) /\ ShipOK(g, n, low, b)
      /\ KindOK(g, n, b)
  BY DEF RecordOK
<1>2. CountOK(c)
  BY <1>1, CountsAre DEF CountOK
<1>3. UpperOK(g, n, c) /\ (low => LowerOK(g, n, c)) /\ ShipOK(g, n, low, c) /\ KindOK(g, n, c)
  BY <1>1 DEF UpperOK, LowerOK, Awaited, Outstanding, ShipOK, KindOK
<1> QED BY <1>2, <1>3 DEF RecordOK

\* The result of a handler is noted.
LEMMA SettleWorks ==
  ASSUME NEW w, Sound(w), NEW n \in Nations, NEW i \in DOMAIN Queue(w, n), NEW T,
         NEW low \in BOOLEAN, Ready(w, n, i, T, low), Queue(w, n)[i].retry_count > 0,
         NEW v, NEW rc, HandledOK(w, Outcome(rc, v), n, i, T, low),
         NEW x, x = Settle(v, n, i, rc)
  PROVE  Acted(w, x, n, T, low) /\ Stepped(w, x, n, i)
<1>1. PICK b :
        /\ Arranged(w, v, n, i, T, low, b)
        /\ \/ rc = "ordered" /\ TaskOK(v.unit, n, T, low, Counted(b)) /\ Undone(b)
           \/ /\ rc \in {"retry", "training", "remove"}
              /\ b.action_mode # "travel" /\ TaskOK(v.unit, n, T, low, b)
           \/ /\ rc = "remove"
              /\ b.processing_instance_count = b.processed_instance_count
  BY DEF HandledOK, Outcome
<1>2. /\ Sound(v) /\ Apart(w, v, n) /\ Replaced(w, v, n, i, b)
      /\ Calm(w.unit, v.unit, n, T) /\ IdsOK(v, n)
      /\ b \in Records /\ b.action_id = Queue(w, n)[i].action_id
      /\ b.retry_count = Queue(w, n)[i].retry_count
      /\ \A j \in DOMAIN Queue(w, n) : j # i => TaskOK(v.unit, n, T, low, Queue(w, n)[j])
  BY <1>1 DEF Arranged
<1>3. OwnIn(v, n, T)
  BY <1>2, CalmOwn DEF Ready
<1>4. /\ DOMAIN Queue(w, n) = 1..Len(Queue(w, n)) /\ DOMAIN Queue(v, n) = 1..Len(Queue(v, n))
      /\ Len(Queue(v, n)) = Len(Queue(w, n)) /\ i \in DOMAIN Queue(v, n)
      /\ \A j \in DOMAIN Queue(w, n) : Queue(v, n)[j] = IF j = i THEN b ELSE Queue(w, n)[j]
  BY <1>2, PartsOf DEF Replaced
<1>5. Queue(v, n)[i] = b
  BY <1>4
<1> DEFINE c == CASE rc = "ordered" -> Counted(b)
                  [] rc = "retry"   -> [b EXCEPT !.wait = RetryWait, !.retry_count = @ - 1]
                  [] rc = "training" -> [b EXCEPT !.wait = RetryWait]
                  [] rc = "remove"  -> [b EXCEPT !.retry_count = 0]
           z == Noted(v, n, i, c)
<1>6. x = IF rc # "ordered" /\ c.retry_count = 0
               /\ c.processing_instance_count = c.processed_instance_count
          THEN del_action(z, n, i) ELSE z
  BY <1>5 DEF Settle, Counted
<1>7. b.retry_count \in Nat /\ b.retry_count > 0 /\ b.retry_count \in 0..STD_ACTION_RETRY_COUNT
  BY <1>2, QueueAssumption DEF Records
<1>8. /\ c \in Records /\ c.action_id = b.action_id /\ c.action_mode = b.action_mode
      /\ c.action_para2 = b.action_para2 /\ c.instance_count = b.instance_count
      /\ c.processed_instance_count = b.processed_instance_count
      /\ c.unit_recno = b.unit_recno
      /\ rc # "ordered" => c.processing_instance_count = b.processing_instance_count
      /\ rc = "ordered" => c = Counted(b)
      /\ rc = "remove" => c.retry_count = 0
  <2>1. CASE rc = "ordered"
    BY <1>2, <2>1, CountedIs
  <2>2. CASE rc = "retry"
    <3> DEFINE p == b.retry_count - 1
    <3>1. p \in 0..STD_ACTION_RETRY_COUNT /\ RetryWait \in 0..RetryWait
      BY <1>7, QueueAssumption
    <3>2. c = [b EXCEPT !.wait = RetryWait, !.retry_count = p]
      BY <2>2
    <3> HIDE DEF c, p
    <3> QED BY <1>2, <2>2, <3>1, <3>2 DEF Records
  <2>3. CASE rc = "remove"
    <3>1. 0 \in 0..STD_ACTION_RETRY_COUNT
      BY QueueAssumption
    <3>2. c = [b EXCEPT !.retry_count = 0]
      BY <2>3
    <3> HIDE DEF c
    <3> QED BY <1>2, <2>3, <3>1, <3>2 DEF Records
  <2>4. CASE rc = "training"
    <3>1. c = [b EXCEPT !.wait = RetryWait] /\ RetryWait \in 0..RetryWait
      BY <2>4, QueueAssumption
    <3> HIDE DEF c
    <3> QED BY <1>2, <2>4, <3>1 DEF Records
  <2> QED BY <1>1, <2>1, <2>2, <2>3, <2>4
<1> HIDE DEF c
<1>9. Sound(z) /\ z.unit = v.unit /\ Apart(v, z, n) /\ Replaced(v, z, n, i, c)
  BY <1>2, <1>4, <1>5, <1>8, NotedIs
<1> HIDE DEF z
<1>10. Replaced(w, z, n, i, c) /\ Apart(w, z, n) /\ Calm(w.unit, z.unit, n, T)
  BY <1>2, <1>9, ReplacedThen, ApartChain
<1>11. IdsOK(z, n) /\ OwnIn(z, n, T)
  BY <1>2, <1>3, <1>9 DEF IdsOK, OwnIn, Replaced
<1>12. CASE x = z /\ TaskOK(v.unit, n, T, low, c) /\ Undone(c)
  <2>1. Works(z, n, T, low)
    BY <1>2, <1>9, <1>10, <1>11, <1>12, ReplacedWorks
  <2> QED BY <1>9, <1>10, <1>12, <2>1 DEF Acted, Stepped
<1>13. CASE x = del_action(z, n, i)
  <2>1. DOMAIN Queue(z, n) = 1..Len(Queue(z, n)) /\ Len(Queue(z, n)) = Len(Queue(w, n))
        /\ i \in DOMAIN Queue(z, n)
    BY <1>4, <1>9, <1>10, PartsOf DEF Replaced
  <2>2. Sound(x) /\ x.unit = z.unit /\ Apart(z, x, n) /\ Removed(z, x, n, i)
    BY <1>9, <1>13, <2>1, DeletedIs
  <2>3. \A j \in DOMAIN Queue(z, n) : j # i => TaskOK(z.unit, n, T, low, Queue(z, n)[j])
    BY <1>2, <1>4, <1>9, <1>10, <2>1 DEF Replaced
  <2>4. Works(x, n, T, low)
    BY <1>9, <1>11, <2>1, <2>2, <2>3, RemovedWorks
  <2>5. Removed(w, x, n, i)
    BY <1>10, <2>2, ReplacedThen
  <2>6. Apart(w, x, n) /\ Calm(w.unit, x.unit, n, T)
    BY <1>10, <2>2, ApartChain
  <2> QED BY <2>2, <2>4, <2>5, <2>6 DEF Acted, Stepped
<1>14. CASE rc = "ordered" /\ TaskOK(v.unit, n, T, low, Counted(b)) /\ Undone(b)
  <2>1. x = z /\ c = Counted(b)
    BY <1>6, <1>8, <1>14
  <2>2. Undone(c)
    BY <1>8, <1>14 DEF Undone
  <2> QED BY <1>12, <1>14, <2>1, <2>2
<1>15. CASE rc \in {"retry", "training", "remove"} /\ b.action_mode # "travel" /\ TaskOK(v.unit, n, T, low, b)
  <2>1. CASE c.retry_count = 0 /\ c.processing_instance_count = c.processed_instance_count
    BY <1>6, <1>13, <1>15, <2>1
  <2>2. CASE ~(c.retry_count = 0 /\ c.processing_instance_count = c.processed_instance_count)
    <3>1. x = z
      BY <1>6, <2>2
    <3>2. c.processing_instance_count = b.processing_instance_count
      BY <1>8, <1>15
    <3>3. c.retry_count = 0 => b.processing_instance_count # b.processed_instance_count
      BY <1>8, <2>2, <3>2
    <3>4. RecordOK(v.unit, n, low, b) /\ b.unit_recno \in T \cup {None}
      BY <1>15 DEF TaskOK
    <3>5. RecordOK(v.unit, n, low, c)
      <4> DEFINE g == v.unit
      <4>1. RecordOK(g, n, low, b)
        BY <3>4
      <4> HIDE DEF g
      <4>2. RecordOK(g, n, low, c)
        BY <1>2, <1>8, <3>2, <3>3, <4>1, SameCounts
      <4> QED BY <4>2 DEF g
    <3>6. TaskOK(v.unit, n, T, low, c) /\ Undone(c)
      BY <1>8, <1>15, <3>4, <3>5 DEF TaskOK, Undone
    <3> QED BY <1>12, <3>1, <3>6
  <2> QED BY <2>1, <2>2
<1>16. CASE rc = "remove" /\ b.processing_instance_count = b.processed_instance_count
  BY <1>6, <1>8, <1>13, <1>16
<1> QED BY <1>1, <1>14, <1>15, <1>16

\* One record is processed: it is in order, or it has just been queued and is due.
LEMMA ProcessOneWorks ==
  ASSUME NEW w, Sound(w), NEW n \in Nations, NEW i, NEW T, NEW low \in BOOLEAN, NEW priority,
         Ready(w, n, i, T, low),
         i \in DOMAIN Queue(w, n) =>
           \/ TaskOK(w.unit, n, T, low, Queue(w, n)[i])
           \/ Fresh(w, n, T, Queue(w, n)[i]) /\ priority,
         NEW v \in ProcessOne(w, n, i, priority)
  PROVE  Acted(w, v, n, T, low) /\ Stepped(w, v, n, i)
<1> DEFINE a == Queue(w, n)[i]
<1>0. Apart(w, w, n) /\ Calm(w.unit, w.unit, n, T)
  BY CalmSelf DEF Apart
<1>1. CASE i \notin DOMAIN Queue(w, n)
  <2>1. v = w
    BY <1>1 DEF ProcessOne
  <2>2. Works(w, n, T, low)
    BY <1>1 DEF Ready, Works
  <2> QED BY <1>0, <2>1, <2>2 DEF Acted, Stepped
<1>2. CASE i \in DOMAIN Queue(w, n)
  <2>1. \/ IsDue(a, priority) /\ \E r \in Handle(w, n, i) : v = Settle(r.w, n, i, r.rc)
        \/ ~IsDue(a, priority) /\ IsOverdue(a) /\ v = del_action(w, n, i)
        \/ ~IsDue(a, priority) /\ v = w
    BY <1>2 DEF ProcessOne
  <2>2. CASE IsDue(a, priority) /\ \E r \in Handle(w, n, i) : v = Settle(r.w, n, i, r.rc)
    <3>1. PICK r \in Handle(w, n, i) : v = Settle(r.w, n, i, r.rc)
      BY <2>2
    <3>2. a.processing_instance_count # a.instance_count /\ a.retry_count > 0
      BY <2>2 DEF IsDue
    <3>3. HandledOK(w, r, n, i, T, low)
      BY <1>2, <3>1, <3>2, HandleWorks
    <3> DEFINE rc == r.rc
               x == r.w
    <3>4. HandledOK(w, Outcome(rc, x), n, i, T, low)
      BY <3>3 DEF HandledOK, Outcome
    <3>5. v = Settle(x, n, i, rc)
      BY <3>1
    <3> HIDE DEF x, rc
    <3> QED BY <1>2, <3>2, <3>4, <3>5, SettleWorks
  <2>3. CASE v = del_action(w, n, i)
    <3>1. Sound(v) /\ v.unit = w.unit /\ Apart(w, v, n) /\ Removed(w, v, n, i)
      BY <1>2, <2>3, DeletedIs
    <3>2. Works(v, n, T, low)
      BY <1>2, <3>1, RemovedWorks DEF Ready
    <3> QED BY <1>0, <1>2, <3>1, <3>2 DEF Acted, Stepped
  <2>4. CASE ~IsDue(a, priority) /\ v = w
    <3>1. TaskOK(w.unit, n, T, low, a)
      <4>1. ASSUME Fresh(w, n, T, a), priority PROVE FALSE
        <5>1. a.processing_instance_count = 0 /\ a.retry_count > 0 /\ a.instance_count # 0
          <6>1. CASE a.action_mode = "travel2" /\ a.instance_count = 1
            BY <4>1, <6>1 DEF Fresh
          <6>2. CASE a.group # {} /\ a.instance_count = Cardinality(a.group)
            <7>1. a.group \subseteq Units
              BY <1>2, IdIs DEF Records, Units
            <7>2. IsFiniteSet(a.group)
              BY <7>1, QueueAssumption, FS_Subset
            <7>3. Cardinality(a.group) # 0
              BY <6>2, <7>2, FS_EmptySet
            <7> QED BY <4>1, <6>2, <7>3 DEF Fresh
          <6> QED BY <4>1, <6>1, <6>2 DEF Fresh
        <5> QED BY <2>4, <4>1, <5>1 DEF IsDue
      <4> QED BY <1>2, <4>1
    <3>2. Works(w, n, T, low)
      BY <3>1 DEF Ready, Works
    <3> QED BY <1>0, <2>4, <3>2 DEF Acted, Stepped
  <2> QED BY <2>1, <2>2, <2>3, <2>4
<1> QED BY <1>1, <1>2

\* The travels under way stay so, and the d-th record its place, when the last one or no
\* other is processed.
LEMMA OthersStep ==
  ASSUME NEW w, Sound(w), NEW n \in Nations, NEW v, Sound(v), NEW d, Others(w, n, d),
         NEW i, Stepped(w, v, n, i), d = 0 \/ i = Len(Queue(w, n))
  PROVE  Others(v, n, d)
<1> DEFINE s == Queue(w, n)
           t == Queue(v, n)
<1>1. /\ DOMAIN s = 1..Len(s) /\ DOMAIN t = 1..Len(t) /\ Len(s) \in Nat
      /\ \A j \in DOMAIN s : j = d \/ Undone(s[j])
  BY PartsOf DEF Others
<1>2. CASE v = w
  BY <1>2
<1>3. CASE i \in DOMAIN s /\ Removed(w, v, n, i)
  <2>1. /\ Len(t) = Len(s) - 1
        /\ \A j \in 1..(Len(s) - 1) : t[j] = IF j < i THEN s[j] ELSE s[j + 1]
    BY <1>3 DEF Removed
  <2>2. i \in 1..Len(s) /\ (d = 0 \/ i = Len(s))
    BY <1>1, <1>3
  <2> HIDE DEF s, t
  <2>3. ASSUME NEW j \in DOMAIN t PROVE j = d \/ Undone(t[j])
    <3>1. j \in 1..(Len(s) - 1) /\ t[j] = IF j < i THEN s[j] ELSE s[j + 1]
      BY <1>1, <2>1
    <3>2. CASE j < i
      BY <1>1, <3>1, <3>2
    <3>3. CASE ~(j < i)
      <4>1. i # Len(s)
        <5>1. j \in 1..(Len(s) - 1) /\ i \in 1..Len(s) /\ Len(s) \in Nat /\ ~(j < i)
          BY <1>1, <2>2, <3>1, <3>3
        <5> QED BY ONLY <5>1
      <4>2. j + 1 \in 1..Len(s) /\ j + 1 # 0
        BY <1>1, <3>1
      <4>3. t[j] = s[j + 1]
        BY <3>1, <3>3
      <4> QED BY <1>1, <2>2, <4>1, <4>2, <4>3
    <3> QED BY <3>2, <3>3
  <2> QED BY <2>3 DEF Others, t
<1>4. CASE i \in DOMAIN s /\ \E b : Undone(b) /\ Replaced(w, v, n, i, b)
  <2>1. PICK b : Undone(b) /\ Replaced(w, v, n, i, b)
    BY <1>4
  <2>2. /\ Len(t) = Len(s) /\ \A j \in 1..Len(s) : t[j] = IF j = i THEN b ELSE s[j]
    BY <2>1 DEF Replaced
  <2> HIDE DEF s, t
  <2>3. ASSUME NEW j \in DOMAIN t PROVE j = d \/ Undone(t[j])
    <3>1. j \in DOMAIN s /\ t[j] = IF j = i THEN b ELSE s[j]
      BY <1>1, <2>2
    <3> QED BY <1>1, <2>1, <3>1
  <2> QED BY <2>3 DEF Others, t
<1> QED BY <1>2, <1>3, <1>4 DEF Stepped

\* What an action must be like to be queued.
NodeOK(w, n, T, node) ==
  /\ node \in Records /\ node.unit_recno \in T \cup {None}
  /\ \/ node.action_mode = "assign" /\ node.instance_count = 1
     \/ node.action_mode \in {"worker", "travel3"} /\ node.instance_count > 0
     \/ /\ node.action_mode = "travel" /\ node.group # {}
        /\ node.instance_count = Cardinality(node.group)
        /\ \A u \in node.group : /\ w.unit[u].nation_recno = n /\ w.unit[u].ai_action_id = 0
                                 /\ w.unit[u].state = "idle"
     \/ /\ node.action_mode = "travel2" /\ node.instance_count = 1
        /\ HasShip(w, n, node) =>
             \A j \in DOMAIN Queue(w, n) : Spared(w.unit, n, {node.action_para2}, Queue(w, n)[j])

\* The queue with a record appended, which becomes the current one.
Linked(w, n, a) ==
  [w EXCEPT !.ai[n] = [action_array |-> Append(w.ai[n].action_array, a),
                       cur_pos |-> Len(w.ai[n].action_array) + 1,
                       last_action_id |-> a.action_id]]

\* It has one record more, and nobody else notices.
LEMMA LinkedQueue ==
  ASSUME NEW w, Sound(w), NEW n \in Nations, NEW a \in Records,
         NEW v, v = Linked(w, n, a)
  PROVE  /\ v.unit = w.unit /\ Apart(w, v, n)
         /\ Len(Queue(v, n)) = Len(Queue(w, n)) + 1
         /\ \A j \in 1..Len(Queue(w, n)) : Queue(v, n)[j] = Queue(w, n)[j]
         /\ Queue(v, n)[Len(Queue(w, n)) + 1] = a
         /\ v.ai[n].cur_pos = Len(Queue(w, n)) + 1 /\ v.ai[n].last_action_id = a.action_id
<1> DEFINE s == w.ai[n].action_array
           t == Append(s, a)
           c == Len(s) + 1
           q == [action_array |-> t, cur_pos |-> c, last_action_id |-> a.action_id]
           f == [w.ai EXCEPT ![n] = q]
<1>1. /\ s \in Seq(Records) /\ Queue(w, n) = s /\ IsWorld(w) /\ w.ai \in [Nations -> Queues]
      /\ Len(s) \in Nat
  BY PartsOf DEF Queue, Sound, AiOK
<1>2. v = [w EXCEPT !.ai = f]
  BY <1>1 DEF IsWorld, Linked
<1>3. f[n] = q /\ \A m \in Nations : m # n => f[m] = w.ai[m]
  BY <1>1
<1>4. Len(t) = Len(s) + 1 /\ t[Len(s) + 1] = a /\ \A j \in 1..Len(s) : t[j] = s[j]
  <2> HIDE DEF s
  <2> QED BY <1>1
<1>5. q.action_array = t /\ q.cur_pos = Len(s) + 1 /\ q.last_action_id = a.action_id
  OBVIOUS
<1> HIDE DEF f, q, t, c, s
<1>6. v.ai = f /\ v.unit = w.unit
  <2> DEFINE x == [w EXCEPT !.ai = f]
  <2>1. x.ai = f /\ x.unit = w.unit
    BY <1>1, AiSet
  <2> HIDE DEF x
  <2> QED BY ONLY <1>2, <2>1 DEF x
<1>7. Queue(v, n) = t
  BY <1>3, <1>5, <1>6 DEF Queue
<1> QED BY <1>1, <1>3, <1>4, <1>5, <1>6, <1>7 DEF Apart

\* The new record is in order, or fresh, and all others are in order.
LEMMA LinkedWorks ==
  ASSUME NEW w, Sound(w), NEW n \in Nations, NEW T, NEW low \in BOOLEAN, Works(w, n, T, low),
         NEW node, NodeOK(w, n, T, node), NEW a \in Records,
         a.action_mode = node.action_mode, a.instance_count = node.instance_count,
         a.action_para2 = node.action_para2, a.unit_recno = node.unit_recno,
         a.group = node.group, a.retry_count > 0,
         a.processing_instance_count = 0, a.processed_instance_count = 0,
         a.action_id = w.ai[n].last_action_id + 1,
         NEW v, v = Linked(w, n, a)
  PROVE  /\ Sound(v) /\ Apart(w, v, n) /\ v.unit = w.unit
         /\ Len(Queue(v, n)) = Len(Queue(w, n)) + 1
         /\ v.ai[n].cur_pos = Len(Queue(v, n)) /\ Len(Queue(v, n)) \in DOMAIN Queue(v, n)
         /\ Ready(v, n, Len(Queue(v, n)), T, low)
         /\ \/ TaskOK(v.unit, n, T, low, Queue(v, n)[Len(Queue(v, n))])
            \/ /\ Fresh(v, n, T, Queue(v, n)[Len(Queue(v, n))])
               /\ node.action_mode \in Sailing
         /\ \A d : Others(w, n, d) => Others(v, n, d)
<1> DEFINE e == Len(Queue(w, n)) + 1
<1>1. Sound(v)
  BY LinkedIs DEF Linked
<1>2. /\ v.unit = w.unit /\ Apart(w, v, n)
      /\ Len(Queue(v, n)) = Len(Queue(w, n)) + 1
      /\ \A j \in 1..Len(Queue(w, n)) : Queue(v, n)[j] = Queue(w, n)[j]
      /\ Queue(v, n)[Len(Queue(w, n)) + 1] = a
      /\ v.ai[n].cur_pos = Len(Queue(w, n)) + 1 /\ v.ai[n].last_action_id = a.action_id
  BY LinkedQueue
<1>3. /\ DOMAIN Queue(w, n) = 1..Len(Queue(w, n)) /\ Len(Queue(w, n)) \in Nat
      /\ DOMAIN Queue(v, n) = 1..Len(Queue(v, n)) /\ w.ai[n].last_action_id \in Nat
  BY <1>1, PartsOf DEF Queues
<1>4. /\ Len(Queue(v, n)) = e /\ e \in DOMAIN Queue(v, n) /\ Queue(v, n)[e] = a
      /\ v.ai[n].cur_pos = e
      /\ \A j \in DOMAIN Queue(v, n) :
           j # e => j \in DOMAIN Queue(w, n) /\ Queue(v, n)[j] = Queue(w, n)[j]
  <2> DEFINE s == Queue(w, n)
             t == Queue(v, n)
  <2>1. /\ Len(t) = Len(s) + 1 /\ DOMAIN s = 1..Len(s) /\ DOMAIN t = 1..Len(t) /\ Len(s) \in Nat
        /\ \A j \in 1..Len(s) : t[j] = s[j]
    BY <1>2, <1>3
  <2> HIDE DEF s, t
  <2>2. \A j \in DOMAIN t : j # Len(s) + 1 => j \in DOMAIN s /\ t[j] = s[j]
    BY <2>1
  <2>3. Len(s) + 1 \in DOMAIN t
    BY <2>1
  <2> QED BY <1>2, <2>2, <2>3 DEF s, t
<1> HIDE DEF e
<1>5. Ready(v, n, e, T, low)
  <2>1. \A j \in DOMAIN Queue(v, n) : j # e => TaskOK(v.unit, n, T, low, Queue(v, n)[j])
    BY <1>2, <1>4 DEF Works
  <2>2. IdsOK(v, n)
    <3> SUFFICES ASSUME NEW u \in Units, v.unit[u].nation_recno = n, v.unit[u].state # "dead"
                 PROVE  v.unit[u].ai_action_id <= v.ai[n].last_action_id
      BY DEF IdsOK
    <3>1. w.unit[u].ai_action_id <= w.ai[n].last_action_id /\ w.unit[u].ai_action_id \in Nat
      BY <1>2, PartsOf DEF Works, IdsOK, UnitRecords
    <3> QED BY <1>2, <1>3, <3>1
  <2>3. OwnIn(v, n, T)
    BY <1>2 DEF Works, OwnIn
  <2> QED BY <2>1, <2>2, <2>3 DEF Ready
<1>6. Holders(v.unit, n, a.action_id) = {}
  <2> SUFFICES ASSUME NEW u \in Holders(v.unit, n, a.action_id) PROVE FALSE
    OBVIOUS
  <2>1. /\ u \in Units /\ w.unit[u].nation_recno = n /\ w.unit[u].state # "dead"
        /\ w.unit[u].ai_action_id = a.action_id
    BY <1>2 DEF Holders
  <2>2. w.unit[u].ai_action_id <= w.ai[n].last_action_id
    BY <2>1 DEF Works, IdsOK
  <2> QED BY <1>3, <2>1, <2>2
<1>7. a.unit_recno \in T \cup {None}
  BY DEF NodeOK
<1>8. ASSUME node.action_mode \in {"assign", "worker", "travel3"}
      PROVE  TaskOK(v.unit, n, T, low, a)
  <2>1. a.instance_count > 0 /\ a.instance_count \in Nat
        /\ (a.action_mode = "assign" => a.instance_count = 1)
    BY <1>8 DEF NodeOK, Records
  <2>2. CountOK(a)
    BY <1>8, <2>1 DEF CountOK, Sailing
  <2>3. Cardinality(Holders(v.unit, n, a.action_id)) = 0
    BY <1>6, FS_EmptySet
  <2>4. UpperOK(v.unit, n, a)
    BY <2>3 DEF UpperOK, Outstanding
  <2>5. LowerOK(v.unit, n, a)
    BY AwaitedFinite DEF LowerOK, Outstanding
  <2>6. ShipOK(v.unit, n, low, a) /\ KindOK(v.unit, n, a)
    BY <1>6, <1>8 DEF ShipOK, KindOK
  <2> QED BY <1>7, <2>2, <2>4, <2>5, <2>6 DEF TaskOK, RecordOK
<1>9. ASSUME node.action_mode \notin {"assign", "worker", "travel3"}
      PROVE  Fresh(v, n, T, a) /\ node.action_mode \in Sailing
  <2>1. CASE /\ node.action_mode = "travel" /\ node.group # {}
             /\ node.instance_count = Cardinality(node.group)
             /\ \A u \in node.group : /\ w.unit[u].nation_recno = n
                                      /\ w.unit[u].ai_action_id = 0 /\ w.unit[u].state = "idle"
    BY <1>2, <1>6, <1>7, <2>1 DEF Fresh, Sailing
  <2>2. CASE /\ node.action_mode = "travel2" /\ node.instance_count = 1
             /\ HasShip(w, n, node) =>
                  \A j \in DOMAIN Queue(w, n) :
                    Spared(w.unit, n, {node.action_para2}, Queue(w, n)[j])
    <3>1. HasShip(v, n, a) => HasShip(w, n, node)
      BY <1>2 DEF HasShip, is_deleted
    <3>2. ASSUME HasShip(v, n, a), NEW j \in DOMAIN Queue(v, n)
          PROVE  Spared(v.unit, n, {a.action_para2}, Queue(v, n)[j])
      <4>1. CASE j = e
        BY <1>4, <1>6, <4>1 DEF Spared
      <4>2. CASE j # e
        BY <1>2, <1>4, <2>2, <3>1, <3>2, <4>2
      <4> QED BY <4>1, <4>2
    <3> QED BY <1>6, <1>7, <2>2, <3>2 DEF Fresh, Sailing
  <2> QED BY <1>9, <2>1, <2>2 DEF NodeOK
<1>10. Undone(a)
  <2> SUFFICES ASSUME a.action_mode = "travel"
               PROVE  a.processed_instance_count < a.instance_count
    BY DEF Undone
  <2>1. a.group # {} /\ a.instance_count = Cardinality(a.group) /\ a.group \subseteq Units
    BY DEF NodeOK, Records, Units
  <2>2. IsFiniteSet(a.group)
    BY <2>1, QueueAssumption, FS_Subset
  <2>3. a.instance_count \in Nat /\ a.instance_count # 0
    BY <2>1, <2>2, FS_CardinalityType, FS_EmptySet
  <2> QED BY <2>3
<1>11. ASSUME NEW d, Others(w, n, d) PROVE Others(v, n, d)
  <2> SUFFICES ASSUME NEW j \in DOMAIN Queue(v, n), j # d
               PROVE  Undone(Queue(v, n)[j])
    BY DEF Others
  <2>1. CASE j = e
    BY <1>4, <1>10, <2>1
  <2>2. CASE j # e
    BY <1>4, <1>11, <2>2 DEF Others
  <2> QED BY <2>1, <2>2
<1>12. TaskOK(v.unit, n, T, low, a) \/ (Fresh(v, n, T, a) /\ node.action_mode \in Sailing)
  BY <1>8, <1>9
<1> QED BY <1>1, <1>2, <1>4, <1>5, <1>11, <1>12 DEF e

\* The current record stays the last one.
LEMMA LastStep ==
  ASSUME NEW w, Sound(w), NEW n \in Nations, NEW v, Stepped(w, v, n, Len(Queue(w, n))),
         w.ai[n].cur_pos = Len(Queue(w, n))
  PROVE  v.ai[n].cur_pos = Len(Queue(v, n))
<1>1. Len(Queue(w, n)) \in Nat
  BY PartsOf
<1>2. CASE v = w
  BY <1>2
<1>3. CASE Removed(w, v, n, Len(Queue(w, n)))
  <2> DEFINE e == Len(Queue(w, n))
  <2>1. Len(Queue(v, n)) = e - 1 /\ v.ai[n].cur_pos = (IF e <= e - 1 THEN e ELSE e - 1) /\ e \in Nat
    BY <1>1, <1>3 DEF Removed
  <2> HIDE DEF e
  <2>2. ~(e <= e - 1)
    BY <2>1
  <2> QED BY <2>1, <2>2
<1>4. CASE \E b : Undone(b) /\ Replaced(w, v, n, Len(Queue(w, n)), b)
  BY <1>4 DEF Replaced
<1> QED BY <1>2, <1>3, <1>4 DEF Stepped

\* add_action: the actions are in order, and the record it returns is the last one.
LEMMA LinkWorks ==
  ASSUME NEW w, Sound(w), NEW n \in Nations, NEW T, NEW low \in BOOLEAN, Works(w, n, T, low),
         NEW node, NodeOK(w, n, T, node), NEW immediate,
         immediate \/ node.action_mode \notin Sailing,
         NEW r \in Link(w, n, node, immediate)
  PROVE  /\ Acted(w, r.w, n, T, low) /\ r.recno = Len(Queue(r.w, n))
         /\ \A d : Others(w, n, d) => Others(r.w, n, d)
<1> DEFINE id == w.ai[n].last_action_id + 1
           a == [node EXCEPT !.action_id = id, !.retry_count = STD_ACTION_RETRY_COUNT, !.age = 0,
                             !.processing_instance_count = 0, !.processed_instance_count = 0]
           v == Linked(w, n, a)
           e == Len(Queue(v, n))
<1>1. id \in Nat /\ node \in Records
  <2>1. w.ai[n].last_action_id \in Nat
    BY PartsOf DEF Queues
  <2> QED BY <2>1 DEF NodeOK
<1> HIDE DEF id
<1>2. /\ a \in Records /\ a.action_id = id /\ a.retry_count > 0
      /\ a.action_mode = node.action_mode /\ a.instance_count = node.instance_count
      /\ a.action_para2 = node.action_para2 /\ a.unit_recno = node.unit_recno
      /\ a.group = node.group
      /\ a.processing_instance_count = 0 /\ a.processed_instance_count = 0
  <2> DEFINE k == STD_ACTION_RETRY_COUNT
             x == [node EXCEPT !.action_id = id, !.retry_count = k]
  <2>1. k \in 0..k /\ k > 0 /\ 0 \in 0..(Overdue + 1) /\ 0 \in Nat
    BY QueueAssumption
  <2>2. a = [x EXCEPT !.age = 0, !.processing_instance_count = 0, !.processed_instance_count = 0]
    OBVIOUS
  <2>3. x = [node EXCEPT !.action_id = id, !.retry_count = k]
    OBVIOUS
  <2> HIDE DEF x, a
  <2>4. /\ x \in Records /\ x.action_id = id /\ x.retry_count = k
        /\ x.action_mode = node.action_mode /\ x.instance_count = node.instance_count
        /\ x.action_para2 = node.action_para2 /\ x.unit_recno = node.unit_recno
        /\ x.group = node.group
    BY <1>1, <2>1, <2>3 DEF Records
  <2>5. /\ a \in Records /\ a.action_id = x.action_id /\ a.retry_count = x.retry_count
        /\ a.action_mode = x.action_mode /\ a.instance_count = x.instance_count
        /\ a.action_para2 = x.action_para2 /\ a.unit_recno = x.unit_recno
        /\ a.group = x.group
        /\ a.processing_instance_count = 0 /\ a.processed_instance_count = 0
    BY <2>1, <2>2, <2>4 DEF Records
  <2> QED BY <2>1, <2>4, <2>5
<1>3. \/ ~immediate /\ r = [w |-> v, recno |-> v.ai[n].cur_pos]
      \/ /\ immediate
         /\ \E x \in ProcessOne(v, n, v.ai[n].cur_pos, TRUE) :
              r = [w |-> x, recno |-> x.ai[n].cur_pos]
  <2> DEFINE y == [w EXCEPT !.ai[n] = [action_array |-> Append(w.ai[n].action_array, a),
                                       cur_pos |-> Len(w.ai[n].action_array) + 1,
                                       last_action_id |-> id]]
  <2>1. \/ ~immediate /\ r = [w |-> y, recno |-> y.ai[n].cur_pos]
        \/ /\ immediate
           /\ \E x \in ProcessOne(y, n, y.ai[n].cur_pos, TRUE) :
                r = [w |-> x, recno |-> x.ai[n].cur_pos]
    BY DEF Link, id
  <2>2. y = v
    <3> HIDE DEF a
    <3> QED BY <1>2 DEF Linked
  <2> HIDE DEF y, v
  <2> QED BY <2>1, <2>2
<1> HIDE DEF a, v
<1>4. /\ Sound(v) /\ Apart(w, v, n) /\ v.unit = w.unit
      /\ v.ai[n].cur_pos = e /\ e \in DOMAIN Queue(v, n)
      /\ Ready(v, n, e, T, low)
      /\ \/ TaskOK(v.unit, n, T, low, Queue(v, n)[e])
         \/ Fresh(v, n, T, Queue(v, n)[e]) /\ node.action_mode \in Sailing
      /\ \A d : Others(w, n, d) => Others(v, n, d)
  BY <1>2, LinkedWorks DEF id, v
<1> HIDE DEF e
<1>5. CASE ~immediate /\ r = [w |-> v, recno |-> v.ai[n].cur_pos]
  <2>1. r.w = v /\ r.recno = e
    BY <1>4, <1>5
  <2>2. Works(v, n, T, low)
    BY <1>4, <1>5 DEF Works, Ready
  <2>3. Calm(w.unit, v.unit, n, T)
    BY <1>4, CalmSelf
  <2>4. Acted(w, v, n, T, low)
    BY <1>4, <2>2, <2>3 DEF Acted
  <2> QED BY <1>4, <2>1, <2>4 DEF e
<1>6. CASE /\ immediate
           /\ \E x \in ProcessOne(v, n, v.ai[n].cur_pos, TRUE) :
                r = [w |-> x, recno |-> x.ai[n].cur_pos]
  <2>1. PICK x \in ProcessOne(v, n, e, TRUE) : r = [w |-> x, recno |-> x.ai[n].cur_pos]
    BY <1>4, <1>6
  <2>2. r.w = x /\ r.recno = x.ai[n].cur_pos
    BY <2>1
  <2>3. Acted(v, x, n, T, low) /\ Stepped(v, x, n, e)
    BY <1>4, <2>1, ProcessOneWorks
  <2>4. Acted(w, x, n, T, low)
    BY <1>4, <2>3, ApartChain DEF Acted
  <2>5. x.ai[n].cur_pos = Len(Queue(x, n))
    BY <1>4, <2>3, LastStep DEF e
  <2>6. ASSUME NEW d, Others(w, n, d) PROVE Others(x, n, d)
    BY <1>4, <2>3, <2>6, OthersStep DEF Acted, e
  <2> QED BY <2>2, <2>4, <2>5, <2>6
<1> QED BY <1>3, <1>5, <1>6

\* A new action that its caller processes once more.
LEMMA LinkAndProcessWorks ==
  ASSUME NEW w, Sound(w), NEW n \in Nations, NEW T, NEW low \in BOOLEAN, Works(w, n, T, low),
         NEW node, NodeOK(w, n, T, node), NEW v \in LinkAndProcess(w, n, node)
  PROVE  Acted(w, v, n, T, low) /\ \A d : Others(w, n, d) => Others(v, n, d)
<1>1. PICK r \in Link(w, n, node, TRUE) :
        v = r.w \/ v \in ProcessOne(r.w, n, r.recno, TRUE)
  BY DEF LinkAndProcess
<1> DEFINE x == r.w
           e == Len(Queue(x, n))
<1>2. /\ Acted(w, x, n, T, low) /\ r.recno = e
      /\ \A d : Others(w, n, d) => Others(x, n, d)
  BY LinkWorks
<1>3. v = x \/ v \in ProcessOne(x, n, e, TRUE)
  BY <1>1, <1>2
<1> HIDE DEF x
<1>4. CASE v \in ProcessOne(x, n, e, TRUE)
  <2>1. Sound(x) /\ Works(x, n, T, low)
    BY <1>2 DEF Acted
  <2>2. Ready(x, n, e, T, low)
        /\ (e \in DOMAIN Queue(x, n) => TaskOK(x.unit, n, T, low, Queue(x, n)[e]))
    BY <2>1 DEF Ready, Works
  <2>3. Acted(x, v, n, T, low) /\ Stepped(x, v, n, e)
    BY <1>4, <2>1, <2>2, ProcessOneWorks
  <2>4. Acted(w, v, n, T, low)
    BY <1>2, <2>3, ActedChain
  <2>5. ASSUME NEW d, Others(w, n, d) PROVE Others(v, n, d)
    BY <1>2, <2>1, <2>3, <2>5, OthersStep DEF Acted
  <2> QED BY <2>4, <2>5
<1> QED BY <1>2, <1>3, <1>4

-----------------------------------------------------------------------------
(* A report, and what follows from it.                                     *)

\* A record that may be in no order any more is deleted: all that are left are in order.
LEMMA DelWorks ==
  ASSUME NEW v, Sound(v), NEW n \in Nations, NEW i, NEW T, NEW low \in BOOLEAN,
         \A j \in DOMAIN Queue(v, n) : j # i => TaskOK(v.unit, n, T, low, Queue(v, n)[j]),
         IdsOK(v, n), OwnIn(v, n, T), Others(v, n, i),
         NEW x, x = del_action(v, n, i)
  PROVE  Acted(v, x, n, T, low) /\ Others(x, n, 0) /\ x.unit = v.unit
<1>1. CASE i \notin DOMAIN Queue(v, n)
  <2>1. x = v
    BY <1>1 DEF del_action
  <2>2. Works(v, n, T, low) /\ Others(v, n, 0)
    BY <1>1 DEF Works, Others
  <2> QED BY <2>1, <2>2, CalmSelf DEF Acted, Apart
<1>2. CASE i \in DOMAIN Queue(v, n)
  <2>1. Sound(x) /\ x.unit = v.unit /\ Apart(v, x, n) /\ Removed(v, x, n, i)
    BY <1>2, DeletedIs
  <2>2. Works(x, n, T, low)
    BY <1>2, <2>1, RemovedWorks
  <2>3. Calm(v.unit, x.unit, n, T)
    BY <2>1, CalmSelf
  <2>4. Others(x, n, 0)
    <3> DEFINE s == Queue(v, n)
               t == Queue(x, n)
    <3>1. /\ DOMAIN s = 1..Len(s) /\ DOMAIN t = 1..Len(t) /\ Len(s) \in Nat /\ i \in 1..Len(s)
          /\ \A j \in DOMAIN s : j = i \/ Undone(s[j])
      BY <1>2, <2>1, PartsOf DEF Others
    <3>2. /\ Len(t) = Len(s) - 1
          /\ \A j \in 1..(Len(s) - 1) : t[j] = IF j < i THEN s[j] ELSE s[j + 1]
      BY <2>1 DEF Removed
    <3> HIDE DEF s, t
    <3>3. ASSUME NEW j \in DOMAIN t PROVE Undone(t[j])
      <4>1. j \in 1..(Len(s) - 1) /\ j \in DOMAIN s /\ j + 1 \in DOMAIN s
        BY <3>1, <3>2
      <4>2. CASE j < i
        <5>1. j # i
          BY <3>1, <4>1, <4>2
        <5> QED BY <3>1, <3>2, <4>1, <4>2, <5>1
      <4>3. CASE ~(j < i)
        <5>1. j + 1 # i
          BY <3>1, <4>1, <4>3
        <5> QED BY <3>1, <3>2, <4>1, <4>3, <5>1
      <4> QED BY <4>2, <4>3
    <3> QED BY <3>3 DEF Others, t
  <2> QED BY <2>1, <2>2, <2>3, <2>4 DEF Acted
<1> QED BY <1>1, <1>2

\* The world after the next part of a sea travel has been queued: the second part is for the ship
\* of the first.
QueuesNext(w, n, T, b, v) ==
  \E node : /\ NodeOK(w, n, T, node) /\ node.action_mode \in {"travel2", "travel3"}
            /\ node.action_mode = "travel2" =>
                 b.action_mode = "travel" /\ node.action_para2 = b.action_para2
            /\ v \in LinkAndProcess(w, n, node)

\* The next part of a sea travel is queued.
LEMMA NextActionWorks ==
  ASSUME NEW w, Sound(w), NEW n \in Nations, NEW T, NEW low \in BOOLEAN, Works(w, n, T, low),
         NEW b \in Records, b.unit_recno \in T \cup {None}, b.instance_count > 0,
         b.action_mode \in Sailing,
         b.action_mode = "travel" /\ HasShip(w, n, b) =>
           \A j \in DOMAIN Queue(w, n) : Spared(w.unit, n, {b.action_para2}, Queue(w, n)[j]),
         NEW v \in auto_next_action(w, n, b)
  PROVE  /\ Acted(w, v, n, T, low) /\ \A d : Others(w, n, d) => Others(v, n, d)
         /\ QueuesNext(w, n, T, b, v)
<1>1. CASE b.action_mode = "travel"
  <2> DEFINE node == [b EXCEPT !.action_mode = "travel2", !.instance_count = 1]
  <2>1. /\ node \in Records /\ node.action_mode = "travel2" /\ node.instance_count = 1
        /\ node.unit_recno = b.unit_recno /\ node.action_para2 = b.action_para2
    BY DEF Records, Modes, TravelModes
  <2>2. v \in LinkAndProcess(w, n, node)
    BY <1>1 DEF auto_next_action
  <2> HIDE DEF node
  <2>3. HasShip(w, n, node) => HasShip(w, n, b)
    BY <2>1 DEF HasShip
  <2>4. NodeOK(w, n, T, node)
    BY <1>1, <2>1, <2>3 DEF NodeOK
  <2>5. Acted(w, v, n, T, low) /\ \A d : Others(w, n, d) => Others(v, n, d)
    BY <2>2, <2>4, LinkAndProcessWorks
  <2> QED BY <1>1, <2>1, <2>2, <2>4, <2>5 DEF QueuesNext
<1>2. CASE b.action_mode = "travel2"
  <2> DEFINE node == [b EXCEPT !.action_mode = "travel3"]
  <2>1. /\ node \in Records /\ node.action_mode = "travel3"
        /\ node.unit_recno = b.unit_recno /\ node.instance_count = b.instance_count
    BY DEF Records, Modes, TravelModes
  <2>2. v \in LinkAndProcess(w, n, node)
    BY <1>2 DEF auto_next_action
  <2> HIDE DEF node
  <2>3. NodeOK(w, n, T, node)
    BY <2>1 DEF NodeOK
  <2>4. Acted(w, v, n, T, low) /\ \A d : Others(w, n, d) => Others(v, n, d)
    BY <2>2, <2>3, LinkAndProcessWorks
  <2> QED BY <2>1, <2>2, <2>3, <2>4 DEF QueuesNext
<1> QED BY <1>1, <1>2 DEF Sailing

\* The units that the handler of an action may call.
Called(w, n, a) ==
  CASE a.action_mode = "assign"  -> Generals
    [] a.action_mode = "worker"  -> {u \in Troops : w.unit[u].state = "inside"}
    [] a.action_mode = "travel"  -> a.group \cup {s \in Ships : w.unit[s].ai_action_id = 0}
    [] a.action_mode = "travel2" -> {s \in Ships : s = a.action_para2 /\ HasShip(w, n, a)}
    [] a.action_mode = "travel3" -> {u \in Troops : w.unit[u].state = "aboard"}

\* A handler leaves people and ships alone, except those it calls ...
LEMMA HandleLeaves ==
  ASSUME NEW w, Sound(w), NEW n \in Nations, NEW i \in DOMAIN Queue(w, n),
         NEW u \in (Troops \cup Ships) \ Called(w, n, Queue(w, n)[i]),
         NEW r \in Handle(w, n, i)
  PROVE  r.w.unit[u] = w.unit[u]
<1> DEFINE a == Queue(w, n)[i]
<1>1. /\ a \in Records /\ a.action_id \in Nat /\ u \in Units /\ IsWorld(w)
      /\ u \notin Generals /\ a.unit_recno \in Generals \cup {None}
  BY IdIs, PartsOf, QueueAssumption DEF Units, Records
<1>1a. u \notin Called(w, n, a)
  OBVIOUS
<1>2. ASSUME NEW U, NEW id, NEW state, NEW ship, NEW x, IsWorld(x), u \notin U
      PROVE  Ordered(x, U, id, state, ship).unit[u] = x.unit[u]
             /\ IsWorld(Ordered(x, U, id, state, ship))
  <2> DEFINE g == [y \in Units |-> IF y \in U
                     THEN [x.unit[y] EXCEPT !.ai_action_id = id, !.state = state, !.ship = ship]
                     ELSE x.unit[y]]
  <2>1. g[u] = x.unit[u]
    BY <1>1, <1>2
  <2>2. Ordered(x, U, id, state, ship) = [x EXCEPT !.unit = g]
    BY DEF Ordered
  <2> HIDE DEF g
  <2> QED BY <1>2, <2>1, <2>2, UnitSet
<1>3. ASSUME NEW x, IsWorld(x), NEW b PROVE Noted(x, n, i, b).unit = x.unit
  <2> DEFINE f == [x.ai EXCEPT ![n].action_array[i] = b]
  <2>1. Noted(x, n, i, b) = [x EXCEPT !.ai = f]
    BY DEF Noted
  <2> HIDE DEF f
  <2> QED BY <1>3, <2>1, AiSet
<1>3a. ASSUME NEW v, Sound(v), NEW id, NEW y \in Trained(v, n, id) PROVE y.unit[u] = v.unit[u]
  <2>1. PICK x \in Generals : y = [KeepsDoing(v, x, "training") EXCEPT
                                     !.train = [unit |-> x, id |-> id]]
    BY DEF Trained
  <2> DEFINE g == [v.unit EXCEPT ![x] = [v.unit[x] EXCEPT !.state = "training",
                                                         !.ai_action_id = v.unit[x].ai_action_id]]
             z == [v EXCEPT !.unit = g]
  <2>2. KeepsDoing(v, x, "training") = z /\ IsWorld(v)
    BY <1>3a, PartsOf DEF KeepsDoing, Doing, IsWorld
  <2>3. g[u] = v.unit[u]
    <3>1. u # x
      BY <1>1
    <3> QED BY <1>1, <1>3a, <3>1 DEF Sound, UnitsOK
  <2> HIDE DEF g
  <2>4. IsWorld(z) /\ z.unit = g
    BY <2>2, UnitSet
  <2> HIDE DEF z
  <2>5. y.unit = g
    BY <2>1, <2>2, <2>4, TrainSet
  <2> QED BY <2>3, <2>5
<1>4. CASE a.action_mode = "assign"
  <2>1. r \in ai_assign(w, n, i)
    BY <1>4 DEF Handle
  <2>2. CASE r.w = w
    BY <2>2
  <2>3. ASSUME NEW x \in Generals, r.w = Noted(Ordered(w, {x}, a.action_id, "ordered", None), n, i,
                                               [a EXCEPT !.unit_recno = x])
        PROVE  r.w.unit[u] = w.unit[u]
    <3> DEFINE y == Ordered(w, {x}, a.action_id, "ordered", None)
    <3>1. y.unit[u] = w.unit[u] /\ IsWorld(y)
      BY <1>1, <1>2, <2>3
    <3> HIDE DEF y
    <3>2. r.w = Noted(y, n, i, [a EXCEPT !.unit_recno = x])
      BY <2>3 DEF y
    <3> QED BY <1>3, <3>1, <3>2
  <2>5. \/ r.w = w
        \/ \E x \in Generals : r.w = Noted(Ordered(w, {x}, a.action_id, "ordered", None), n, i,
                                           [a EXCEPT !.unit_recno = x])
        \/ \E y \in Trained(w, n, a.action_id) : r.w = y
    <3> DEFINE Sent(x) ==
                 Noted(Ordered(w, {x}, a.action_id, "ordered", None), n, i, [a EXCEPT !.unit_recno = x])
    <3>1. \/ r \in {Outcome("remove", w), Outcome("retry", w)}
          \/ \E x \in SkilledUnits(w, n, a) : r = Outcome("ordered", Sent(x))
          \/ \E y \in Trained(w, n, a.action_id) : r = Outcome("retry", y)
      BY <2>1 DEF ai_assign
    <3>2. SkilledUnits(w, n, a) \subseteq Generals
      BY <1>1 DEF SkilledUnits
    <3> HIDE DEF Sent
    <3>3. \/ r.w = w
          \/ \E x \in Generals : r.w = Sent(x)
          \/ \E y \in Trained(w, n, a.action_id) : r.w = y
      BY <3>1, <3>2 DEF Outcome
    <3> QED BY <3>3 DEF Sent
  <2> QED BY <1>3a, <2>2, <2>3, <2>5
<1>5. CASE a.action_mode = "worker"
  <2>1. r \in ai_assign_worker(w, n, i)
    BY <1>5 DEF Handle
  <2>2. \/ r.w = w
        \/ \E k \in Needed(a) : r \in Recruits(Asking(w, n, i, k), n, i)
    BY <2>1 DEF ai_assign_worker, Asking, Outcome
  <2>3. ASSUME NEW k \in Needed(a), NEW v, v = Asking(w, n, i, k), r \in Recruits(v, n, i)
        PROVE  r.w.unit[u] = w.unit[u]
    <3> DEFINE b == [a EXCEPT !.instance_count = k]
               sent(x) == Ordered(v, {x}, Queue(v, n)[i].action_id, "ordered", None)
    <3>1. v = Noted(w, n, i, b)
      BY <2>3 DEF Asking
    <3>2. b \in Records /\ b.action_id = a.action_id
      BY <1>1, FewerAsked
    <3> HIDE DEF b
    <3>3. Sound(v) /\ v.unit = w.unit
      BY <3>1, <3>2, NotedIs
    <3>4. \/ r = Outcome("retry", v)
          \/ \E x \in {y \in Troops : IsInside(v, n, y)} : r = Outcome("ordered", sent(x))
          \/ \E y \in Trained(v, n, Queue(v, n)[i].action_id) : r = Outcome("training", y)
      BY <2>3 DEF Recruits
    <3>5. ASSUME NEW x \in Troops, IsInside(v, n, x) PROVE sent(x).unit[u] = v.unit[u]
      <4>1. u \notin {x}
        BY <1>1a, <1>5, <3>3, <3>5 DEF Called, IsInside
      <4> QED BY <1>2, <3>3, <4>1, PartsOf
    <3> HIDE DEF sent
    <3> QED BY <1>3a, <3>3, <3>4, <3>5 DEF Outcome
  <2> QED BY <2>2, <2>3
<1>6. CASE a.action_mode = "travel2"
  <2>1. r \in ai_sea_travel2(w, n, i)
    BY <1>6 DEF Handle
  <2>2. \/ r.w = w
        \/ /\ HasShip(w, n, a)
           /\ r.w = Ordered(w, {a.action_para2}, a.action_id, "ordered", None)
    BY <2>1 DEF ai_sea_travel2, Outcome
  <2>3. HasShip(w, n, a) => u \notin {a.action_para2}
    BY <1>1a, <1>6 DEF Called, HasShip
  <2> QED BY <1>1, <1>2, <2>2, <2>3
<1>7. CASE a.action_mode = "travel3"
  <2>1. r \in ai_sea_travel3(w, n, i)
    BY <1>7 DEF Handle
  <2>2. \/ r.w = w
        \/ \E S, C \in SUBSET Aboard(w, a.action_para2) : r.w = Landed(w, n, i, S, C)
    BY <2>1, LandsSome DEF Outcome
  <2>3. u \notin Aboard(w, a.action_para2)
    BY <1>1a, <1>7 DEF Aboard, Called
  <2>4. ASSUME NEW S \in SUBSET Aboard(w, a.action_para2), NEW C \in SUBSET Aboard(w, a.action_para2),
               r.w = Landed(w, n, i, S, C)
        PROVE  r.w.unit[u] = w.unit[u]
    <3> DEFINE x == Ashore(w, S)
               y == Ordered(x, S \cap C, a.action_id, "ordered", None)
               z == Ordered(y, C \ S, a.action_id, "aboard", a.action_para2)
               b == [a EXCEPT !.processing_instance_count = @ + Cardinality(C) - 1,
                              !.instance_count = a.processing_instance_count + Cardinality(C)]
    <3>0. u \notin S /\ u \notin C /\ S \subseteq Troops
      BY <2>3 DEF Aboard
    <3>1. x.unit[u] = w.unit[u] /\ IsWorld(x)
      BY <1>1, <3>0, AshoreIs, PartsOf
    <3>2. r.w = Noted(z, n, i, b)
      BY <2>4 DEF Landed
    <3> HIDE DEF b, x
    <3>3. y.unit[u] = x.unit[u] /\ IsWorld(y)
      BY <1>2, <3>0, <3>1
    <3> HIDE DEF y
    <3>4. z.unit[u] = y.unit[u] /\ IsWorld(z)
      BY <1>2, <3>0, <3>3
    <3> HIDE DEF z
    <3>5. r.w.unit = z.unit
      BY <1>3, <3>2, <3>4
    <3> QED BY <3>1, <3>3, <3>4, <3>5
  <2> QED BY <2>2, <2>4
<1>8. CASE a.action_mode = "travel"
  <2> DEFINE b == [a EXCEPT !.instance_count = @ + 1, !.processing_instance_count = a.instance_count,
                            !.action_para2 = None]
             boarding(s) == Noted(Ordered(Ordered(w, a.group, a.action_id, "boarding", s),
                                          {s}, a.action_id, "ordered", None), n, i, b)
  <2>1. r \in ai_sea_travel(w, n, i)
    BY <1>8 DEF Handle
  <2>2. \/ r.w = w
        \/ \E s \in Ships : /\ w.unit[s].ai_action_id = 0
                            /\ r.w = boarding(s)
    <3>1. \/ r = Outcome("remove", w)
          \/ \E s \in Ships : IsFree(w, n, s) /\ r = Outcome("ordered", boarding(s))
      <4> HIDE DEF b
      <4> QED BY <2>1 DEF ai_sea_travel, b
    <3> HIDE DEF boarding
    <3> QED BY <3>1 DEF Outcome, IsFree
  <2>3. ASSUME NEW s \in Ships, w.unit[s].ai_action_id = 0, r.w = boarding(s)
        PROVE  r.w.unit[u] = w.unit[u]
    <3> DEFINE x == Ordered(w, a.group, a.action_id, "boarding", s)
               y == Ordered(x, {s}, a.action_id, "ordered", None)
    <3>1. u \notin a.group /\ u \notin {s}
      BY <1>1a, <1>8, <2>3 DEF Called
    <3>2. r.w = Noted(y, n, i, b)
      BY <2>3
    <3>3. x.unit[u] = w.unit[u] /\ IsWorld(x)
      BY <1>1, <1>2, <3>1
    <3> HIDE DEF x, b
    <3>4. y.unit[u] = x.unit[u] /\ IsWorld(y)
      BY <1>2, <3>1, <3>3
    <3> HIDE DEF y
    <3> QED BY <1>3, <3>2, <3>3, <3>4
  <2> QED BY <2>2, <2>3
<1> QED BY <1>1, <1>4, <1>5, <1>6, <1>7, <1>8 DEF Records, Modes, TravelModes

\* What is done to the queue alone
LEMMA QueueOnly ==
  ASSUME NEW w, IsWorld(w), NEW n, NEW i, NEW b, NEW rc
  PROVE  /\ IsWorld(Noted(w, n, i, b)) /\ Noted(w, n, i, b).unit = w.unit
         /\ IsWorld(del_action(w, n, i)) /\ del_action(w, n, i).unit = w.unit
         /\ Settle(w, n, i, rc).unit = w.unit
<1>1. ASSUME NEW c PROVE IsWorld(Noted(w, n, i, c)) /\ Noted(w, n, i, c).unit = w.unit
  <2> DEFINE f == [w.ai EXCEPT ![n].action_array[i] = c]
  <2>1. Noted(w, n, i, c) = [w EXCEPT !.ai = f]
    BY DEF Noted
  <2> HIDE DEF f
  <2> QED BY <2>1, AiSet
<1>2. ASSUME NEW v, IsWorld(v)
      PROVE  IsWorld(del_action(v, n, i)) /\ del_action(v, n, i).unit = v.unit
  <2> DEFINE last == Len(Queue(v, n)) - 1
             f == [v.ai EXCEPT ![n] = [action_array |-> RemoveAt(@.action_array, i),
                                       cur_pos |-> IF @.cur_pos <= last THEN @.cur_pos ELSE last,
                                       last_action_id |-> @.last_action_id]]
             x == [v EXCEPT !.ai = f]
  <2>1. del_action(v, n, i) = v \/ del_action(v, n, i) = x
    BY DEF del_action
  <2> HIDE DEF f
  <2>2. IsWorld(x) /\ x.unit = v.unit
    BY <1>2, AiSet
  <2> HIDE DEF x
  <2> QED BY <1>2, <2>1, <2>2
<1>3. Settle(w, n, i, rc).unit = w.unit
  <2> DEFINE a == Queue(w, n)[i]
             b1 == CASE rc = "ordered" -> [a EXCEPT !.processing_instance_count = @ + 1]
                     [] rc = "retry"   -> [a EXCEPT !.wait = RetryWait, !.retry_count = @ - 1]
                     [] rc = "training" -> [a EXCEPT !.wait = RetryWait]
                     [] rc = "remove"  -> [a EXCEPT !.retry_count = 0]
             noted == Noted(w, n, i, b1)
  <2>1. Settle(w, n, i, rc) = noted \/ Settle(w, n, i, rc) = del_action(noted, n, i)
    BY DEF Settle
  <2>2. IsWorld(noted) /\ noted.unit = w.unit
    BY <1>1
  <2> HIDE DEF noted
  <2>3. del_action(noted, n, i).unit = noted.unit
    BY <1>2, <2>2
  <2> QED BY <2>1, <2>2, <2>3
<1> QED BY <1>1, <1>2, <1>3

\* People who are on their way or idle, and ships, are not called by an action that is in
\* order, as a sea travel then is under way and a sailing ship has left.
Steady(w, u) == u \in Ships \/ (u \in Troops /\ w.unit[u].state \notin {"inside", "aboard"})
Uncalled(w, n, i, u) ==
  i \in DOMAIN Queue(w, n) => LET a == Queue(w, n)[i]
                              IN  a.action_mode \in Sailing /\ ~CountOK(a) => u \notin Called(w, n, a)

\* ... and so does the processing of a record, ...
LEMMA ProcessOneLeaves ==
  ASSUME NEW w, Sound(w), NEW n \in Nations, NEW i, NEW priority,
         NEW u, Steady(w, u), Uncalled(w, n, i, u), NEW v \in ProcessOne(w, n, i, priority)
  PROVE  v.unit[u] = w.unit[u]
<1>1. IsWorld(w)
  BY PartsOf
<1>2. CASE v = w
  BY <1>2
<1>3. CASE v = del_action(w, n, i)
  BY <1>1, <1>3, QueueOnly
<1>4. ASSUME i \in DOMAIN Queue(w, n), IsDue(Queue(w, n)[i], priority),
             NEW r \in Handle(w, n, i), v = Settle(r.w, n, i, r.rc)
      PROVE  v.unit[u] = w.unit[u]
  <2> DEFINE a == Queue(w, n)[i]
  <2>1. a.action_mode \in Sailing => u \notin Called(w, n, a)
    BY <1>4 DEF CountOK, IsDue, Uncalled
  <2>2. u \in (Troops \cup Ships) \ Called(w, n, a)
    <3>1. a \in Records /\ u \in Troops \cup Ships /\ u \notin Generals
      BY <1>4, PartsOf, QueueAssumption DEF Steady
    <3> HIDE DEF a
    <3>2. a.action_mode \in {"assign", "worker", "travel3"} \cup Sailing
      BY <3>1 DEF Records, Modes, TravelModes, Sailing
    <3>3. CASE a.action_mode = "assign"
      BY <3>1, <3>3 DEF Called
    <3>4. CASE a.action_mode = "worker"
      BY <3>1, <3>4, QueueAssumption DEF Called, Steady
    <3>5. CASE a.action_mode = "travel3"
      BY <3>1, <3>5, QueueAssumption DEF Called, Steady
    <3> QED BY <2>1, <3>1, <3>2, <3>3, <3>4, <3>5
  <2>3. r.w.unit[u] = w.unit[u]
    BY <1>4, <2>2, HandleLeaves
  <2>4. IsWorld(r.w)
    BY <1>4, HandleIs, PartsOf DEF Handled
  <2> QED BY <1>4, <2>3, <2>4, QueueOnly
<1> QED BY <1>2, <1>3, <1>4 DEF ProcessOne

\* ... the queueing of an action that does not call them ...
LEMMA LinkLeaves ==
  ASSUME NEW w, Sound(w), NEW n \in Nations, NEW node \in Records, NEW immediate,
         NEW u, Steady(w, u), node.action_mode \in Sailing => u \notin Called(w, n, node),
         NEW r \in Link(w, n, node, immediate)
  PROVE  r.w.unit[u] = w.unit[u]
<1> DEFINE id == w.ai[n].last_action_id + 1
           a == [node EXCEPT !.action_id = id, !.retry_count = STD_ACTION_RETRY_COUNT, !.age = 0,
                             !.processing_instance_count = 0, !.processed_instance_count = 0]
           y == [w EXCEPT !.ai[n] = [action_array |-> Append(@.action_array, a),
                                     cur_pos |-> Len(@.action_array) + 1,
                                     last_action_id |-> id]]
           z == Linked(w, n, a)
<1>1. id \in Nat
  BY PartsOf DEF Queues
<1> HIDE DEF id
<1>2. /\ a \in Records /\ a.action_id = id /\ a.action_mode = node.action_mode
      /\ a.group = node.group /\ a.action_para2 = node.action_para2
  <2> DEFINE k == STD_ACTION_RETRY_COUNT
             b == [node EXCEPT !.action_id = id, !.retry_count = k]
  <2>1. k \in 0..k /\ 0 \in 0..(Overdue + 1) /\ 0 \in Nat
    BY QueueAssumption
  <2>2. a = [b EXCEPT !.age = 0, !.processing_instance_count = 0, !.processed_instance_count = 0]
    OBVIOUS
  <2>3. b = [node EXCEPT !.action_id = id, !.retry_count = k]
    OBVIOUS
  <2> HIDE DEF b, a
  <2>4. /\ b \in Records /\ b.action_id = id /\ b.action_mode = node.action_mode
        /\ b.group = node.group /\ b.action_para2 = node.action_para2
    BY <1>1, <2>1, <2>3 DEF Records
  <2>5. /\ a \in Records /\ a.action_id = b.action_id /\ a.action_mode = b.action_mode
        /\ a.group = b.group /\ a.action_para2 = b.action_para2
    BY <2>1, <2>2, <2>4 DEF Records
  <2> QED BY <2>4, <2>5
<1>3. y = z
  <2> HIDE DEF a
  <2> QED BY <1>2 DEF Linked
<1>4. \/ r = [w |-> y, recno |-> y.ai[n].cur_pos]
      \/ \E p \in ProcessOne(y, n, y.ai[n].cur_pos, TRUE) : r = [w |-> p, recno |-> p.ai[n].cur_pos]
  BY DEF Link, id
<1> HIDE DEF y, a
<1>5. r.w = z \/ r.w \in ProcessOne(z, n, z.ai[n].cur_pos, TRUE)
  <2>1. \/ r = [w |-> z, recno |-> z.ai[n].cur_pos]
        \/ \E p \in ProcessOne(z, n, z.ai[n].cur_pos, TRUE) : r = [w |-> p, recno |-> p.ai[n].cur_pos]
    BY ONLY <1>3, <1>4
  <2> HIDE DEF z
  <2>2. CASE r = [w |-> z, recno |-> z.ai[n].cur_pos]
    BY ONLY <2>2
  <2>3. ASSUME NEW p \in ProcessOne(z, n, z.ai[n].cur_pos, TRUE),
               r = [w |-> p, recno |-> p.ai[n].cur_pos]
        PROVE  r.w \in ProcessOne(z, n, z.ai[n].cur_pos, TRUE)
    <3>1. r.w = p
      BY ONLY <2>3
    <3> QED BY ONLY <2>3, <3>1
  <2> QED BY ONLY <2>1, <2>2, <2>3
<1>6. /\ z.unit = w.unit /\ z.ai[n].cur_pos = Len(Queue(w, n)) + 1
      /\ Queue(z, n)[Len(Queue(w, n)) + 1] = a
  BY <1>2, LinkedQueue
<1>7. Sound(z)
  <2>1. a.action_id = w.ai[n].last_action_id + 1
    BY <1>2 DEF id
  <2> QED BY <1>2, <2>1, LinkedIs DEF Linked
<1>8. u \notin Called(w, n, node) => u \notin Called(z, n, a)
  <2> HIDE DEF z
  <2>1. HasShip(z, n, a) <=> HasShip(w, n, node)
    BY <1>2, <1>6 DEF HasShip, is_deleted
  <2>2. node.action_mode \in Modes
    BY DEF Records
  <2> QED BY <1>2, <1>6, <2>1, <2>2 DEF Called, Modes, TravelModes
<1>9. ASSUME r.w \in ProcessOne(z, n, z.ai[n].cur_pos, TRUE) PROVE r.w.unit[u] = z.unit[u]
  <2> DEFINE i == z.ai[n].cur_pos
  <2>1. Steady(z, u) /\ Uncalled(z, n, i, u)
    BY <1>2, <1>6, <1>8 DEF Steady, Uncalled
  <2> HIDE DEF i, z
  <2>2. PICK t : t = TRUE
    OBVIOUS
  <2>3. r.w \in ProcessOne(z, n, i, t)
    BY <1>9, <2>2 DEF i
  <2> QED BY <1>7, <2>1, <2>3, ProcessOneLeaves
<1> QED BY <1>5, <1>6, <1>9

\* ... and its processing by the caller.
LEMMA LinkAndProcessLeaves ==
  ASSUME NEW w, Sound(w), NEW n \in Nations, NEW T, NEW low \in BOOLEAN, Works(w, n, T, low),
         NEW node, NodeOK(w, n, T, node),
         NEW u, Steady(w, u), node.action_mode \in Sailing => u \notin Called(w, n, node),
         NEW v \in LinkAndProcess(w, n, node)
  PROVE  v.unit[u] = w.unit[u]
<1>1. PICK r \in Link(w, n, node, TRUE) :
        v = r.w \/ v \in ProcessOne(r.w, n, r.recno, TRUE)
  BY DEF LinkAndProcess
<1> DEFINE x == r.w
<1>2. Acted(w, x, n, T, low)
  BY LinkWorks
<1>3. x.unit[u] = w.unit[u]
  <2>1. PICK t : t = TRUE
    OBVIOUS
  <2>2. r \in Link(w, n, node, t) /\ node \in Records
    BY <2>1 DEF NodeOK
  <2> QED BY <2>2, LinkLeaves
<1> HIDE DEF x
<1>4. ASSUME v \in ProcessOne(x, n, r.recno, TRUE) PROVE v.unit[u] = x.unit[u]
  <2>1. Sound(x) /\ Steady(x, u)
    BY <1>2, <1>3 DEF Acted, Steady
  <2>2. Uncalled(x, n, r.recno, u)
    BY <1>2 DEF Uncalled, Acted, Works, TaskOK, RecordOK
  <2>3. PICK t : t = TRUE
    OBVIOUS
  <2>4. v \in ProcessOne(x, n, r.recno, t)
    BY <1>4, <2>3
  <2> QED BY <2>1, <2>2, <2>4, ProcessOneLeaves
<1> QED BY <1>1, <1>3, <1>4 DEF x

\* get_action_based_on_id finds the record with the id, or there is none.
Finds(w, n, id, i) ==
  /\ i # 0 => i \in DOMAIN Queue(w, n) /\ Queue(w, n)[i].action_id = id
  /\ i = 0 => \A j \in DOMAIN Queue(w, n) : Queue(w, n)[j].action_id # id

\* So it is.
LEMMA RecnoIs ==
  ASSUME NEW w, Sound(w), NEW n \in Nations, NEW id, NEW i, i = RecnoOf(w, n, id)
  PROVE  Finds(w, n, id, i)
<1> DEFINE s == Queue(w, n)
           at == {x \in DOMAIN s : s[x].action_id = id}
<1>1. /\ DOMAIN s = 1..Len(s) /\ Len(s) \in Nat
      /\ \A x, y \in 1..Len(s) : s[x].action_id = s[y].action_id => x = y
  BY PartsOf DEF QueueOK, Queue
<1> HIDE DEF s
<1>2. i = IF at = {} THEN 0 ELSE CHOOSE x \in at : \A j \in at : j <= x
  BY DEF RecnoOf, s
<1>3. CASE at = {}
  BY <1>2, <1>3 DEF s, Finds
<1>4. CASE at # {}
  <2>1. PICK k \in at : TRUE
    BY <1>4
  <2>2. \A j \in at : j = k
    BY <1>1, <2>1
  <2>3. k <= k
    BY <1>1, <2>1
  <2>4. \A j \in at : j <= k
    BY <2>2, <2>3
  <2>5. at \subseteq DOMAIN s /\ (\A x \in at : s[x].action_id = id) /\ 0 \notin at
    BY <1>1
  <2> HIDE DEF at
  <2>6. (CHOOSE x \in at : \A j \in at : j <= x) \in at
    BY <2>1, <2>4
  <2> QED BY <1>2, <1>4, <2>5, <2>6 DEF s, Finds
<1> QED BY <1>3, <1>4

\* Only u of the nation n has changed: it has stopped or died, or works on.
Stopping(g, h, n, u) ==
  /\ \A x \in Units : x # u => h[x] = g[x]
  /\ g[u].nation_recno = n /\ h[u].nation_recno = n /\ g[u].state # "dead"
  /\ h[u].state = "dead" \/ h[u].ai_action_id \in {0, g[u].ai_action_id}

\* The actions it does not work for stay in order ...
LEMMA OtherTasks ==
  ASSUME NEW w, Sound(w), NEW n \in Nations, NEW T, NEW low \in BOOLEAN, Works(w, n, T, low),
         NEW u \in Units, NEW h, Stopping(w.unit, h, n, u),
         NEW j \in DOMAIN Queue(w, n), Queue(w, n)[j].action_id # w.unit[u].ai_action_id
  PROVE  TaskOK(h, n, T, low, Queue(w, n)[j])
<1> DEFINE c == Queue(w, n)[j]
           g == w.unit
<1>1. RecordOK(g, n, low, c) /\ c.unit_recno \in T \cup {None}
  BY DEF Works, TaskOK
<1>2. c \in Records /\ c.action_id # 0 /\ c.action_id # g[u].ai_action_id
  BY IdIs
<1> HIDE DEF c, g
<1>3. /\ \A x \in Units : x # u => h[x] = g[x]
      /\ g[u].nation_recno = n /\ h[u].nation_recno = n /\ g[u].state # "dead"
      /\ h[u].state = "dead" \/ h[u].ai_action_id \in {0, g[u].ai_action_id}
  BY DEF Stopping, g
<1>4. h[u].state = "dead" \/ h[u].ai_action_id # c.action_id
  BY <1>2, <1>3
<1>5. RecordOK(h, n, low, c)
  BY <1>1, <1>2, <1>3, <1>4, Elsewhere
<1> QED BY <1>1, <1>5 DEF TaskOK, c

\* ... and so do ids and nations.
LEMMA StoppingIds ==
  ASSUME NEW w, Sound(w), NEW n \in Nations, NEW T, NEW low, Works(w, n, T, low),
         NEW u \in Units, NEW v, Stopping(w.unit, v.unit, n, u),
         v.ai[n].last_action_id = w.ai[n].last_action_id
  PROVE  IdsOK(v, n) /\ OwnIn(v, n, T)
<1>1. w.ai[n].last_action_id \in Nat
  BY PartsOf DEF Queues
<1>2. 0 <= w.ai[n].last_action_id
  BY <1>1
<1>3. IdsOK(v, n)
  <2> SUFFICES ASSUME NEW x \in Units, v.unit[x].nation_recno = n, v.unit[x].state # "dead"
               PROVE  v.unit[x].ai_action_id <= v.ai[n].last_action_id
    BY DEF IdsOK
  <2>1. CASE x = u
    BY <1>2, <2>1 DEF Stopping, Works, IdsOK
  <2>2. CASE x # u
    BY <2>2 DEF Stopping, Works, IdsOK
  <2> QED BY <2>1, <2>2
<1>4. OwnIn(v, n, T)
  BY DEF OwnIn, Works, Stopping
<1> QED BY <1>3, <1>4

\* What a report makes of the record and of the world, the units of report and record being known.
Waits(w, u, a) == a.action_mode = "travel" /\ u \in Ships /\ ~is_deleted(w, u)
Report(w, u, a) ==
  [a EXCEPT !.processed_instance_count = @ + 1,
            !.action_para2 = IF Waits(w, u, a) THEN u ELSE @]
Stopped(w, u, n, i, a) ==
  IF Waits(w, u, a) THEN KeepsDoing(Noted(w, n, i, Report(w, u, a)), u, "idle")
                    ELSE stop_unit_action(Noted(w, n, i, Report(w, u, a)), u)

\* The record counts the report.
LEMMA ReportIs ==
  ASSUME NEW w, NEW u \in Units, NEW a \in Records, NEW b, b = Report(w, u, a)
  PROVE  /\ b \in Records /\ b.action_mode = a.action_mode /\ b.action_id = a.action_id
         /\ b.instance_count = a.instance_count /\ b.retry_count = a.retry_count
         /\ b.processing_instance_count = a.processing_instance_count
         /\ b.processed_instance_count = a.processed_instance_count + 1
         /\ b.unit_recno = a.unit_recno
         /\ b.action_para2 = IF Waits(w, u, a) THEN u ELSE a.action_para2
<1> DEFINE p == a.processed_instance_count + 1
           q == IF Waits(w, u, a) THEN u ELSE a.action_para2
<1>1. p \in Nat /\ q \in Units \cup {None}
  BY DEF Records
<1>2. b = [a EXCEPT !.processed_instance_count = p, !.action_para2 = q]
  BY DEF Report
<1> HIDE DEF p, q
<1>3. /\ b \in Records /\ b.action_mode = a.action_mode /\ b.action_id = a.action_id
      /\ b.instance_count = a.instance_count /\ b.retry_count = a.retry_count
      /\ b.processing_instance_count = a.processing_instance_count
      /\ b.processed_instance_count = p /\ b.unit_recno = a.unit_recno /\ b.action_para2 = q
  BY <1>1, <1>2 DEF Records
<1> QED BY <1>3 DEF p, q

\* The unit stops, or waits with its ship, or is dead.
HasStopped(w, y, u, n, i, a) ==
  /\ Sound(y) /\ Apart(w, y, n) /\ Replaced(w, y, n, i, Report(w, u, a))
  /\ \A x \in Units : x # u => y.unit[x] = w.unit[x]
  /\ y.unit[u].nation_recno = n
  /\ y.unit[u].state = "dead" <=> w.unit[u].state = "dead"
  /\ Waits(w, u, a) => /\ y.unit[u].ai_action_id = w.unit[u].ai_action_id
                       /\ y.unit[u].state = "idle"
  /\ ~Waits(w, u, a) /\ w.unit[u].state = "dead" => y.unit[u] = w.unit[u]
  /\ ~Waits(w, u, a) /\ w.unit[u].state # "dead" =>
       /\ y.unit[u].ai_action_id = 0
       /\ y.unit[u].state = IF w.unit[u].state = "aboard" THEN "aboard" ELSE "idle"

\* After the report of a unit the actions of its nation are in order.
LEMMA StoppedWorks ==
  ASSUME NEW w, Sound(w), NEW u \in Units, NEW n \in Nations, w.unit[u].nation_recno = n,
         w.unit[u].ai_action_id # 0, NEW i \in DOMAIN Queue(w, n),
         NEW a, a = Queue(w, n)[i], NEW y, y = Stopped(w, u, n, i, a)
  PROVE  HasStopped(w, y, u, n, i, a)
<1> DEFINE b == Report(w, u, a)
           z == Noted(w, n, i, b)
           k == w.unit[u].ai_action_id
<1>1. a \in Records /\ w.unit[u] \in UnitRecords
  BY PartsOf
<1>2. b \in Records /\ b.action_id = a.action_id
  BY <1>1, ReportIs
<1> HIDE DEF b
<1>3. Sound(z) /\ z.unit = w.unit /\ Apart(w, z, n) /\ Replaced(w, z, n, i, b)
  BY <1>2, NotedIs
<1>4. w.unit[u].state \notin {"inside", "training"} /\ k \in Nat
  BY <1>1 DEF Sound, UnitsOK, Within, UnitRecords
<1> HIDE DEF z, k
<1>5. ASSUME NEW x, Sound(x), x.ai = z.ai PROVE Apart(w, x, n) /\ Replaced(w, x, n, i, b)
  BY <1>3, <1>5 DEF Apart, Replaced, Queue
<1>6. ASSUME NEW state \in {"idle", "aboard"}, NEW id \in {0, k}
      PROVE  /\ Sound(Doing(z, u, state, id)) /\ Doing(z, u, state, id).ai = z.ai
             /\ Doing(z, u, state, id).unit[u].nation_recno = n
             /\ Doing(z, u, state, id).unit[u].ai_action_id = id
             /\ Doing(z, u, state, id).unit[u].state = state
             /\ \A x \in Units : x # u => Doing(z, u, state, id).unit[x] = w.unit[x]
  <2>1. state \in States \ {"inside", "training"} /\ id \in Nat /\ z.unit[u].state # "training"
    BY <1>3, <1>4 DEF States
  <2> DEFINE x == Doing(z, u, state, id)
  <2>2. Sound(x) /\ x.ai = z.ai
    BY <1>3, <2>1, OutsideDoing
  <2>3. /\ x.unit[u].nation_recno = z.unit[u].nation_recno
        /\ x.unit[u].ai_action_id = id /\ x.unit[u].state = state
        /\ \A t \in Units : t # u => x.unit[t] = z.unit[t]
    BY <1>3, DoingUnits
  <2> HIDE DEF x
  <2>4. x.unit[u].nation_recno = n /\ \A t \in Units : t # u => x.unit[t] = w.unit[t]
    BY <1>3, <2>3
  <2> QED BY <2>2, <2>3, <2>4 DEF x
<1>7. CASE Waits(w, u, a)
  <2>1. y = Doing(z, u, "idle", k)
    <3>1. y = KeepsDoing(z, u, "idle")
      BY <1>7 DEF Stopped, z, b
    <3> QED BY <1>3, <3>1 DEF KeepsDoing, k
  <2>2. w.unit[u].state # "dead"
    BY <1>7 DEF Waits, is_deleted
  <2>3. Sound(y) /\ y.ai = z.ai /\ y.unit[u].nation_recno = n /\ y.unit[u].ai_action_id = k
        /\ y.unit[u].state = "idle" /\ \A x \in Units : x # u => y.unit[x] = w.unit[x]
    BY <1>6, <2>1
  <2> QED BY <1>5, <1>7, <2>2, <2>3 DEF k, b, HasStopped
<1>8. CASE ~Waits(w, u, a) /\ w.unit[u].state = "dead"
  <2>1. y = z
    BY <1>3, <1>8 DEF Stopped, z, b, stop_unit_action, is_deleted
  <2> QED BY <1>3, <1>8, <2>1 DEF b, HasStopped
<1>9. CASE ~Waits(w, u, a) /\ w.unit[u].state # "dead"
  <2> DEFINE state == IF w.unit[u].state = "aboard" THEN "aboard" ELSE "idle"
  <2>1. y = Doing(z, u, state, 0)
    <3>1. y = stop_unit_action(z, u)
      BY <1>9 DEF Stopped, z, b
    <3>2. ~is_deleted(z, u)
      BY <1>3, <1>4, <1>9 DEF is_deleted
    <3> QED BY <1>3, <3>1, <3>2 DEF stop_unit_action
  <2>2. state \in {"idle", "aboard"} /\ state # "dead"
    OBVIOUS
  <2> HIDE DEF state
  <2>3. Sound(y) /\ y.ai = z.ai /\ y.unit[u].nation_recno = n /\ y.unit[u].ai_action_id = 0
        /\ y.unit[u].state = state /\ \A x \in Units : x # u => y.unit[x] = w.unit[x]
    BY <1>6, <2>1, <2>2
  <2> QED BY <1>5, <1>9, <2>2, <2>3 DEF b, state, HasStopped
<1> QED BY <1>7, <1>8, <1>9

\* A unit of the nation n reports: in w it may have died, in w0 it works.
Reports(w0, w, n, u) ==
  /\ Sound(w0) /\ Sound(w) /\ w.ai = w0.ai
  /\ w0.unit[u].nation_recno = n /\ w0.unit[u].state # "dead"
  /\ w.unit[u].ai_action_id = w0.unit[u].ai_action_id
  /\ \/ w = w0
     \/ /\ w.unit[u].state = "dead" /\ w.unit[u].nation_recno = n
        /\ \A x \in Units : x # u => w.unit[x] = w0.unit[x]

\* It reports to the i-th action, whose record a becomes b in y.
ReportsTo(w, n, u, i, a, b, y) ==
  /\ i \in DOMAIN Queue(w, n) /\ a = Queue(w, n)[i]
  /\ w.unit[u].ai_action_id # 0 /\ a.action_id = w.unit[u].ai_action_id
  /\ ~IsSecondReport(w, a, u)
  /\ b = Report(w, u, a) /\ y = Stopped(w, u, n, i, a)

\* The record of a report, if it is not deleted, is in order after it, and so are the others.
LEMMA StoppedTasks ==
  ASSUME NEW n \in Nations, NEW u \in Units, NEW w0, NEW w, Reports(w0, w, n, u),
         NEW T, NEW low \in BOOLEAN, Works(w0, n, T, low), Others(w0, n, 0),
         NEW i, NEW a, NEW b, NEW y, ReportsTo(w, n, u, i, a, b, y)
  PROVE  /\ Sound(y) /\ Apart(w, y, n) /\ Replaced(w, y, n, i, b) /\ Calm(w.unit, y.unit, n, T)
         /\ Stopping(w0.unit, y.unit, n, u)
         /\ \A j \in DOMAIN Queue(w, n) : j # i => TaskOK(y.unit, n, T, low, Queue(w, n)[j])
         /\ IdsOK(y, n) /\ OwnIn(y, n, T)
         /\ a.action_mode \in Sailing \/ ~AllDone(b) => TaskOK(y.unit, n, T, low, b)
<1> DEFINE k == w.unit[u].ai_action_id
           g == w0.unit
           h == y.unit
<1> USE DEF ReportsTo
<1>1. /\ Sound(w) /\ Sound(w0) /\ w.ai = w0.ai /\ w.unit[u].nation_recno = n
      /\ g[u].ai_action_id = k /\ g[u].nation_recno = n /\ g[u].state # "dead"
      /\ \A x \in Units : x # u => w.unit[x] = g[x]
      /\ w.unit[u].state # "dead" => w = w0
  BY DEF Reports
<1>2. Queue(w, n) = Queue(w0, n) /\ w.ai[n].last_action_id = w0.ai[n].last_action_id
  BY <1>1 DEF Queue
<1>3. a \in Records /\ k \in Nat
  BY <1>1, PartsOf DEF UnitRecords
<1>4. /\ b \in Records /\ b.action_mode = a.action_mode /\ b.action_id = a.action_id
      /\ b.instance_count = a.instance_count /\ b.retry_count = a.retry_count
      /\ b.processing_instance_count = a.processing_instance_count
      /\ b.processed_instance_count = a.processed_instance_count + 1
      /\ b.unit_recno = a.unit_recno
      /\ b.action_para2 = IF Waits(w, u, a) THEN u ELSE a.action_para2
  BY <1>3, ReportIs
<1>5. /\ Sound(y) /\ Apart(w, y, n) /\ Replaced(w, y, n, i, b)
      /\ \A x \in Units : x # u => h[x] = w.unit[x]
      /\ h[u].nation_recno = n
      /\ h[u].state = "dead" <=> w.unit[u].state = "dead"
      /\ Waits(w, u, a) => h[u].ai_action_id = k /\ h[u].state = "idle"
      /\ ~Waits(w, u, a) /\ w.unit[u].state = "dead" => h[u] = w.unit[u]
      /\ ~Waits(w, u, a) /\ w.unit[u].state # "dead" => h[u].ai_action_id = 0
  <2>1. HasStopped(w, y, u, n, i, a)
    BY <1>1, StoppedWorks
  <2> QED BY <2>1 DEF HasStopped
<1>6. w.unit[u].state \notin {"inside", "training"}
  BY <1>1 DEF Sound, UnitsOK, Within
<1>7. ~Waits(w, u, a) /\ a.action_mode = "travel" /\ u \in Ships => h[u].state = "dead"
  BY <1>5, <1>6 DEF Waits, is_deleted
<1> HIDE DEF k
<1>8. Stopping(g, h, n, u)
  <2>1. h[u].state = "dead" \/ h[u].ai_action_id \in {0, k}
    BY <1>5
  <2> QED BY <1>1, <1>5, <2>1 DEF Stopping
<1>9. \A j \in DOMAIN Queue(w, n) : j # i => TaskOK(h, n, T, low, Queue(w, n)[j])
  <2> SUFFICES ASSUME NEW j \in DOMAIN Queue(w, n), j # i
               PROVE  TaskOK(h, n, T, low, Queue(w, n)[j])
    OBVIOUS
  <2>1. Queue(w, n)[j].action_id # k
    <3> DEFINE s == Queue(w, n)
    <3>1. DOMAIN s = 1..Len(s) /\ \A x, z \in 1..Len(s) : s[x].action_id = s[z].action_id => x = z
      BY <1>1, PartsOf DEF QueueOK, Queue
    <3>2. s[i].action_id = k
      BY DEF k
    <3> HIDE DEF s
    <3>3. i \in DOMAIN s /\ j \in DOMAIN s
      BY DEF s
    <3>4. s[j].action_id # k
      BY <3>1, <3>2, <3>3
    <3> QED BY <3>4 DEF s
  <2>2. j \in DOMAIN Queue(w0, n) /\ Queue(w0, n)[j].action_id # g[u].ai_action_id
    BY <1>1, <1>2, <2>1
  <2> HIDE DEF h
  <2>3. TaskOK(h, n, T, low, Queue(w0, n)[j])
    BY <1>1, <1>8, <2>2, OtherTasks
  <2> QED BY <1>2, <2>3
<1>10. IdsOK(y, n) /\ OwnIn(y, n, T)
  <2>1. y.ai[n].last_action_id = w0.ai[n].last_action_id
    BY <1>2, <1>5 DEF Replaced
  <2> QED BY <1>1, <1>8, <2>1, StoppingIds
<1>11. Calm(w.unit, h, n, T)
  BY <1>1, <1>5 DEF Calm
<1>12. ASSUME a.action_mode \in Sailing \/ ~AllDone(b) PROVE TaskOK(h, n, T, low, b)
  <2>1. RecordOK(g, n, low, a) /\ a.unit_recno \in T \cup {None} /\ Undone(a)
    <3>1. i \in DOMAIN Queue(w0, n) /\ a = Queue(w0, n)[i] /\ i # 0
      BY <1>1, <1>2, PartsOf
    <3> QED BY <3>1 DEF Works, TaskOK, Others
  <2>2. u \in Holders(g, n, a.action_id)
    BY <1>1 DEF Holders, k
  <2>3. \A x \in Units : x # u => h[x] = g[x]
    BY <1>1, <1>5
  <2>4. \/ /\ a.action_mode = "travel" /\ u \in Ships
           /\ a.action_para2 = None /\ b.action_para2 = u
           /\ h[u].ai_action_id = a.action_id /\ h[u].state \notin {"dead", "aboard"}
        \/ /\ b.action_para2 = a.action_para2
           /\ h[u].state = "dead" \/ h[u].ai_action_id # a.action_id
           /\ a.action_mode = "travel" /\ a.action_para2 = u => h[u].state = "dead"
    <3>1. CASE Waits(w, u, a)
      <4>1. a.action_para2 = None
        BY <3>1 DEF Waits, IsSecondReport
      <4>2. /\ a.action_mode = "travel" /\ u \in Ships /\ b.action_para2 = u
            /\ h[u].ai_action_id = a.action_id /\ h[u].state \notin {"dead", "aboard"}
        BY <1>4, <1>5, <3>1 DEF Waits, k
      <4> QED BY <4>1, <4>2
    <3>2. CASE ~Waits(w, u, a)
      <4>1. b.action_para2 = a.action_para2
        BY <1>4, <3>2
      <4>2. h[u].state = "dead" \/ h[u].ai_action_id # a.action_id
        BY <1>5, <3>2
      <4>3. a.action_mode = "travel" /\ a.action_para2 = u => u \in Ships
        <5>1. u # None
          BY QueueAssumption
        <5> QED BY <2>1, <5>1 DEF RecordOK, ShipOK
      <4>4. a.action_mode = "travel" /\ a.action_para2 = u => h[u].state = "dead"
        BY <1>7, <3>2, <4>3
      <4> QED BY <4>1, <4>2, <4>4
    <3> QED BY <3>1, <3>2
  <2>5. a.action_mode = "travel" => a.processed_instance_count < a.instance_count
    BY <2>1 DEF Undone
  <2> HIDE DEF g, h
  <2>6. h[u].nation_recno = n
    BY <1>5
  <2>7. RecordOK(h, n, low, b)
    BY <1>3, <1>4, <1>12, <2>1, <2>2, <2>3, <2>4, <2>5, <2>6, Reported
  <2> QED BY <1>4, <2>1, <2>7 DEF TaskOK
<1> QED BY <1>5, <1>8, <1>9, <1>10, <1>11, <1>12

\* The ship of a travel that is over works for it, ...
LEMMA ShipWorks ==
  ASSUME NEW n \in Nations, NEW u \in Units, NEW w0, NEW w, Reports(w0, w, n, u),
         NEW T, NEW low \in BOOLEAN, Works(w0, n, T, low), Others(w0, n, 0),
         NEW i, NEW a, NEW b, NEW y, ReportsTo(w, n, u, i, a, b, y),
         a.action_mode = "travel", HasShip(y, n, b)
  PROVE  /\ b.action_para2 \in Ships /\ y.unit[b.action_para2].nation_recno = n
         /\ y.unit[b.action_para2].ai_action_id = w.unit[u].ai_action_id
<1> DEFINE k == w.unit[u].ai_action_id
           g == w0.unit
           h == y.unit
           s == b.action_para2
<1> USE DEF ReportsTo
<1>1. /\ Sound(w) /\ Sound(w0) /\ w.ai = w0.ai /\ w.unit[u].nation_recno = n
      /\ g[u].ai_action_id = k /\ g[u].nation_recno = n /\ g[u].state # "dead"
      /\ \A x \in Units : x # u => w.unit[x] = g[x]
      /\ w.unit[u].state # "dead" => w = w0
  BY DEF Reports
<1>2. Queue(w, n) = Queue(w0, n) /\ a \in Records
  BY <1>1, PartsOf DEF Queue
<1>3. b.action_para2 = IF Waits(w, u, a) THEN u ELSE a.action_para2
  BY <1>2, ReportIs
<1>4. /\ \A x \in Units : x # u => y.unit[x] = w.unit[x]
      /\ Waits(w, u, a) => y.unit[u].ai_action_id = w.unit[u].ai_action_id
      /\ y.unit[u].state = "dead" <=> w.unit[u].state = "dead"
  <2>1. HasStopped(w, y, u, n, i, a)
    BY <1>1, StoppedWorks
  <2> QED BY <2>1 DEF HasStopped
<1>5. RecordOK(g, n, low, a) /\ Undone(a)
  <2>1. i \in DOMAIN Queue(w0, n) /\ a = Queue(w0, n)[i] /\ i # 0
    BY <1>1, <1>2, PartsOf
  <2> QED BY <2>1 DEF Works, TaskOK, Others
<1>6. s \in Ships /\ s \in Units /\ h[s].state # "dead" /\ h[s].nation_recno = n
  BY DEF HasShip, is_deleted, Units
<1>7. CASE Waits(w, u, a)
  BY <1>3, <1>4, <1>6, <1>7
<1>8. CASE ~Waits(w, u, a)
  <2>1. s = a.action_para2 /\ s # None
    BY <1>3, <1>6, <1>8, QueueAssumption
  <2>2. s # u
    <3> SUFFICES ASSUME s = u PROVE FALSE
      OBVIOUS
    <3>1. w.unit[u].state # "dead" /\ w.unit[u].state \notin {"inside", "training"}
      BY <1>1, <1>4, <1>6 DEF Sound, UnitsOK, Within
    <3> QED BY <1>6, <1>8, <3>1 DEF Waits, is_deleted
  <2>3. h[s] = g[s]
    BY <1>1, <1>4, <1>6, <2>2
  <2>4. g[s].nation_recno = n /\ g[s].state # "dead"
    BY <1>6, <2>3
  <2>5. a.processed_instance_count < a.instance_count
    BY <1>5 DEF Undone
  <2>6. g[s].ai_action_id = a.action_id
    BY <1>5, <2>1, <2>4, <2>5 DEF RecordOK, ShipOK
  <2> QED BY <1>6, <2>3, <2>6
<1> QED BY <1>7, <1>8

\* ... and for no other action that still waits for it.
LEMMA ShipSpared ==
  ASSUME NEW n \in Nations, NEW u \in Units, NEW w0, NEW w, Reports(w0, w, n, u),
         NEW T, NEW low \in BOOLEAN, Works(w0, n, T, low), Others(w0, n, 0),
         NEW i, NEW a, NEW b, NEW y, ReportsTo(w, n, u, i, a, b, y),
         AllDone(b), a.action_mode = "travel", HasShip(y, n, b),
         NEW j \in DOMAIN Queue(y, n)
  PROVE  Spared(y.unit, n, {b.action_para2}, Queue(y, n)[j])
<1> DEFINE k == w.unit[u].ai_action_id
           h == y.unit
           s == b.action_para2
           c == Queue(y, n)[j]
<1> USE DEF ReportsTo
<1>1. Sound(w) /\ Sound(w0) /\ w.ai = w0.ai /\ w.unit[u].nation_recno = n
  BY DEF Reports
<1>2. Queue(w, n) = Queue(w0, n) /\ a \in Records
  BY <1>1, PartsOf DEF Queue
<1>3. /\ b.action_mode = a.action_mode
      /\ b.instance_count = a.instance_count /\ b.retry_count = a.retry_count
      /\ b.processing_instance_count = a.processing_instance_count
      /\ b.processed_instance_count = a.processed_instance_count + 1
  BY <1>2, ReportIs
<1>4. Sound(y) /\ Replaced(w, y, n, i, Report(w, u, a))
  <2>1. HasStopped(w, y, u, n, i, a)
    BY <1>1, StoppedWorks
  <2> QED BY <2>1 DEF HasStopped
<1>5. RecordOK(w0.unit, n, low, a)
  <2>1. i \in DOMAIN Queue(w0, n) /\ a = Queue(w0, n)[i]
    BY <1>1, <1>2
  <2> QED BY <2>1 DEF Works, TaskOK
<1>6. CASE j = i
  <2>1. c = b
    <3>1. DOMAIN Queue(w, n) = 1..Len(Queue(w, n))
      BY <1>1, PartsOf
    <3> QED BY <1>4, <1>6, <3>1 DEF Replaced
  <2>2. b.processed_instance_count >= b.instance_count
    BY <1>3, <1>5 DEF AllDone, RecordOK, CountOK, Sailing
  <2> QED BY <2>1, <2>2 DEF Spared
<1>7. CASE j # i
  <2>1. c.action_id # k
    <3> DEFINE q == Queue(w, n)
               r == Queue(y, n)
    <3>1. DOMAIN q = 1..Len(q) /\ \A x, z \in 1..Len(q) : q[x].action_id = q[z].action_id => x = z
      <4>1. DOMAIN q = 1..Len(q) /\ QueueOK(w.ai[n])
        BY <1>1, PartsOf
      <4> QED BY <4>1 DEF QueueOK, Queue
    <3>2. DOMAIN r = 1..Len(r) /\ Len(r) = Len(q)
          /\ \A x \in 1..Len(q) : x # i => r[x] = q[x]
      BY <1>4, PartsOf DEF Replaced
    <3>3. q[i].action_id = k /\ i \in DOMAIN q /\ j \in DOMAIN r
      OBVIOUS
    <3> HIDE DEF q, r, k
    <3>4. j \in DOMAIN q /\ r[j].action_id # k
      BY <1>7, <3>1, <3>2, <3>3
    <3> QED BY <3>4 DEF r
  <2>2. h[s].ai_action_id = k
    BY ShipWorks
  <2> HIDE DEF k, c, h
  <2>3. s \notin Holders(h, n, c.action_id)
    BY <2>1, <2>2 DEF Holders
  <2> QED BY <2>3 DEF Spared, c, h
<1> QED BY <1>6, <1>7

\* A unit reports: its nation's actions are in order, and who was on his way works for none.
LEMMA FinishedWorks ==
  ASSUME NEW n \in Nations, NEW u \in Units, NEW w0, NEW w, Reports(w0, w, n, u),
         NEW T, NEW low \in BOOLEAN, Works(w0, n, T, low), Others(w0, n, 0),
         NEW v \in action_finished(w, u)
  PROVE  /\ Acted(w, v, n, T, low) /\ Others(v, n, 0)
         /\ u \notin Ships /\ w.unit[u].state \in {"idle", "ordered", "boarding"}
              => v.unit[u].ai_action_id = 0
<1> DEFINE k == w.unit[u].ai_action_id
           i == RecnoOf(w, n, k)
           a == Queue(w, n)[i]
           b == Report(w, u, a)
           y == Stopped(w, u, n, i, a)
           Free(x) == u \notin Ships /\ w.unit[u].state \in {"idle", "ordered", "boarding"}
                        => x.unit[u].ai_action_id = 0
<1>1. /\ Sound(w) /\ Sound(w0) /\ w.ai = w0.ai /\ w.unit[u].nation_recno = n
      /\ w0.unit[u].ai_action_id = k /\ w0.unit[u].nation_recno = n
      /\ w0.unit[u].state # "dead" /\ w.unit[u] \in UnitRecords
      /\ \A x \in Units : x # u => w.unit[x] = w0.unit[x]
      /\ w.unit[u].state # "dead" => w = w0
  BY PartsOf DEF Reports
<1>2. Queue(w, n) = Queue(w0, n) /\ w.ai[n].last_action_id = w0.ai[n].last_action_id
      /\ Others(w, n, 0)
  BY <1>1 DEF Queue, Others
<1>3. ASSUME NEW x, Sound(x), x.ai = w.ai, Stopping(w0.unit, x.unit, n, u),
             \A j \in DOMAIN Queue(w, n) : Queue(w, n)[j].action_id # k
      PROVE  Works(x, n, T, low)
  <2>1. x.ai[n].last_action_id = w0.ai[n].last_action_id /\ Queue(x, n) = Queue(w0, n)
    BY <1>1, <1>3 DEF Queue
  <2>2. IdsOK(x, n) /\ OwnIn(x, n, T)
    BY <1>1, <1>3, <2>1, StoppingIds
  <2>3. ASSUME NEW j \in DOMAIN Queue(w0, n)
        PROVE  TaskOK(x.unit, n, T, low, Queue(w0, n)[j])
    <3> DEFINE h == x.unit
    <3>1. Stopping(w0.unit, h, n, u) /\ Queue(w0, n)[j].action_id # w0.unit[u].ai_action_id
      BY <1>1, <1>2, <1>3
    <3> HIDE DEF h
    <3>2. TaskOK(h, n, T, low, Queue(w0, n)[j])
      BY <1>1, <3>1, OtherTasks
    <3> QED BY <3>2 DEF h
  <2> QED BY <2>1, <2>2, <2>3 DEF Works
<1>4. Stopping(w0.unit, w.unit, n, u)
  BY <1>1 DEF Stopping
<1>5. CASE k = 0
  <2>1. v = w
    BY <1>5 DEF action_finished
  <2>2. \A j \in DOMAIN Queue(w, n) : Queue(w, n)[j].action_id # k
    BY <1>1, <1>5, IdIs
  <2>3. Works(w, n, T, low)
    BY <1>1, <1>3, <1>4, <2>2
  <2> QED BY <1>1, <1>2, <1>5, <2>1, <2>3, CalmSelf DEF Acted, Apart
<1>6. CASE k # 0 /\ i = 0
  <2>1. v = stop_unit_action(w, u)
    BY <1>1, <1>6 DEF action_finished
  <2>2. \A j \in DOMAIN Queue(w, n) : Queue(w, n)[j].action_id # k
    <3> DEFINE e == i
    <3>1. e = RecnoOf(w, n, k) /\ e = 0
      BY <1>6
    <3> HIDE DEF e, k
    <3>2. Finds(w, n, k, e)
      BY <1>1, <3>1, RecnoIs
    <3> QED BY <3>1, <3>2 DEF Finds
  <2>3. /\ Sound(v) /\ v.ai = w.ai /\ Stopping(w0.unit, v.unit, n, u)
        /\ Calm(w.unit, v.unit, n, T) /\ Free(v)
    <3>1. CASE is_deleted(w, u)
      <4>1. v = w
        BY <2>1, <3>1 DEF stop_unit_action
      <4>2. w.unit[u].state \notin {"idle", "ordered", "boarding"}
        BY <3>1 DEF is_deleted
      <4> QED BY <1>1, <1>4, <4>1, <4>2, CalmSelf
    <3>2. CASE ~is_deleted(w, u)
      <4> DEFINE state == IF w.unit[u].state = "aboard" THEN "aboard" ELSE "idle"
      <4>1. v = Doing(w, u, state, 0)
        BY <2>1, <3>2 DEF stop_unit_action
      <4>2. state \in States \ {"inside", "training"} /\ state # "dead"
        BY DEF States
      <4> HIDE DEF state
      <4>3. w.unit[u].state \notin {"inside", "training"} /\ w.unit[u].state # "dead"
        BY <1>1, <1>6, <3>2 DEF Sound, UnitsOK, Within, is_deleted
      <4>4. Sound(v) /\ v.ai = w.ai
        BY <1>1, <4>1, <4>2, <4>3, OutsideDoing
      <4>5. /\ v.unit[u].nation_recno = w.unit[u].nation_recno
            /\ v.unit[u].ai_action_id = 0 /\ v.unit[u].state = state
            /\ \A x \in Units : x # u => v.unit[x] = w.unit[x]
        BY <1>1, <4>1, DoingUnits
      <4>6. Stopping(w0.unit, v.unit, n, u)
        BY <1>1, <4>5 DEF Stopping
      <4>7. Calm(w.unit, v.unit, n, T)
        BY <1>1, <4>2, <4>3, <4>5 DEF Calm
      <4> QED BY <4>4, <4>5, <4>6, <4>7
    <3> QED BY <3>1, <3>2
  <2>4. Works(v, n, T, low)
    BY <1>3, <2>2, <2>3
  <2>5. Others(v, n, 0) /\ Apart(w, v, n)
    BY <1>2, <2>3 DEF Others, Queue, Apart
  <2> QED BY <2>3, <2>4, <2>5 DEF Acted
<1>7. CASE k # 0 /\ i # 0 /\ IsSecondReport(w, a, u)
  <2>1. v = w
    BY <1>1, <1>7 DEF action_finished
  <2>2. w = w0 /\ u \in Ships
    BY <1>1, <1>7 DEF IsSecondReport, is_deleted
  <2> QED BY <1>1, <1>2, <2>1, <2>2, CalmSelf DEF Acted, Apart
<1>8. CASE k # 0 /\ i # 0 /\ ~IsSecondReport(w, a, u)
  <2>1. i \in DOMAIN Queue(w, n) /\ a.action_id = k
    <3> DEFINE e == i
    <3>1. e = RecnoOf(w, n, k) /\ e # 0
      BY <1>8
    <3> HIDE DEF e, k
    <3>2. Finds(w, n, k, e)
      BY <1>1, <3>1, RecnoIs
    <3>3. e \in DOMAIN Queue(w, n) /\ Queue(w, n)[e].action_id = k
      BY <3>1, <3>2 DEF Finds
    <3> QED BY <3>3 DEF e
  <2>2. v \in IF AllDone(b) THEN {del_action(x, n, i) : x \in auto_next_action(y, n, b)} ELSE {y}
    BY <1>1, <1>8 DEF action_finished, Report, Stopped, Waits
  <2> HIDE DEF i
  <2>3. a \in Records
    BY <1>1, <2>1, PartsOf
  <2> HIDE DEF a
  <2>4. k # 0 /\ a = Queue(w, n)[i] /\ ~IsSecondReport(w, a, u)
    BY <1>8 DEF a
  <2>4a. ReportsTo(w, n, u, i, a, b, y)
    BY <2>1, <2>4 DEF ReportsTo
  <2>5. /\ Sound(y) /\ Apart(w, y, n) /\ Replaced(w, y, n, i, b) /\ Calm(w.unit, y.unit, n, T)
        /\ Stopping(w0.unit, y.unit, n, u)
        /\ \A j \in DOMAIN Queue(w, n) : j # i => TaskOK(y.unit, n, T, low, Queue(w, n)[j])
        /\ IdsOK(y, n) /\ OwnIn(y, n, T)
        /\ a.action_mode \in Sailing \/ ~AllDone(b) => TaskOK(y.unit, n, T, low, b)
    <3> HIDE DEF b, y, k
    <3> QED BY <2>4a, StoppedTasks
  <2>6. /\ b \in Records /\ b.action_mode = a.action_mode /\ b.action_id = a.action_id
        /\ b.instance_count = a.instance_count /\ b.unit_recno = a.unit_recno
        /\ b.processed_instance_count = a.processed_instance_count + 1
    BY <2>3, ReportIs
  <2>7. /\ DOMAIN Queue(w, n) = 1..Len(Queue(w, n)) /\ DOMAIN Queue(y, n) = 1..Len(Queue(y, n))
        /\ Len(Queue(y, n)) = Len(Queue(w, n))
        /\ \A j \in 1..Len(Queue(w, n)) : Queue(y, n)[j] = IF j = i THEN b ELSE Queue(w, n)[j]
    BY <1>1, <2>5, PartsOf DEF Replaced
  <2>8. RecordOK(w0.unit, n, low, a) /\ a.unit_recno \in T \cup {None}
    BY <1>2, <2>1, <2>4 DEF Works, TaskOK
  <2>9. Free(y) /\ (u \notin Ships /\ w.unit[u].state \in {"idle", "ordered", "boarding"}
                       => y.unit[u].state = "idle")
    <3> SUFFICES ASSUME u \notin Ships, w.unit[u].state \in {"idle", "ordered", "boarding"}
                 PROVE  y.unit[u].ai_action_id = 0 /\ y.unit[u].state = "idle"
      OBVIOUS
    <3>1. HasStopped(w, y, u, n, i, a)
      <4> HIDE DEF y, b
      <4> QED BY <1>1, <2>1, <2>4, <2>4a, StoppedWorks DEF ReportsTo
    <3>2. ~Waits(w, u, a) /\ w.unit[u].state # "dead" =>
            /\ y.unit[u].ai_action_id = 0
            /\ y.unit[u].state = IF w.unit[u].state = "aboard" THEN "aboard" ELSE "idle"
      BY <3>1 DEF HasStopped
    <3>3. ~Waits(w, u, a)
      BY DEF Waits
    <3> QED BY <3>2, <3>3
  <2>10. \A j \in DOMAIN Queue(y, n) : j # i => TaskOK(y.unit, n, T, low, Queue(y, n)[j])
    BY <2>5, <2>7
  <2>11. Others(y, n, i)
    <3> SUFFICES ASSUME NEW j \in DOMAIN Queue(y, n), j # i PROVE Undone(Queue(y, n)[j])
      BY DEF Others
    <3>1. j \in DOMAIN Queue(w, n) /\ Queue(y, n)[j] = Queue(w, n)[j] /\ j # 0
      BY <2>7
    <3> QED BY <1>2, <3>1 DEF Others
  <2>12. CASE AllDone(b) /\ a.action_mode \in Sailing
    <3>1. Works(y, n, T, low)
      <4>1. \A j \in DOMAIN Queue(y, n) : TaskOK(y.unit, n, T, low, Queue(y, n)[j])
        BY <2>5, <2>7, <2>10, <2>12
      <4> QED BY <2>5, <4>1 DEF Works
    <3>2. PICK x \in auto_next_action(y, n, b) : v = del_action(x, n, i)
      BY <2>2, <2>12
    <3>3. ASSUME b.action_mode = "travel", HasShip(y, n, b), NEW j \in DOMAIN Queue(y, n)
          PROVE  Spared(y.unit, n, {b.action_para2}, Queue(y, n)[j])
      <4>1. a.action_mode = "travel" /\ AllDone(b)
        BY <2>6, <2>12, <3>3
      <4> HIDE DEF b, y, k
      <4> QED BY <2>4a, <3>3, <4>1, ShipSpared
    <3>4. b.instance_count > 0
      BY <2>6, <2>8 DEF RecordOK, CountOK
    <3> HIDE DEF b, y
    <3>5. /\ Acted(y, x, n, T, low) /\ \A d : Others(y, n, d) => Others(x, n, d)
          /\ QueuesNext(y, n, T, b, x)
      BY <2>5, <2>6, <2>8, <2>12, <3>1, <3>2, <3>3, <3>4, NextActionWorks
    <3>6. /\ Sound(x) /\ Works(x, n, T, low) /\ Others(x, n, i) /\ Apart(y, x, n)
          /\ Calm(y.unit, x.unit, n, T)
      BY <2>11, <3>5 DEF Acted
    <3>7. Acted(x, v, n, T, low) /\ Others(v, n, 0) /\ v.unit = x.unit
      <4>1. \A j \in DOMAIN Queue(x, n) : j # i => TaskOK(x.unit, n, T, low, Queue(x, n)[j])
        BY <3>6 DEF Works
      <4>2. IdsOK(x, n) /\ OwnIn(x, n, T)
        BY <3>6 DEF Works
      <4> QED BY <3>2, <3>6, <4>1, <4>2, DelWorks
    <3>8. Apart(w, v, n) /\ Calm(w.unit, v.unit, n, T)
      <4>1. Apart(w, x, n) /\ Calm(w.unit, x.unit, n, T)
        BY <2>5, <3>6, ApartChain, CalmChain
      <4>2. Apart(x, v, n) /\ Calm(x.unit, v.unit, n, T)
        BY <3>7 DEF Acted
      <4> QED BY <4>1, <4>2, ApartChain, CalmChain
    <3>9. Acted(w, v, n, T, low)
      BY <3>7, <3>8 DEF Acted
    <3>10. Free(v)
      <4> SUFFICES ASSUME u \notin Ships, w.unit[u].state \in {"idle", "ordered", "boarding"}
                   PROVE  v.unit[u].ai_action_id = 0
        OBVIOUS
      <4>1. u \in Troops
        <5>1. u \in Holders(w0.unit, n, a.action_id)
          BY <1>1, <2>1 DEF Holders
        <5>2. u \notin Generals
          BY <2>8, <2>12, <5>1 DEF RecordOK, KindOK, Sailing
        <5> QED BY <5>2 DEF Units
      <4>2. y.unit[u].ai_action_id = 0 /\ y.unit[u].state = "idle"
        BY <2>9
      <4>3. PICK node : /\ NodeOK(y, n, T, node) /\ node.action_mode \in {"travel2", "travel3"}
                        /\ x \in LinkAndProcess(y, n, node)
        BY <3>5 DEF QueuesNext
      <4>4. Steady(y, u) /\ u \notin Ships
        BY <4>1, <4>2, QueueAssumption DEF Steady
      <4>5. node.action_mode \in Sailing => u \notin Called(y, n, node)
        BY <4>3, <4>4 DEF Called, Sailing
      <4>6. x.unit[u] = y.unit[u]
        BY <2>5, <3>1, <4>3, <4>4, <4>5, LinkAndProcessLeaves
      <4> QED BY <3>7, <4>2, <4>6
    <3> QED BY <3>7, <3>9, <3>10
  <2>13. CASE AllDone(b) /\ a.action_mode \notin Sailing
    <3>1. v = del_action(y, n, i)
      <4>1. auto_next_action(y, n, b) = {y}
        BY <2>6, <2>13 DEF auto_next_action, Sailing
      <4> QED BY <2>2, <2>13, <4>1
    <3> HIDE DEF b, y
    <3>2. Acted(y, v, n, T, low) /\ Others(v, n, 0) /\ v.unit = y.unit
      BY <2>5, <2>10, <2>11, <3>1, DelWorks
    <3>3. Apart(w, v, n) /\ Calm(w.unit, v.unit, n, T)
      BY <2>5, <3>2, ApartChain DEF Acted
    <3>4. Acted(w, v, n, T, low)
      BY <3>2, <3>3 DEF Acted
    <3> QED BY <2>9, <3>2, <3>4
  <2>14. CASE ~AllDone(b)
    <3>1. v = y
      BY <2>2, <2>14
    <3>2. Works(y, n, T, low)
      <4>1. \A j \in DOMAIN Queue(y, n) : TaskOK(y.unit, n, T, low, Queue(y, n)[j])
        BY <2>5, <2>7, <2>10, <2>14
      <4> QED BY <2>5, <4>1 DEF Works
    <3>3. Others(y, n, 0)
      <4>1. Undone(b)
        <5>1. b.processed_instance_count \in Nat /\ b.instance_count \in Nat
          BY <2>6, CountsAre
        <5>2. ~(b.processed_instance_count >= b.instance_count)
          BY <2>14 DEF AllDone
        <5> QED BY <5>1, <5>2 DEF Undone
      <4> QED BY <2>7, <2>11, <4>1 DEF Others
    <3> QED BY <2>5, <2>9, <3>1, <3>2, <3>3 DEF Acted
  <2> QED BY <2>12, <2>13, <2>14
<1> QED BY <1>5, <1>6, <1>7, <1>8

\* A nation without actions: a report only stops the unit.
LEMMA FinishedIdle ==
  ASSUME NEW w, Sound(w), NEW u \in Units, NEW n, n = w.unit[u].nation_recno,
         Queue(w, n) = <<>>, NEW v \in action_finished(w, u)
  PROVE  /\ Sound(v) /\ v.ai = w.ai
         /\ \A x \in Units : x # u => v.unit[x] = w.unit[x]
         /\ v.unit[u].nation_recno = n
         /\ v.unit[u].state = "dead" <=> w.unit[u].state = "dead"
         /\ v.unit[u].state = "aboard" => w.unit[u].state = "aboard"
         /\ w.unit[u].state # "dead" => v.unit[u].ai_action_id = 0
<1> DEFINE k == w.unit[u].ai_action_id
<1>1. n \in Nations /\ w.unit[u] \in UnitRecords
  BY PartsOf DEF UnitRecords
<1>2. CASE k = 0
  <2>1. v = w
    BY <1>2 DEF action_finished
  <2> QED BY <1>2, <2>1
<1>3. CASE k # 0
  <2>1. RecnoOf(w, n, k) = 0
    BY DEF RecnoOf
  <2>2. v = stop_unit_action(w, u)
    BY <1>3, <2>1 DEF action_finished
  <2>3. w.unit[u].state \notin {"inside", "training"}
    BY <1>3 DEF Sound, UnitsOK, Within
  <2>4. CASE w.unit[u].state = "dead"
    BY <2>2, <2>4 DEF stop_unit_action, is_deleted
  <2>5. CASE w.unit[u].state # "dead"
    <3> DEFINE state == IF w.unit[u].state = "aboard" THEN "aboard" ELSE "idle"
    <3>1. v = Doing(w, u, state, 0)
      BY <2>2, <2>3, <2>5 DEF stop_unit_action, is_deleted
    <3>2. state \in States \ {"inside", "training"} /\ state # "dead"
          /\ (state = "aboard" => w.unit[u].state = "aboard")
      BY DEF States
    <3> HIDE DEF state
    <3>3. Sound(v) /\ v.ai = w.ai
      BY <2>3, <3>1, <3>2, OutsideDoing
    <3>4. /\ v.unit[u].nation_recno = w.unit[u].nation_recno
          /\ v.unit[u].ai_action_id = 0 /\ v.unit[u].state = state
          /\ \A x \in Units : x # u => v.unit[x] = w.unit[x]
      BY <3>1, DoingUnits
    <3> QED BY <2>5, <3>2, <3>3, <3>4
  <2> QED BY <2>4, <2>5
<1> QED BY <1>2, <1>3

-----------------------------------------------------------------------------
(* All nations.                                                            *)

\* What may happen to the units of a nation while others act: those aboard a ship that is not
\* theirs may be put ashore.
Quiet(g, h, m) ==
  \A u \in Units :
    /\ h[u].nation_recno = m <=> g[u].nation_recno = m
    /\ g[u].nation_recno = m =>
         /\ h[u].state = "dead" <=> g[u].state = "dead"
         /\ h[u].state = "aboard" => g[u].state = "aboard"
         /\ \/ h[u].ai_action_id = g[u].ai_action_id
            \/ g[u].state = "aboard" /\ h[u].ai_action_id = 0

\* Two quiet changes are one.
LEMMA QuietChain ==
  ASSUME NEW g, NEW h, NEW k, NEW m, Quiet(g, h, m), Quiet(h, k, m)
  PROVE  Quiet(g, k, m)
<1> SUFFICES ASSUME NEW u \in Units
             PROVE  /\ k[u].nation_recno = m <=> g[u].nation_recno = m
                    /\ g[u].nation_recno = m =>
                         /\ k[u].state = "dead" <=> g[u].state = "dead"
                         /\ k[u].state = "aboard" => g[u].state = "aboard"
                         /\ \/ k[u].ai_action_id = g[u].ai_action_id
                            \/ g[u].state = "aboard" /\ k[u].ai_action_id = 0
  BY DEF Quiet
<1>1. /\ h[u].nation_recno = m <=> g[u].nation_recno = m
      /\ g[u].nation_recno = m =>
           /\ h[u].state = "dead" <=> g[u].state = "dead"
           /\ h[u].state = "aboard" => g[u].state = "aboard"
           /\ \/ h[u].ai_action_id = g[u].ai_action_id
              \/ g[u].state = "aboard" /\ h[u].ai_action_id = 0
  BY DEF Quiet
<1>2. /\ k[u].nation_recno = m <=> h[u].nation_recno = m
      /\ h[u].nation_recno = m =>
           /\ k[u].state = "dead" <=> h[u].state = "dead"
           /\ k[u].state = "aboard" => h[u].state = "aboard"
           /\ \/ k[u].ai_action_id = h[u].ai_action_id
              \/ h[u].state = "aboard" /\ k[u].ai_action_id = 0
  BY DEF Quiet
<1> QED BY <1>1, <1>2

\* Its actions stay in order.
LEMMA QuietWorks ==
  ASSUME NEW w, Sound(w), NEW m \in Nations, NEW T, NEW low \in BOOLEAN, Works(w, m, T, low),
         NEW v, v.ai[m] = w.ai[m], Quiet(w.unit, v.unit, m)
  PROVE  Works(v, m, T, low) /\ (Others(w, m, 0) => Others(v, m, 0))
<1> DEFINE g == w.unit
           h == v.unit
           U == {u \in Units : /\ g[u].nation_recno = m /\ g[u].state = "aboard"
                               /\ h[u].ai_action_id = 0}
<1>1. Queue(v, m) = Queue(w, m) /\ v.ai[m].last_action_id = w.ai[m].last_action_id
  BY DEF Queue
<1>2. Gives(g, h, m, U, 0)
  BY DEF Gives, Quiet
<1>3. ASSUME NEW j \in DOMAIN Queue(w, m) PROVE TaskOK(h, m, T, low, Queue(w, m)[j])
  <2> DEFINE c == Queue(w, m)[j]
  <2>1. c \in Records /\ c.action_id # 0
    BY IdIs
  <2>2. RecordOK(g, m, low, c) /\ c.unit_recno \in T \cup {None}
    BY DEF Works, TaskOK
  <2>3. Spared(g, m, U, c)
    <3> SUFFICES ASSUME NEW u \in U \cap Holders(g, m, c.action_id)
                 PROVE  c.action_mode \in {"assign", "travel3"}
      BY DEF Spared
    <3>1. g[u].state = "aboard"
      OBVIOUS
    <3> QED BY <2>2, <3>1 DEF RecordOK, KindOK
  <2> HIDE DEF c, U, g, h
  <2>4. RecordOK(h, m, low, c)
    BY <1>2, <2>1, <2>2, <2>3, OtherRecord
  <2> QED BY <2>2, <2>4 DEF TaskOK, c
<1>4. IdsOK(v, m)
  <2>1. w.ai[m].last_action_id \in Nat
    BY PartsOf DEF Queues
  <2>2. 0 <= w.ai[m].last_action_id
    BY <2>1
  <2> SUFFICES ASSUME NEW u \in Units, h[u].nation_recno = m, h[u].state # "dead"
               PROVE  h[u].ai_action_id <= v.ai[m].last_action_id
    BY DEF IdsOK
  <2>3. g[u].nation_recno = m /\ g[u].state # "dead" /\ h[u].ai_action_id \in {0, g[u].ai_action_id}
    BY DEF Quiet
  <2>4. g[u].ai_action_id <= w.ai[m].last_action_id
    BY <2>3 DEF Works, IdsOK
  <2> QED BY <1>1, <2>2, <2>3, <2>4
<1>5. OwnIn(v, m, T)
  BY DEF Works, OwnIn, Quiet
<1> QED BY <1>1, <1>3, <1>4, <1>5 DEF Works, Others

\* The units of a nation, and, while it hands them over, those it has handed over too.
Own(g, n) == {u \in Units : g[u].nation_recno = n}
Full(c, n) == ~(c.call = "handover" /\ c.nation = n)
Team(g, c, n) ==
  {u \in Units : g[u].nation_recno = n \/ (~Full(c, n) /\ g[u].nation_recno = c.to)}

\* A nation that hands nothing over has only its own units.
LEMMA TeamIs ==
  ASSUME NEW g, NEW c, NEW n, Full(c, n)
  PROVE  Team(g, c, n) = Own(g, n)
BY DEF Team, Own

\* The actions of the AI nations are in order; the others have none.
Tasks(w, c) ==
  /\ \A n \in AINations : Works(w, n, Team(w.unit, c, n), Full(c, n)) /\ Others(w, n, 0)
  /\ \A n \in Nations \ AINations : Queue(w, n) = <<>>
  /\ c.call = "handover" => c.nation # c.to

\* What a nation may do while none is handed over.
StepOf(w, v, n) ==
  /\ Sound(v) /\ Apart(w, v, n)
  /\ n \in AINations => Works(v, n, Own(w.unit, n), TRUE) /\ Others(v, n, 0)
  /\ n \notin AINations => Queue(v, n) = Queue(w, n)
  /\ \A m \in AINations : m # n => Quiet(w.unit, v.unit, m)
  /\ \A u \in Units : v.unit[u].nation_recno = w.unit[u].nation_recno

\* Then the actions of all nations stay in order.
LEMMA StepTasks ==
  ASSUME NEW w, Sound(w), NEW c, Tasks(w, c), c.call # "handover",
         NEW d, d.call # "handover", NEW n \in Nations, NEW v, StepOf(w, v, n)
  PROVE  Tasks(v, d)
<1>1. \A m \in Nations : /\ Full(c, m) = TRUE /\ Full(d, m) = TRUE
                         /\ Team(w.unit, c, m) = Own(w.unit, m)
                         /\ Team(v.unit, d, m) = Own(w.unit, m)
  <2> SUFFICES ASSUME NEW m \in Nations
               PROVE  /\ Full(c, m) = TRUE /\ Full(d, m) = TRUE
                      /\ Team(w.unit, c, m) = Own(w.unit, m)
                      /\ Team(v.unit, d, m) = Own(w.unit, m)
    OBVIOUS
  <2>1. Full(c, m) = TRUE /\ Full(d, m) = TRUE
    BY DEF Full
  <2>2. \A u \in Units : v.unit[u].nation_recno = w.unit[u].nation_recno
    BY DEF StepOf
  <2>3. Full(c, m) /\ Full(d, m)
    BY DEF Full
  <2>4. Team(w.unit, c, m) = Own(w.unit, m) /\ Team(v.unit, d, m) = Own(v.unit, m)
    BY <2>3, TeamIs
  <2>5. Own(v.unit, m) = Own(w.unit, m)
    BY <2>2 DEF Own
  <2> QED BY <2>1, <2>4, <2>5
<1>2. AINations \subseteq Nations
  BY QueueAssumption
<1>3. ASSUME NEW m \in AINations
      PROVE  Works(v, m, Team(v.unit, d, m), Full(d, m)) /\ Others(v, m, 0)
  <2> DEFINE T == Own(w.unit, m)
  <2>1. m \in Nations /\ Full(c, m) = TRUE /\ Full(d, m) = TRUE
        /\ Team(w.unit, c, m) = T /\ Team(v.unit, d, m) = T
    BY <1>1, <1>2
  <2>2. Works(w, m, T, TRUE) /\ Others(w, m, 0)
    BY <2>1 DEF Tasks
  <2>3. Works(v, m, T, TRUE) /\ Others(v, m, 0)
    <3>1. CASE m = n
      BY <3>1 DEF StepOf
    <3>2. CASE m # n
      <4>1. v.ai[m] = w.ai[m] /\ Quiet(w.unit, v.unit, m)
        BY <2>1, <3>2 DEF StepOf, Apart
      <4> HIDE DEF T
      <4>2. TRUE \in BOOLEAN
        OBVIOUS
      <4> QED BY <2>1, <2>2, <4>1, <4>2, QuietWorks
    <3> QED BY <3>1, <3>2
  <2> QED BY <2>1, <2>3
<1>4. ASSUME NEW m \in Nations \ AINations PROVE Queue(v, m) = <<>>
  BY DEF Tasks, StepOf, Apart, Queue
<1> QED BY <1>3, <1>4 DEF Tasks

\* When n acts, the other nations have not been disturbed.
LEMMA CalmQuiet ==
  ASSUME NEW g, NEW h, NEW n, NEW T, T \subseteq Own(g, n), Calm(g, h, n, T), NEW m, m # n
  PROVE  Quiet(g, h, m)
BY DEF Calm, Quiet, Own

\* Nor are they by what the units of n do.
LEMMA OneQuiet ==
  ASSUME NEW g, NEW h, NEW n, NEW u, g[u].nation_recno = n, h[u].nation_recno = n,
         \A x \in Units : x # u => h[x] = g[x], NEW m, m # n
  PROVE  Quiet(g, h, m)
BY DEF Quiet

\* A nation that has acted has made a step.
LEMMA ActedStep ==
  ASSUME NEW w, NEW v, NEW n \in AINations, Acted(w, v, n, Own(w.unit, n), TRUE), Others(v, n, 0)
  PROVE  StepOf(w, v, n)
<1>1. \A m \in AINations : m # n => Quiet(w.unit, v.unit, m)
  <2> DEFINE T == Own(w.unit, n)
             g == w.unit
             h == v.unit
  <2>1. T \subseteq Own(g, n) /\ Calm(g, h, n, T)
    BY DEF Acted
  <2> HIDE DEF T, g, h
  <2> QED BY <2>1, CalmQuiet DEF g, h
<1>2. \A u \in Units : v.unit[u].nation_recno = w.unit[u].nation_recno
  BY DEF Acted, Calm
<1> QED BY <1>1, <1>2 DEF StepOf, Acted

\* One step and then another
LEMMA StepChain ==
  ASSUME NEW w, NEW v, NEW x, NEW n, StepOf(w, v, n), StepOf(v, x, n)
  PROVE  StepOf(w, x, n)
<1>1. Own(v.unit, n) = Own(w.unit, n)
  BY DEF Own, StepOf
<1>2. Apart(w, x, n)
  BY ApartChain DEF StepOf
<1>3. \A m \in AINations : m # n => Quiet(w.unit, x.unit, m)
  BY QuietChain DEF StepOf
<1> QED BY <1>1, <1>2, <1>3 DEF StepOf

-----------------------------------------------------------------------------
(* The steps, once more.                                                   *)

\* The strengthened invariant: the actions of the AI nations are in order too.
IInv == Inv /\ Tasks(World, busy)

\* The actions of one nation are in order.
Tidy(w, n) ==
  /\ n \in AINations => Works(w, n, Own(w.unit, n), TRUE) /\ Others(w, n, 0)
  /\ n \notin AINations => Queue(w, n) = <<>>

\* Those of every nation are, while none is handed over.
LEMMA TidyNow ==
  ASSUME NEW w, NEW c, Tasks(w, c), c.call # "handover", NEW n \in Nations
  PROVE  Tidy(w, n)
<1>1. CASE n \in AINations
  <2>1. Full(c, n) = TRUE /\ Full(c, n)
    BY DEF Full
  <2>2. Team(w.unit, c, n) = Own(w.unit, n)
    BY <2>1, TeamIs
  <2>3. Works(w, n, Team(w.unit, c, n), Full(c, n)) /\ Others(w, n, 0)
    BY <1>1 DEF Tasks
  <2> QED BY <1>1, <2>1, <2>2, <2>3 DEF Tidy
<1>2. CASE n \notin AINations
  BY <1>2 DEF Tasks, Tidy
<1> QED BY <1>1, <1>2

\* What the next world is.
LEMMA BecomingTasks ==
  ASSUME Inv', NEW v, Sound(v), Become(v), Tasks(v, busy')
  PROVE  IInv'
<1>1. World' = v
  BY PartsOf DEF World, Become, IsWorld
<1> QED BY <1>1 DEF IInv

\* A nation has acted, while none is handed over.
LEMMA StepIs ==
  ASSUME IInv, Inv', busy.call # "handover", busy'.call # "handover",
         NEW n \in Nations, NEW v, StepOf(World, v, n), Become(v)
  PROVE  IInv'
<1>1. Tasks(World, busy) /\ Sound(World) /\ Sound(v)
  BY DEF IInv, Inv, StepOf
<1>2. PICK c : c = busy
  OBVIOUS
<1>3. PICK d : d = busy'
  OBVIOUS
<1>4. PICK w : w = World
  OBVIOUS
<1>5. Tasks(v, d)
  <2>1. Sound(w) /\ Tasks(w, c) /\ c.call # "handover" /\ d.call # "handover" /\ StepOf(w, v, n)
    BY <1>1, <1>2, <1>3, <1>4
  <2> QED BY <2>1, StepTasks
<1>6. Tasks(v, busy')
  BY <1>3, <1>5
<1> QED BY <1>1, <1>6, BecomingTasks

\* Nothing has changed.
LEMMA StillStep ==
  ASSUME NEW w, Sound(w), NEW n \in Nations, Tidy(w, n)
  PROVE  StepOf(w, w, n)
BY DEF StepOf, Tidy, Apart, Quiet

\* A unit that works for no action does something else.
LEMMA TurnsStep ==
  ASSUME NEW w, Sound(w), NEW u \in Units, NEW n \in Nations, n = w.unit[u].nation_recno, Tidy(w, n),
         w.unit[u].ai_action_id = 0, w.unit[u].state # "dead",
         NEW v, Sound(v), v.ai = w.ai, \A x \in Units : x # u => v.unit[x] = w.unit[x],
         v.unit[u].nation_recno = n, v.unit[u].ai_action_id = 0, v.unit[u].state # "dead"
  PROVE  StepOf(w, v, n)
<1> DEFINE g == w.unit
           h == v.unit
           T == Own(g, n)
<1>1. Apart(w, v, n) /\ Queue(v, n) = Queue(w, n) /\ v.ai[n] = w.ai[n]
  BY DEF Apart, Queue
<1>2. \A m \in AINations : m # n => Quiet(g, h, m)
  BY OneQuiet
<1>3. ASSUME n \in AINations PROVE Works(v, n, T, TRUE) /\ Others(v, n, 0)
  <2>1. Works(w, n, T, TRUE) /\ Others(w, n, 0)
    BY <1>3 DEF Tidy
  <2>2. Gives(g, h, n, {u}, 0)
    BY DEF Gives
  <2>3. \A x \in {u} : g[x].nation_recno = n => g[x].ai_action_id = 0
    OBVIOUS
  <2>4. OwnIn(v, n, T)
    BY <2>1 DEF Works, OwnIn
  <2> HIDE DEF g, h, T
  <2>5. ASSUME NEW j \in DOMAIN Queue(w, n) PROVE TaskOK(h, n, T, TRUE, Queue(w, n)[j])
    <3> DEFINE c == Queue(w, n)[j]
    <3>1. c \in Records /\ c.action_id # 0
      BY IdIs
    <3>2. RecordOK(g, n, TRUE, c) /\ c.unit_recno \in T \cup {None}
      BY <2>1 DEF Works, TaskOK, g
    <3> HIDE DEF c
    <3>3. Spared(g, n, {u}, c)
      BY <2>3, <3>1, IdleSpared
    <3>4. TRUE \in BOOLEAN
      OBVIOUS
    <3>5. RecordOK(h, n, TRUE, c)
      BY <2>2, <3>1, <3>2, <3>3, <3>4, OtherRecord
    <3> QED BY <3>2, <3>5 DEF TaskOK, c
  <2>6. IdsOK(v, n)
    <3>1. w.ai[n].last_action_id \in Nat
      BY PartsOf DEF Queues
    <3>2. 0 <= w.ai[n].last_action_id
      BY <3>1
    <3>3. IdsOK(w, n) /\ Gives(w.unit, v.unit, n, {u}, 0)
      BY <2>1, <2>2 DEF Works, g, h
    <3> QED BY <1>1, <3>2, <3>3, GivenIds
  <2> QED BY <1>1, <2>1, <2>4, <2>5, <2>6 DEF Works, Others, h
<1>4. \A x \in Units : h[x].nation_recno = g[x].nation_recno
  OBVIOUS
<1>5. n \notin AINations => Queue(v, n) = Queue(w, n)
  BY <1>1
<1> QED BY <1>1, <1>2, <1>3, <1>4, <1>5 DEF StepOf

\* After its step a nation can make another.
LEMMA StepTidy ==
  ASSUME NEW w, NEW n, NEW v, StepOf(w, v, n), Tidy(w, n)
  PROVE  Tidy(v, n)
<1>1. Own(v.unit, n) = Own(w.unit, n)
  BY DEF StepOf, Own
<1> QED BY <1>1 DEF StepOf, Tidy

\* A living unit reports.
LEMMA FinishedStep ==
  ASSUME NEW w, Sound(w), NEW u \in Units, NEW n \in Nations, n = w.unit[u].nation_recno, Tidy(w, n),
         w.unit[u].state # "dead", NEW v \in action_finished(w, u)
  PROVE  /\ StepOf(w, v, n) /\ Tidy(v, n)
         /\ v.unit[u].nation_recno = n /\ v.unit[u].state # "dead"
         /\ u \notin Ships /\ w.unit[u].state \in {"idle", "ordered", "boarding"}
              => v.unit[u].ai_action_id = 0
<1>1. CASE n \in AINations
  <2> DEFINE T == Own(w.unit, n)
  <2>1. Works(w, n, T, TRUE) /\ Others(w, n, 0)
    BY <1>1 DEF Tidy
  <2>2. Reports(w, w, n, u) /\ TRUE \in BOOLEAN
    BY DEF Reports
  <2> HIDE DEF T
  <2>3. /\ Acted(w, v, n, T, TRUE) /\ Others(v, n, 0)
        /\ u \notin Ships /\ w.unit[u].state \in {"idle", "ordered", "boarding"}
             => v.unit[u].ai_action_id = 0
    <3>1. PICK low : low = TRUE
      OBVIOUS
    <3>2. PICK w0 : w0 = w
      OBVIOUS
    <3>3. low \in BOOLEAN /\ Works(w0, n, T, low) /\ Others(w0, n, 0) /\ Reports(w0, w, n, u)
      BY <2>1, <2>2, <3>1, <3>2
    <3>4. /\ Acted(w, v, n, T, low) /\ Others(v, n, 0)
          /\ u \notin Ships /\ w.unit[u].state \in {"idle", "ordered", "boarding"}
               => v.unit[u].ai_action_id = 0
      BY <3>3, FinishedWorks
    <3> QED BY <3>1, <3>4
  <2>4. StepOf(w, v, n)
    BY <1>1, <2>3, ActedStep DEF T
  <2>5. v.unit[u].nation_recno = n /\ v.unit[u].state # "dead"
    BY <2>3 DEF Acted, Calm
  <2> QED BY <2>3, <2>4, <2>5, StepTidy
<1>2. CASE n \notin AINations
  <2>1. Queue(w, n) = <<>>
    BY <1>2 DEF Tidy
  <2>2. /\ Sound(v) /\ v.ai = w.ai
        /\ \A x \in Units : x # u => v.unit[x] = w.unit[x]
        /\ v.unit[u].nation_recno = n
        /\ v.unit[u].state = "dead" <=> w.unit[u].state = "dead"
        /\ w.unit[u].state # "dead" => v.unit[u].ai_action_id = 0
    BY <2>1, FinishedIdle
  <2>3. Apart(w, v, n) /\ Queue(v, n) = Queue(w, n)
    BY <2>2 DEF Apart, Queue
  <2> DEFINE g == w.unit
             h == v.unit
  <2>4. g[u].nation_recno = n /\ h[u].nation_recno = n /\ \A x \in Units : x # u => h[x] = g[x]
    BY <2>2
  <2> HIDE DEF g, h
  <2>5. \A m \in AINations : m # n => Quiet(g, h, m)
    BY <2>4, OneQuiet
  <2>6. \A x \in Units : h[x].nation_recno = g[x].nation_recno
    BY <2>4
  <2>7. StepOf(w, v, n)
    BY <1>2, <2>2, <2>3, <2>5, <2>6 DEF StepOf, g, h
  <2> QED BY <2>2, <2>7, StepTidy
<1> QED BY <1>1, <1>2

\* It reports, is done with its action, and does something else.
LEMMA ReportStep ==
  ASSUME NEW w, Sound(w), NEW u \in Units, NEW n \in Nations, n = w.unit[u].nation_recno, Tidy(w, n),
         u \notin Ships, w.unit[u].state \in {"idle", "ordered", "boarding"},
         NEW v \in action_finished(w, u), NEW state, state # "dead",
         NEW y, y = Doing(v, u, state, 0), Sound(y), y.ai = v.ai
  PROVE  StepOf(w, y, n)
<1>1. /\ StepOf(w, v, n) /\ Tidy(v, n)
      /\ v.unit[u].nation_recno = n /\ v.unit[u].state # "dead"
      /\ v.unit[u].ai_action_id = 0
  BY FinishedStep
<1>2. Sound(v)
  BY <1>1 DEF StepOf
<1>3. /\ y.unit[u].nation_recno = n
      /\ y.unit[u].ai_action_id = 0 /\ y.unit[u].state = state
      /\ \A x \in Units : x # u => y.unit[x] = v.unit[x]
  BY <1>1, <1>2, DoingUnits
<1>4. StepOf(v, y, n)
  BY <1>1, <1>2, <1>3, TurnsStep
<1> QED BY <1>1, <1>4, StepChain

\* Only the unit changes.
LEMMA DoingAi ==
  ASSUME NEW w, IsWorld(w), NEW u, NEW state, NEW id
  PROVE  Doing(w, u, state, id).ai = w.ai
BY DEF Doing, IsWorld

\* What is known while no call is in progress.
LEMMA IdleNow ==
  ASSUME IInv, busy = Idle, busy' = busy, NEW u \in Units
  PROVE  /\ Inv /\ Sound(World) /\ busy.call # "handover" /\ busy'.call # "handover"
         /\ unit[u] \in UnitRecords /\ World.unit[u] = unit[u]
         /\ World.unit[u].nation_recno \in Nations
         /\ Tidy(World, World.unit[u].nation_recno)
<1>1. Inv /\ Sound(World) /\ Tasks(World, busy) /\ busy.call # "handover" /\ busy'.call # "handover"
  BY DEF IInv, Inv, Idle
<1>2. unit[u] \in UnitRecords /\ World.unit[u] = unit[u]
  BY <1>1, UnitIn
<1>3. World.unit[u].nation_recno \in Nations
  BY <1>2 DEF UnitRecords
<1>4. PICK c : c = busy
  OBVIOUS
<1>5. PICK w : w = World
  OBVIOUS
<1>6. PICK n : n = World.unit[u].nation_recno
  OBVIOUS
<1>7. Tidy(w, n)
  <2>1. Tasks(w, c) /\ c.call # "handover" /\ n \in Nations
    BY <1>1, <1>3, <1>4, <1>5, <1>6
  <2> QED BY <2>1, TidyNow
<1> QED BY <1>1, <1>2, <1>3, <1>5, <1>6, <1>7

\* A unit of the map has reported and does something else.
LEMMA ReportTasks ==
  ASSUME IInv, Inv', busy = Idle, busy' = busy, NEW u \in Units \ Ships,
         unit[u].state \in {"idle", "ordered", "boarding"},
         NEW v \in action_finished(World, u), NEW state \in States \ {"dead", "training"},
         Become(Doing(v, u, state, 0))
  PROVE  IInv'
<1>1. PICK w : w = World
  OBVIOUS
<1>2. PICK n : n = World.unit[u].nation_recno
  OBVIOUS
<1>3. /\ Sound(w) /\ busy.call # "handover" /\ busy'.call # "handover"
      /\ w.unit[u] = unit[u] /\ n \in Nations /\ n = w.unit[u].nation_recno /\ Tidy(w, n)
  BY <1>1, <1>2, IdleNow
<1>4. PICK y : y = Doing(v, u, state, 0)
  OBVIOUS
<1>5. v \in action_finished(w, u) /\ Sound(v)
  BY <1>1, <1>3, FinishedIs
<1>6. Sound(y)
  <2>1. w.unit[u].state # "training" /\ ~Within(w.unit[u])
    BY <1>3 DEF Within
  <2>2. state \in States \ {"training"} /\ 0 \in Nat
    OBVIOUS
  <2> QED BY <1>3, <1>4, <1>5, <2>1, <2>2, ReportThen
<1>7. y.ai = v.ai
  BY <1>4, <1>5, DoingAi DEF Sound
<1>8. StepOf(w, y, n)
  <2>1. u \in Units /\ u \notin Ships /\ w.unit[u].state \in {"idle", "ordered", "boarding"}
        /\ state # "dead"
    BY <1>3
  <2> QED BY <1>3, <1>4, <1>5, <1>6, <1>7, <2>1, ReportStep
<1>9. StepOf(World, y, n) /\ Become(y)
  BY <1>1, <1>4, <1>8
<1> QED BY <1>3, <1>9, StepIs

\* A unit enters the place it was sent to.
LEMMA EntersTasks == ASSUME IInv, Inv', NEW u \in Units, Enter(u) PROVE IInv'
<1>1. PICK v \in action_finished(World, u) : Become(Doing(v, u, "inside", 0))
  BY DEF Enter
<1>2. /\ busy = Idle /\ busy' = busy /\ u \in Units \ Ships
      /\ unit[u].state \in {"idle", "ordered", "boarding"} /\ "inside" \in States \ {"dead", "training"}
  BY DEF Enter, States
<1> QED BY <1>1, <1>2, ReportTasks

\* A unit boards its ship.
LEMMA BoardsTasks == ASSUME IInv, Inv', NEW u \in Troops, Board(u) PROVE IInv'
<1>1. PICK v \in action_finished(World, u) : Become(Doing(v, u, "aboard", 0))
  BY DEF Board
<1>2. /\ busy = Idle /\ busy' = busy /\ u \in Units \ Ships
      /\ unit[u].state \in {"idle", "ordered", "boarding"} /\ "aboard" \in States \ {"dead", "training"}
  BY QueueAssumption DEF Board, States, Units
<1> QED BY <1>1, <1>2, ReportTasks

\* A unit stops.
LEMMA StopsTasks == ASSUME IInv, Inv', NEW u \in Units, Stop(u) PROVE IInv'
<1>1. PICK v \in action_finished(World, u) : Become(KeepsDoing(v, u, "idle"))
  BY DEF Stop
<1>2. /\ busy = Idle /\ busy' = busy /\ u \in Units \ Ships
      /\ unit[u].state \in {"idle", "ordered", "boarding"} /\ "idle" \in States \ {"dead", "training"}
  BY DEF Stop, States
<1>3. v.unit[u].ai_action_id = 0
  <2>1. PICK w : w = World
    OBVIOUS
  <2>2. PICK n : n = World.unit[u].nation_recno
    OBVIOUS
  <2>3. /\ Sound(w) /\ w.unit[u] = unit[u] /\ n \in Nations
        /\ n = w.unit[u].nation_recno /\ Tidy(w, n)
    BY <1>2, <2>1, <2>2, IdleNow
  <2>4. u \in Units /\ w.unit[u].state # "dead" /\ v \in action_finished(w, u)
    BY <1>1, <1>2, <2>1, <2>3
  <2>5. u \notin Ships /\ w.unit[u].state \in {"idle", "ordered", "boarding"}
          => v.unit[u].ai_action_id = 0
    BY <2>3, <2>4, FinishedStep
  <2> QED BY <1>2, <2>3, <2>5
<1>4. Become(Doing(v, u, "idle", 0))
  BY <1>1, <1>3 DEF KeepsDoing
<1> QED BY <1>1, <1>2, <1>4, ReportTasks

\* An idle unit goes home.
LEMMA GoesHomeTasks == ASSUME IInv, Inv', NEW u \in Units, GoHome(u) PROVE IInv'
<1>1. /\ unit[u].state = "idle" /\ unit[u].ai_action_id = 0 /\ busy = Idle /\ busy' = busy
      /\ Become(KeepsDoing(World, u, "inside"))
  BY DEF GoHome
<1>2. PICK w : w = World
  OBVIOUS
<1>3. PICK n : n = World.unit[u].nation_recno
  OBVIOUS
<1>4. /\ Sound(w) /\ busy.call # "handover" /\ busy'.call # "handover"
      /\ w.unit[u] = unit[u] /\ n \in Nations /\ n = w.unit[u].nation_recno /\ Tidy(w, n)
  BY <1>1, <1>2, <1>3, IdleNow
<1>5. PICK y : y = Doing(w, u, "inside", 0)
  OBVIOUS
<1>6. Become(y)
  BY <1>1, <1>2, <1>4, <1>5 DEF KeepsDoing
<1>7. Sound(y) /\ y.ai = w.ai
  <2>1. "inside" \in States /\ 0 \in Nat /\ w.unit[u].state # "training"
    BY <1>1, <1>4 DEF States
  <2>2. Sound(y)
    BY <1>4, <1>5, <2>1, DoingIs
  <2> QED BY <1>4, <1>5, <2>2, DoingAi DEF Sound
<1>8. /\ y.unit[u].nation_recno = n
      /\ y.unit[u].ai_action_id = 0 /\ y.unit[u].state = "inside"
      /\ \A x \in Units : x # u => y.unit[x] = w.unit[x]
  BY <1>4, <1>5, DoingUnits
<1>9. w.unit[u].ai_action_id = 0 /\ w.unit[u].state # "dead"
  BY <1>1, <1>4
<1>10. StepOf(w, y, n)
  BY <1>4, <1>7, <1>8, <1>9, TurnsStep
<1>11. StepOf(World, y, n)
  BY <1>2, <1>10
<1> QED BY <1>4, <1>6, <1>11, StepIs

\* A ship reports.
LEMMA ShipsTasks == ASSUME IInv, Inv', NEW s \in Ships, ShipReports(s) PROVE IInv'
<1>1. PICK v \in action_finished(World, s) : Become(v)
  BY DEF ShipReports
<1>2. s \in Units /\ busy = Idle /\ busy' = busy /\ World.unit[s].state # "dead"
  BY DEF ShipReports, is_visible, Units
<1>3. PICK w : w = World
  OBVIOUS
<1>4. PICK n : n = World.unit[s].nation_recno
  OBVIOUS
<1>5. /\ Sound(w) /\ busy.call # "handover" /\ busy'.call # "handover"
      /\ n \in Nations /\ n = w.unit[s].nation_recno /\ Tidy(w, n)
  BY <1>2, <1>3, <1>4, IdleNow
<1>6. w.unit[s].state # "dead" /\ v \in action_finished(w, s)
  BY <1>1, <1>2, <1>3
<1>7. StepOf(w, v, n)
  BY <1>2, <1>5, <1>6, FinishedStep
<1>8. StepOf(World, v, n)
  BY <1>3, <1>7
<1> QED BY <1>1, <1>5, <1>8, StepIs

\* One record is processed.
LEMMA ProcessStep ==
  ASSUME NEW w, Sound(w), NEW n \in Nations, Tidy(w, n), NEW i, NEW priority,
         NEW v \in ProcessOne(w, n, i, priority)
  PROVE  StepOf(w, v, n)
<1>1. CASE n \in AINations
  <2> DEFINE T == Own(w.unit, n)
  <2>1. Works(w, n, T, TRUE) /\ Others(w, n, 0)
    BY <1>1 DEF Tidy
  <2>2. PICK low : low = TRUE
    OBVIOUS
  <2> HIDE DEF T
  <2>3. low \in BOOLEAN /\ Works(w, n, T, low)
    BY <2>1, <2>2
  <2>4. Ready(w, n, i, T, low)
    BY <2>3 DEF Ready, Works
  <2>5. i \in DOMAIN Queue(w, n) =>
          \/ TaskOK(w.unit, n, T, low, Queue(w, n)[i])
          \/ Fresh(w, n, T, Queue(w, n)[i]) /\ priority
    BY <2>3 DEF Works
  <2>6. Acted(w, v, n, T, low) /\ Stepped(w, v, n, i)
    BY <2>3, <2>4, <2>5, ProcessOneWorks
  <2>7. Sound(v)
    BY <2>6 DEF Acted
  <2>8. PICK d : d = 0
    OBVIOUS
  <2>9. Others(v, n, d)
    <3>1. Others(w, n, d) /\ (d = 0 \/ i = Len(Queue(w, n)))
      BY <2>1, <2>8
    <3> QED BY <2>6, <2>7, <3>1, OthersStep
  <2>10. Acted(w, v, n, T, TRUE) /\ Others(v, n, 0)
    BY <2>2, <2>6, <2>8, <2>9
  <2> QED BY <1>1, <2>10, ActedStep DEF T
<1>2. CASE n \notin AINations
  <2>1. Queue(w, n) = <<>>
    BY <1>2 DEF Tidy
  <2>2. i \notin DOMAIN Queue(w, n)
    BY <2>1
  <2>3. v = w
    BY <2>2 DEF ProcessOne
  <2> QED BY <2>3, StillStep
<1> QED BY <1>1, <1>2

\* A pass goes on.
LEMMA PassTasks == ASSUME IInv, Inv', PassStep PROVE IInv'
<1> DEFINE n == busy.nation
           i == busy.recno
<1>1. Inv /\ Sound(World) /\ Tasks(World, busy) /\ busy \in Calls /\ busy.call = "pass" /\ n \in Nations
  BY PassCall DEF IInv, Inv, PassStep, InPass
<1>2. Tidy(World, n)
  <2>1. PICK c : c = busy
    OBVIOUS
  <2>2. Tasks(World, c) /\ c.call # "handover"
    BY <1>1, <2>1
  <2> HIDE DEF n
  <2> QED BY <1>1, <2>2, TidyNow
<1>3. CASE i \in DOMAIN Queue(World, n) /\ busy.count < SessionLimit
  <2>1. PICK v \in ProcessOne(World, n, i, FALSE) :
          /\ Become(v)
          /\ busy' = [busy EXCEPT
                        !.recno = IF Len(Queue(v, n)) < Len(Queue(World, n)) THEN i ELSE i + 1,
                        !.count = IF IsDue(Queue(World, n)[i], FALSE) THEN @ + 1 ELSE @]
    BY <1>3 DEF PassStep
  <2>2. busy'.call = "pass"
    BY <1>1, <2>1, PassCall DEF InPass
  <2> HIDE DEF n, i
  <2>3. PICK w : w = World
    OBVIOUS
  <2>4. PICK priority : priority = FALSE
    OBVIOUS
  <2>5. StepOf(w, v, n)
    <3>1. Sound(w) /\ n \in Nations /\ Tidy(w, n) /\ v \in ProcessOne(w, n, i, priority)
      BY <1>1, <1>2, <2>1, <2>3, <2>4
    <3> QED BY <3>1, ProcessStep
  <2>6. StepOf(World, v, n) /\ Become(v) /\ busy.call # "handover" /\ busy'.call # "handover"
    BY <1>1, <2>1, <2>2, <2>3, <2>5
  <2> QED BY <1>1, <2>6, StepIs
<1>4. CASE ~(i \in DOMAIN Queue(World, n) /\ busy.count < SessionLimit)
  <2>1. busy' = Idle /\ UNCHANGED <<ai, unit, train>>
    BY <1>4 DEF PassStep
  <2>2. Become(World) /\ busy'.call # "handover" /\ busy.call # "handover"
    BY <1>1, <2>1 DEF Become, World, Idle
  <2> HIDE DEF n
  <2>3. StepOf(World, World, n)
    BY <1>1, <1>2, StillStep
  <2> QED BY <1>1, <2>2, <2>3, StepIs
<1> QED BY <1>3, <1>4

\* The action the unit was trained for is processed.
LEMMA TrainingTasks == ASSUME IInv, Inv', FinishTraining PROVE IInv'
<1> DEFINE u == train.unit
           n == unit[train.unit].nation_recno
           out == LeavesTraining(World, "idle")
           i == RecnoOf(out, n, train.id)
<1>1. busy = Idle /\ busy' = busy /\ train # None
  BY DEF FinishTraining
<1>2. PICK v \in ProcessOne(out, n, i, TRUE) : Become(Unassigned(v))
  BY DEF FinishTraining
<1>3. Sound(World) /\ World.train # None /\ u = World.train.unit
  BY <1>1, Worlds DEF IInv, Inv
<1>4. PICK w : w = World
  OBVIOUS
<1>5. PICK x : x = out
  OBVIOUS
<1>6. PICK priority : priority = TRUE
  OBVIOUS
<1> HIDE DEF u
<1>7. Sound(w) /\ w.train # None /\ u = w.train.unit /\ x = LeavesTraining(w, "idle")
  BY <1>3, <1>4, <1>5
<1>8. /\ Sound(x) /\ x.ai = w.ai /\ u \in Units
      /\ w.unit[u].ai_action_id = 0 /\ w.unit[u].state = "training"
      /\ x.unit[u].nation_recno = w.unit[u].nation_recno
      /\ x.unit[u].ai_action_id = 0 /\ x.unit[u].state = "idle"
      /\ \A z \in Units : z # u => x.unit[z] = w.unit[z]
  BY <1>7, TrainingOut
<1>9. n = w.unit[u].nation_recno
  BY <1>4, Worlds DEF u
<1>10. v \in ProcessOne(x, n, i, priority)
  BY <1>2, <1>5, <1>6
<1> HIDE DEF n, out, i
<1>11. busy.call # "handover" /\ busy'.call # "handover" /\ n \in Nations /\ Tidy(w, n)
  BY <1>1, <1>4, <1>8, <1>9, IdleNow
<1>12. StepOf(w, x, n)
  <2>1. w.unit[u].state # "dead" /\ x.unit[u].state # "dead" /\ x.unit[u].nation_recno = n
    BY <1>8, <1>9
  <2> QED BY <1>7, <1>8, <1>9, <1>11, <2>1, TurnsStep
<1>13. StepOf(x, v, n)
  BY <1>8, <1>10, <1>11, <1>12, StepTidy, ProcessStep
<1>14. StepOf(w, v, n)
  BY <1>12, <1>13, StepChain
<1>15. StepOf(w, Unassigned(v), n)
  <2>1. Sound(v)
    BY <1>14 DEF StepOf
  <2> QED BY <1>14, <2>1, UnassignedIs DEF StepOf, Apart, Works, IdsOK, OwnIn, Others, Queue
<1> QED BY <1>2, <1>4, <1>11, <1>15, StepIs

\* The trainee goes back.
LEMMA CancelTasks == ASSUME IInv, Inv', CancelTraining PROVE IInv'
<1> DEFINE u == train.unit
<1>1. PICK w : w = World
  OBVIOUS
<1>2. PICK v : v = LeavesTraining(w, "inside")
  OBVIOUS
<1>3. /\ busy = Idle /\ busy' = busy /\ Become(v) /\ Sound(w) /\ w.train # None
      /\ u = w.train.unit
  BY <1>1, <1>2, Worlds DEF CancelTraining, IInv, Inv
<1> HIDE DEF u
<1>4. /\ Sound(v) /\ v.ai = w.ai /\ u \in Units
      /\ w.unit[u].ai_action_id = 0 /\ w.unit[u].state = "training"
      /\ v.unit[u].nation_recno = w.unit[u].nation_recno
      /\ v.unit[u].ai_action_id = 0 /\ v.unit[u].state = "inside"
      /\ \A x \in Units : x # u => v.unit[x] = w.unit[x]
  BY <1>2, <1>3, TrainingOut
<1>5. PICK n : n = w.unit[u].nation_recno
  OBVIOUS
<1>6. busy.call # "handover" /\ busy'.call # "handover" /\ n \in Nations /\ Tidy(w, n)
  BY <1>1, <1>3, <1>4, <1>5, IdleNow
<1>7. StepOf(w, v, n)
  <2>1. w.unit[u].state # "dead" /\ v.unit[u].state # "dead" /\ v.unit[u].nation_recno = n
    BY <1>4, <1>5
  <2> QED BY <1>3, <1>4, <1>5, <1>6, <2>1, TurnsStep
<1> QED BY <1>1, <1>3, <1>6, <1>7, StepIs

\* A unit has died, and reports.
LEMMA DeathStep ==
  ASSUME NEW w, Sound(w), NEW u \in Units, NEW n \in Nations, n = w.unit[u].nation_recno, Tidy(w, n),
         w.unit[u].state # "dead", NEW x, Reports(w, x, n, u), x.unit[u].state = "dead",
         NEW v \in action_finished(x, u)
  PROVE  StepOf(w, v, n)
<1>1. /\ Sound(x) /\ x.ai = w.ai /\ x.unit[u].nation_recno = n
      /\ \A z \in Units : z # u => x.unit[z] = w.unit[z]
  BY DEF Reports
<1>2. Queue(x, n) = Queue(w, n) /\ Apart(w, x, n)
  BY <1>1 DEF Queue, Apart
<1>3. Own(x.unit, n) = Own(w.unit, n)
  BY <1>1 DEF Own
<1>4. \A m \in AINations : m # n => Quiet(w.unit, x.unit, m)
  <2> DEFINE g == w.unit
             h == x.unit
  <2>1. g[u].nation_recno = n /\ h[u].nation_recno = n /\ \A z \in Units : z # u => h[z] = g[z]
    BY <1>1
  <2> HIDE DEF g, h
  <2>2. \A m \in AINations : m # n => Quiet(g, h, m)
    BY <2>1, OneQuiet
  <2> QED BY <2>2 DEF g, h
<1>5. StepOf(x, v, n)
  <2>1. CASE n \in AINations
    <3> DEFINE T == Own(w.unit, n)
    <3>1. Works(w, n, T, TRUE) /\ Others(w, n, 0)
      BY <2>1 DEF Tidy
    <3>2. PICK low : low = TRUE
      OBVIOUS
    <3> HIDE DEF T
    <3>3. low \in BOOLEAN /\ Works(w, n, T, low) /\ Others(w, n, 0)
      BY <3>1, <3>2
    <3>4. Acted(x, v, n, T, low) /\ Others(v, n, 0)
      BY <3>3, FinishedWorks
    <3>5. Acted(x, v, n, Own(x.unit, n), TRUE) /\ Others(v, n, 0)
      BY <1>3, <3>2, <3>4 DEF T
    <3> QED BY <2>1, <3>5, ActedStep
  <2>2. CASE n \notin AINations
    <3>1. n = x.unit[u].nation_recno /\ Queue(x, n) = <<>>
      BY <1>1, <1>2, <2>2 DEF Tidy
    <3>2. /\ Sound(v) /\ v.ai = x.ai
          /\ \A z \in Units : z # u => v.unit[z] = x.unit[z]
          /\ v.unit[u].nation_recno = n
      BY <1>1, <3>1, FinishedIdle
    <3> DEFINE g == x.unit
               h == v.unit
    <3>3. g[u].nation_recno = n /\ h[u].nation_recno = n /\ \A z \in Units : z # u => h[z] = g[z]
      BY <3>1, <3>2
    <3> HIDE DEF g, h
    <3>4. \A m \in AINations : m # n => Quiet(g, h, m)
      BY <3>3, OneQuiet
    <3>5. \A z \in Units : h[z].nation_recno = g[z].nation_recno
      BY <3>3
    <3>6. Apart(x, v, n) /\ Queue(v, n) = Queue(x, n)
      BY <3>2 DEF Apart, Queue
    <3> QED BY <2>2, <3>2, <3>4, <3>5, <3>6 DEF StepOf, g, h
  <2> QED BY <2>1, <2>2
<1>6. Apart(w, v, n)
  BY <1>2, <1>5, ApartChain DEF StepOf
<1>7. \A m \in AINations : m # n => Quiet(w.unit, v.unit, m)
  BY <1>4, <1>5, QuietChain DEF StepOf
<1>8. \A z \in Units : v.unit[z].nation_recno = w.unit[z].nation_recno
  BY <1>1, <1>5 DEF StepOf
<1> QED BY <1>2, <1>3, <1>5, <1>6, <1>7, <1>8 DEF StepOf

\* Those aboard a ship who die with it worked for no action that waits for them.
LEMMA DrownedTasks ==
  ASSUME NEW v, Sound(v), NEW c, Tasks(v, c), NEW y, Sound(y), y.ai = v.ai,
         NEW D, Sink(v.unit, y.unit, D)
  PROVE  Tasks(y, c)
<1> DEFINE g == v.unit
           h == y.unit
<1>1. AINations \subseteq Nations
  BY QueueAssumption
<1>2. ASSUME NEW m \in AINations
      PROVE  Works(y, m, Team(h, c, m), Full(c, m)) /\ Others(y, m, 0)
  <2> DEFINE T == Team(g, c, m)
             low == Full(c, m)
  <2>1. Team(h, c, m) = T
    BY DEF Team, Sink
  <2>2. Works(v, m, T, low) /\ Others(v, m, 0) /\ m \in Nations
    BY <1>1 DEF Tasks
  <2>3. low \in BOOLEAN
    BY DEF Full
  <2>4. Queue(y, m) = Queue(v, m) /\ y.ai[m] = v.ai[m]
    BY DEF Queue
  <2> HIDE DEF T, low, g, h
  <2>5. ASSUME NEW j \in DOMAIN Queue(v, m) PROVE TaskOK(h, m, T, low, Queue(v, m)[j])
    <3> DEFINE a == Queue(v, m)[j]
    <3>1. a \in Records
      BY <2>2, IdIs
    <3>2. RecordOK(g, m, low, a) /\ a.unit_recno \in T \cup {None}
      BY <2>2 DEF Works, TaskOK, g
    <3> HIDE DEF a
    <3>3. Sink(g, h, D)
      BY DEF g, h
    <3>4. RecordOK(h, m, low, a)
      BY <2>3, <3>1, <3>2, <3>3, Drowned
    <3> QED BY <3>2, <3>4 DEF TaskOK, a
  <2>6. IdsOK(y, m)
    <3> SUFFICES ASSUME NEW x \in Units, y.unit[x].nation_recno = m, y.unit[x].state # "dead"
                 PROVE  y.unit[x].ai_action_id <= y.ai[m].last_action_id
      BY DEF IdsOK
    <3>1. /\ v.unit[x].nation_recno = m /\ v.unit[x].state # "dead"
          /\ y.unit[x].ai_action_id = v.unit[x].ai_action_id
      BY DEF Sink
    <3>2. v.unit[x].ai_action_id <= v.ai[m].last_action_id
      BY <2>2, <3>1 DEF Works, IdsOK
    <3> QED BY <2>4, <3>1, <3>2
  <2>7. OwnIn(y, m, T)
    BY <2>2 DEF Works, OwnIn, Sink
  <2>8. Works(y, m, T, low)
    BY <2>4, <2>5, <2>6, <2>7 DEF Works, h
  <2> QED BY <2>1, <2>2, <2>4, <2>8 DEF Others, low
<1>3. ASSUME NEW m \in Nations \ AINations PROVE Queue(y, m) = <<>>
  BY DEF Tasks, Queue
<1> QED BY <1>2, <1>3 DEF Tasks

\* The world in which they have.
Sunk(w, s) ==
  [w EXCEPT !.unit = [x \in Units |->
     IF x \in Aboard(w, s) THEN [w.unit[x] EXCEPT !.state = "dead"] ELSE w.unit[x]]]

\* It is sound, and only they have died.
LEMMA Drowning ==
  ASSUME NEW w, Sound(w), NEW s, NEW v, v = Sunk(w, s)
  PROVE  Sound(v) /\ v.ai = w.ai /\ Sink(w.unit, v.unit, Aboard(w, s))
<1> DEFINE D == Aboard(w, s)
           r(x) == [w.unit[x] EXCEPT !.state = "dead"]
           g == [x \in Units |-> IF x \in D THEN r(x) ELSE w.unit[x]]
<1>1. \A x \in Units : w.unit[x] \in UnitRecords
  BY PartsOf
<1>2. \A x \in Units : /\ r(x).state = "dead" /\ r(x).nation_recno = w.unit[x].nation_recno
                       /\ r(x).ai_action_id = w.unit[x].ai_action_id
  BY <1>1 DEF UnitRecords
<1>3. D \subseteq Troops /\ D \subseteq Units /\ \A x \in D : w.unit[x].state = "aboard"
  BY DEF Aboard, Units
<1> HIDE DEF r
<1>4. /\ \A x \in D : g[x].state = "dead"
      /\ \A x \in Units : /\ g[x].nation_recno = w.unit[x].nation_recno
                          /\ g[x].ai_action_id = w.unit[x].ai_action_id
                          /\ x \notin D => g[x].state = w.unit[x].state
  BY <1>2, <1>3
<1>5. v = [w EXCEPT !.unit = g]
  BY DEF r, Sunk
<1>7. Sound(v)
  BY DyingAboard DEF Sunk
<1> HIDE DEF g, D
<1>6. v.ai = w.ai /\ v.unit = g
  <2> DEFINE x == [w EXCEPT !.unit = g]
  <2>1. IsWorld(w)
    BY PartsOf
  <2>2. x.ai = w.ai /\ x.unit = g
    BY <2>1, UnitSet
  <2> QED BY ONLY <1>5, <2>2
<1> QED BY <1>3, <1>4, <1>6, <1>7 DEF D, Sink

\* A unit dies.
LEMMA DiesTasks == ASSUME IInv, Inv', NEW u \in Units, Die(u) PROVE IInv'
<1>1. PICK v \in action_finished(KeepsDoing(World, u, "dead"), u) :
        Become([v EXCEPT !.unit = [x \in Units |->
          IF x \in Aboard(v, u) THEN [v.unit[x] EXCEPT !.state = "dead"] ELSE v.unit[x]]])
  BY DEF Die
<1>2. busy = Idle /\ busy' = busy /\ is_visible(World, u)
  BY DEF Die
<1>3. PICK w : w = World
  OBVIOUS
<1>4. PICK n : n = World.unit[u].nation_recno
  OBVIOUS
<1>5. PICK id : id = World.unit[u].ai_action_id
  OBVIOUS
<1>6. /\ Sound(w) /\ busy.call # "handover" /\ busy'.call # "handover"
      /\ n \in Nations /\ n = w.unit[u].nation_recno /\ Tidy(w, n) /\ w.unit[u] \in UnitRecords
  BY <1>2, <1>3, <1>4, IdleNow
<1>7. w.unit[u].state \notin {"inside", "training", "dead"} /\ id \in Nat /\ id = w.unit[u].ai_action_id
  BY <1>2, <1>3, <1>5, <1>6 DEF is_visible, UnitRecords
<1>8. PICK x : x = KeepsDoing(World, u, "dead")
  OBVIOUS
<1>9. x = Doing(w, u, "dead", id)
  BY <1>3, <1>5, <1>8 DEF KeepsDoing
<1>10. Sound(x) /\ x.ai = w.ai
  <2>1. "dead" \in States \ {"inside", "training"}
    BY DEF States
  <2> QED BY <1>6, <1>7, <1>9, <2>1, OutsideDoing
<1>11. /\ x.unit[u].nation_recno = n /\ x.unit[u].ai_action_id = id /\ x.unit[u].state = "dead"
       /\ \A z \in Units : z # u => x.unit[z] = w.unit[z]
  BY <1>6, <1>9, DoingUnits
<1>12. Reports(w, x, n, u)
  BY <1>6, <1>7, <1>10, <1>11 DEF Reports
<1>13. v \in action_finished(x, u)
  BY <1>1, <1>8
<1>14. StepOf(w, v, n)
  BY <1>6, <1>7, <1>11, <1>12, <1>13, DeathStep
<1>15. Sound(v)
  BY <1>14 DEF StepOf
<1>16. PICK c : c = busy
  OBVIOUS
<1>17. Tasks(v, c)
  <2>1. Tasks(w, c) /\ c.call # "handover"
    BY <1>3, <1>6, <1>16 DEF IInv
  <2> QED BY <1>6, <1>14, <2>1, StepTasks
<1>18. PICK y : y = Sunk(v, u)
  OBVIOUS
<1>19. Become(y)
  BY <1>1, <1>18 DEF Sunk
<1>20. PICK D : D = Aboard(v, u)
  OBVIOUS
<1>21. Sound(y) /\ y.ai = v.ai /\ Sink(v.unit, y.unit, D)
  BY <1>15, <1>18, <1>20, Drowning
<1>22. Tasks(y, c)
  BY <1>15, <1>17, <1>21, DrownedTasks
<1>23. Tasks(y, busy')
  BY <1>2, <1>16, <1>22
<1> QED BY <1>19, <1>21, <1>23, BecomingTasks

\* A day changes no count.
LEMMA DayTasks == ASSUME IInv, Inv', NextDay PROVE IInv'
<1> DEFINE Older(a) == [a EXCEPT !.wait = IF @ = 0 THEN 0 ELSE @ - 1,
                                 !.age = IF @ > Overdue THEN @ ELSE @ + 1]
<1>1. /\ busy' = busy /\ unit' = unit
      /\ ai' = [n \in Nations |-> [ai[n] EXCEPT !.action_array =
                  [i \in DOMAIN ai[n].action_array |-> Older(ai[n].action_array[i])]]]
  BY DEF NextDay
<1>2. Inv /\ Sound(World) /\ Tasks(World, busy) /\ Sound(World') /\ World'.unit = unit /\ World'.ai = ai'
  BY <1>1 DEF IInv, Inv, World
<1>3. PICK w : w = World
  OBVIOUS
<1>4. PICK v : v = World'
  OBVIOUS
<1>5. PICK c : c = busy
  OBVIOUS
<1>6. Sound(w) /\ Sound(v) /\ Tasks(w, c) /\ v.unit = w.unit /\ w.ai = ai /\ v.ai = ai'
  BY <1>2, <1>3, <1>4, <1>5, Worlds
<1>7. ASSUME NEW n \in Nations
      PROVE  /\ DOMAIN Queue(v, n) = DOMAIN Queue(w, n)
             /\ v.ai[n].last_action_id = w.ai[n].last_action_id
             /\ \A j \in DOMAIN Queue(w, n) : Queue(v, n)[j] = Older(Queue(w, n)[j])
  <2> DEFINE s == ai[n].action_array
             t == [i \in DOMAIN s |-> Older(s[i])]
  <2>1. ai[n] \in Queues /\ s = Queue(w, n)
    BY <1>6, PartsOf DEF Queue
  <2>2. ai'[n] = [ai[n] EXCEPT !.action_array = t]
    BY <1>1
  <2>3. DOMAIN t = DOMAIN s /\ \A j \in DOMAIN s : t[j] = Older(s[j])
    OBVIOUS
  <2> HIDE DEF t, s
  <2>4. ai'[n].action_array = t /\ ai'[n].last_action_id = ai[n].last_action_id
    BY <2>1, <2>2 DEF Queues
  <2> HIDE DEF Older
  <2>5. Queue(v, n) = t /\ v.ai[n].last_action_id = w.ai[n].last_action_id
    BY <1>6, <2>4 DEF Queue
  <2> QED BY <2>1, <2>3, <2>5
<1>8. ASSUME NEW a \in Records
      PROVE  LET b == Older(a)
             IN  /\ b.action_mode = a.action_mode /\ b.action_id = a.action_id
                 /\ b.action_para2 = a.action_para2 /\ b.instance_count = a.instance_count
                 /\ b.processing_instance_count = a.processing_instance_count
                 /\ b.processed_instance_count = a.processed_instance_count
                 /\ b.retry_count = a.retry_count /\ b.unit_recno = a.unit_recno
  BY DEF Records
<1> HIDE DEF Older
<1>9. ASSUME NEW n \in AINations
      PROVE  Works(v, n, Team(v.unit, c, n), Full(c, n)) /\ Others(v, n, 0)
  <2> DEFINE T == Team(w.unit, c, n)
             low == Full(c, n)
             g == w.unit
  <2>1. n \in Nations /\ Works(w, n, T, low) /\ Others(w, n, 0)
    BY <1>6, QueueAssumption DEF Tasks
  <2> HIDE DEF T, low
  <2>2. ASSUME NEW j \in DOMAIN Queue(w, n)
        PROVE  TaskOK(g, n, T, low, Queue(v, n)[j]) /\ Undone(Queue(w, n)[j]) = Undone(Queue(v, n)[j])
    <3> DEFINE a == Queue(w, n)[j]
               b == Queue(v, n)[j]
    <3>1. a \in Records
      BY <1>6, <2>1, IdIs
    <3>2. b = Older(a)
      BY <1>7, <2>1
    <3>3. TaskOK(g, n, T, low, a)
      BY <2>1 DEF Works
    <3> HIDE DEF a, b, g
    <3>4. /\ b.action_mode = a.action_mode /\ b.action_id = a.action_id
          /\ b.action_para2 = a.action_para2 /\ b.instance_count = a.instance_count
          /\ b.processing_instance_count = a.processing_instance_count
          /\ b.processed_instance_count = a.processed_instance_count
          /\ b.retry_count = a.retry_count /\ b.unit_recno = a.unit_recno
      BY <1>8, <3>1, <3>2
    <3>5. RecordOK(g, n, low, a) /\ a.unit_recno \in T \cup {None}
      BY <3>3 DEF TaskOK
    <3>6. RecordOK(g, n, low, b)
      BY <3>1, <3>4, <3>5, SameCounts
    <3>7. TaskOK(g, n, T, low, b) /\ Undone(a) = Undone(b)
      BY <3>4, <3>5, <3>6 DEF TaskOK, Undone
    <3> QED BY <3>7 DEF a, b
  <2>3. \A j \in DOMAIN Queue(v, n) : TaskOK(g, n, T, low, Queue(v, n)[j])
    BY <1>7, <2>1, <2>2
  <2>4. Others(v, n, 0)
    BY <1>7, <2>1, <2>2 DEF Others
  <2>5. IdsOK(v, n) /\ OwnIn(v, n, T)
    BY <1>6, <1>7, <2>1 DEF Works, IdsOK, OwnIn
  <2> QED BY <1>6, <2>3, <2>4, <2>5 DEF Works, T, low
<1>10. ASSUME NEW n \in Nations \ AINations PROVE Queue(v, n) = <<>>
  <2>1. Queue(w, n) = <<>>
    BY <1>6 DEF Tasks
  <2>2. Queue(v, n) \in Seq(Records) /\ DOMAIN Queue(v, n) = 1..Len(Queue(v, n)) /\ Len(Queue(v, n)) \in Nat
    BY <1>6, PartsOf
  <2>3. DOMAIN Queue(v, n) = {}
    BY <1>7, <2>1
  <2> QED BY <2>2, <2>3
<1>11. Tasks(v, c)
  BY <1>6, <1>9, <1>10 DEF Tasks
<1>12. Tasks(World', busy')
  BY <1>1, <1>4, <1>5, <1>11
<1> QED BY <1>12 DEF IInv

\* A new action is queued: Nation::add_action.
LEMMA LinkStep ==
  ASSUME NEW w, Sound(w), NEW n \in AINations, Tidy(w, n), NEW node,
         NodeOK(w, n, Own(w.unit, n), node), NEW immediate,
         immediate \/ node.action_mode \notin Sailing, NEW r \in Link(w, n, node, immediate)
  PROVE  StepOf(w, r.w, n)
<1> DEFINE T == Own(w.unit, n)
<1>1. Works(w, n, T, TRUE) /\ Others(w, n, 0) /\ n \in Nations
  BY QueueAssumption DEF Tidy
<1>2. PICK low : low = TRUE
  OBVIOUS
<1> HIDE DEF T
<1>3. low \in BOOLEAN /\ Works(w, n, T, low) /\ NodeOK(w, n, T, node)
  BY <1>1, <1>2 DEF T
<1>4. Acted(w, r.w, n, T, low) /\ \A d : Others(w, n, d) => Others(r.w, n, d)
  BY <1>1, <1>3, LinkWorks
<1>5. PICK v : v = r.w
  OBVIOUS
<1>6. Acted(w, v, n, Own(w.unit, n), TRUE) /\ Others(v, n, 0)
  BY <1>1, <1>2, <1>4, <1>5 DEF T
<1>7. StepOf(w, v, n)
  BY <1>6, ActedStep
<1> QED BY <1>5, <1>7

\* And it is processed at once.
LEMMA LinkAndProcessStep ==
  ASSUME NEW w, Sound(w), NEW n \in AINations, Tidy(w, n), NEW node,
         NodeOK(w, n, Own(w.unit, n), node), NEW v \in LinkAndProcess(w, n, node)
  PROVE  StepOf(w, v, n)
<1> DEFINE T == Own(w.unit, n)
<1>1. Works(w, n, T, TRUE) /\ Others(w, n, 0) /\ n \in Nations
  BY QueueAssumption DEF Tidy
<1>2. PICK low : low = TRUE
  OBVIOUS
<1> HIDE DEF T
<1>3. low \in BOOLEAN /\ Works(w, n, T, low) /\ NodeOK(w, n, T, node)
  BY <1>1, <1>2 DEF T
<1>4. Acted(w, v, n, T, low) /\ \A d : Others(w, n, d) => Others(v, n, d)
  BY <1>1, <1>3, LinkAndProcessWorks
<1>5. Acted(w, v, n, Own(w.unit, n), TRUE) /\ Others(v, n, 0)
  BY <1>1, <1>2, <1>4 DEF T
<1> QED BY <1>5, ActedStep

\* Those who are to travel come out of the place they are in.
LEMMA ComeOutStep ==
  ASSUME NEW w, Sound(w), NEW n \in AINations, Tidy(w, n), NEW G \in SUBSET Troops,
         \A u \in G : IsInside(w, n, u), NEW v, v = Ordered(w, G, 0, "idle", None)
  PROVE  /\ StepOf(w, v, n)
         /\ \A u \in G : /\ v.unit[u].nation_recno = n /\ v.unit[u].ai_action_id = 0
                         /\ v.unit[u].state = "idle"
<1> DEFINE T == Own(w.unit, n)
           g == w.unit
           h == v.unit
<1>1. Works(w, n, T, TRUE) /\ Others(w, n, 0) /\ n \in Nations
  BY QueueAssumption DEF Tidy
<1>2. G \subseteq Units /\ G \subseteq T
  BY DEF Units, IsInside, Own
<1>3. \A u \in G : w.unit[u].state = "inside" /\ w.unit[u].ai_action_id = 0
  BY <1>2 DEF IsInside, Sound, UnitsOK, Within
<1> HIDE DEF T
<1>4. Orders(w, G, 0, "idle", None)
  BY <1>3, QueueAssumption DEF Orders, States, Units
<1>5. Sound(v) /\ v.ai = w.ai
  BY <1>4, OrderedIs
<1>6. Gives(g, h, n, G, 0) /\ Calm(g, h, n, T)
  <2>1. \A u \in G : w.unit[u].state # "dead"
    BY <1>3
  <2>2. PICK state : state = "idle"
    OBVIOUS
  <2>3. PICK ship : ship = None
    OBVIOUS
  <2>4. PICK k : k = 0
    OBVIOUS
  <2>5. /\ Orders(w, G, k, state, ship) /\ v = Ordered(w, G, k, state, ship) /\ state # "dead"
        /\ (state = "aboard" => \A u \in G : w.unit[u].state = "aboard")
    BY <1>4, <2>2, <2>3, <2>4
  <2>6. Gives(w.unit, v.unit, n, G, k) /\ Calm(w.unit, v.unit, n, T)
    BY <1>2, <2>1, <2>5, OrderedGives
  <2> QED BY <2>4, <2>6
<1>7. \A x \in G : g[x].nation_recno = n => g[x].ai_action_id = 0
  BY <1>3
<1> HIDE DEF g, h
<1>8. ASSUME NEW j \in DOMAIN Queue(w, n) PROVE TaskOK(h, n, T, TRUE, Queue(w, n)[j])
  <2> DEFINE c == Queue(w, n)[j]
  <2>1. c \in Records /\ c.action_id # 0
    BY <1>1, IdIs
  <2>2. RecordOK(g, n, TRUE, c) /\ c.unit_recno \in T \cup {None}
    BY <1>1 DEF Works, TaskOK, g
  <2> HIDE DEF c
  <2>3. Spared(g, n, G, c)
    BY <1>7, <2>1, IdleSpared
  <2>4. TRUE \in BOOLEAN
    OBVIOUS
  <2>5. RecordOK(h, n, TRUE, c)
    BY <1>6, <2>1, <2>2, <2>3, <2>4, OtherRecord
  <2> QED BY <2>2, <2>5 DEF TaskOK, c
<1>9. IdsOK(v, n)
  <2>1. w.ai[n].last_action_id \in Nat
    BY <1>1, PartsOf DEF Queues
  <2>2. 0 <= w.ai[n].last_action_id
    BY <2>1
  <2>3. IdsOK(w, n) /\ Gives(w.unit, v.unit, n, G, 0)
    BY <1>1, <1>6 DEF Works, g, h
  <2> QED BY <1>5, <2>2, <2>3, GivenIds
<1>10. OwnIn(v, n, T)
  BY <1>1, <1>6, CalmOwn DEF Works, g, h
<1>11. Queue(v, n) = Queue(w, n) /\ Apart(w, v, n)
  BY <1>5 DEF Queue, Apart
<1>12. Works(v, n, T, TRUE) /\ Others(v, n, 0)
  BY <1>1, <1>8, <1>9, <1>10, <1>11 DEF Works, Others, h
<1>13. Acted(w, v, n, Own(w.unit, n), TRUE)
  BY <1>5, <1>6, <1>11, <1>12 DEF Acted, T, g, h
<1>14. StepOf(w, v, n)
  BY <1>12, <1>13, ActedStep
<1>15. \A u \in G : /\ v.unit[u].nation_recno = n /\ v.unit[u].ai_action_id = 0
                    /\ v.unit[u].state = "idle"
  BY <1>2, <1>4, OrderedUnits DEF IsInside
<1> QED BY <1>14, <1>15

\* What the callers of add_action queue.
LEMMA NewNodeOK ==
  ASSUME NEW w, NEW n, NEW T, NEW mode, NEW para \in Places \cup SeaActions, NEW k \in Nat,
         NEW given \in Generals \cup {None}, given \in T \cup {None}, NEW G \in SUBSET Troops,
         \/ mode = "assign" /\ k = 1
         \/ mode = "worker" /\ k > 0
         \/ /\ mode = "travel" /\ G # {} /\ k = Cardinality(G)
            /\ \A u \in G : /\ w.unit[u].nation_recno = n /\ w.unit[u].ai_action_id = 0
                            /\ w.unit[u].state = "idle"
  PROVE  NodeOK(w, n, T, NewNode(mode, para, k, given, G))
<1> DEFINE node == NewNode(mode, para, k, given, G)
<1>1. mode \in Modes
  BY DEF Modes, TravelModes
<1>2. node \in Records
  BY <1>1, NewNodeIs
<1>3. node.action_mode = mode /\ node.instance_count = k /\ node.unit_recno = given /\ node.group = G
  BY DEF NewNode
<1> HIDE DEF node
<1> QED BY <1>2, <1>3 DEF NodeOK, node

\* Who holds the id of an action and is not aboard is as he was.
Undisturbed(w, v) ==
  \A x \in Troops \cup Ships :
    w.unit[x].state # "aboard" /\ w.unit[x].ai_action_id # 0 => v.unit[x] = w.unit[x]

\* The world v after an action has been queued: in x those who are to travel have come out.
Queued(w, x, n, node, v) ==
  /\ Sound(x) /\ Tidy(x, n) /\ StepOf(w, x, n) /\ Undisturbed(w, x)
  /\ NodeOK(x, n, Own(x.unit, n), node) /\ node.action_mode # "travel2"
  /\ \/ v \in LinkAndProcess(x, n, node)
     \/ \E r \in Link(x, n, node, TRUE) : v = r.w
     \/ node.action_mode \notin Sailing /\ \E r \in Link(x, n, node, FALSE) : v = r.w

\* The AI queues an action.
LEMMA QueuedIs ==
  ASSUME IInv, NEW n \in AINations,
         QueueAssign(n) \/ QueueWorkers(n) \/ QueueGiven(n) \/ QueueTravel(n)
  PROVE  \E x, node, v : Queued(World, x, n, node, v) /\ Become(v)
<1>1. busy = Idle /\ n \in Nations
  BY QueueAssumption DEF QueueAssign, QueueWorkers, QueueGiven, QueueTravel, Queueing
<1>2. Sound(World) /\ Tasks(World, busy) /\ busy.call # "handover"
  BY <1>1 DEF IInv, Inv, Idle
<1>3. PICK w : w = World
  OBVIOUS
<1>4. PICK c : c = busy
  OBVIOUS
<1>5. Sound(w) /\ Tidy(w, n) /\ StepOf(w, w, n) /\ Undisturbed(w, w)
  <2>1. Tasks(w, c) /\ c.call # "handover" /\ n \in Nations
    BY <1>1, <1>2, <1>3, <1>4
  <2>2. Sound(w) /\ Tidy(w, n)
    BY <1>2, <1>3, <2>1, TidyNow
  <2>3. StepOf(w, w, n)
    BY <2>1, <2>2, StillStep
  <2> QED BY <2>2, <2>3 DEF Undisturbed
<1> DEFINE T == Own(w.unit, n)
<1> HIDE DEF T
<1>7. CASE QueueAssign(n)
  <2>1. PICK p \in Places : \E r \in Link(World, n, NewNode("assign", p, 1, None, {}), FALSE) : Become(r.w)
    BY <1>7 DEF QueueAssign
  <2>2. PICK r \in Link(World, n, NewNode("assign", p, 1, None, {}), FALSE) : Become(r.w)
    BY <2>1
  <2>3. PICK node : node = NewNode("assign", p, 1, None, {})
    OBVIOUS
  <2>4. NodeOK(w, n, T, node)
    <3>1. 1 \in Nat /\ {} \in SUBSET Troops /\ p \in Places \cup SeaActions
          /\ None \in Generals \cup {None} /\ None \in T \cup {None}
      OBVIOUS
    <3> QED BY <2>3, <3>1, NewNodeOK
  <2>5. node.action_mode \notin Sailing /\ node.action_mode # "travel2"
    BY <2>3 DEF NewNode, Sailing
  <2>6. r \in Link(w, n, node, FALSE)
    BY <1>3, <2>2, <2>3
  <2>7. Queued(w, w, n, node, r.w)
    BY <1>5, <2>4, <2>5, <2>6 DEF Queued, T
  <2> QED BY <1>3, <2>2, <2>7
<1>8. CASE QueueWorkers(n)
  <2>1. PICK p \in Places, k \in 1..MaxInstances :
          \E r \in Link(World, n, NewNode("worker", p, k, None, {}), FALSE) : Become(r.w)
    BY <1>8 DEF QueueWorkers
  <2>2. PICK r \in Link(World, n, NewNode("worker", p, k, None, {}), FALSE) : Become(r.w)
    BY <2>1
  <2>3. PICK node : node = NewNode("worker", p, k, None, {})
    OBVIOUS
  <2>4. NodeOK(w, n, T, node)
    <3>1. k \in Nat /\ k > 0 /\ {} \in SUBSET Troops /\ p \in Places \cup SeaActions
          /\ None \in Generals \cup {None} /\ None \in T \cup {None}
      BY QueueAssumption
    <3> QED BY <2>3, <3>1, NewNodeOK
  <2>5. node.action_mode \notin Sailing /\ node.action_mode # "travel2"
    BY <2>3 DEF NewNode, Sailing
  <2>6. r \in Link(w, n, node, FALSE)
    BY <1>3, <2>2, <2>3
  <2>7. Queued(w, w, n, node, r.w)
    BY <1>5, <2>4, <2>5, <2>6 DEF Queued, T
  <2> QED BY <1>3, <2>2, <2>7
<1>9. CASE QueueGiven(n)
  <2>1. PICK p \in Places, g \in Generals :
          /\ IsFree(World, n, g)
          /\ \/ \E r \in Link(World, n, NewNode("assign", p, 1, g, {}), TRUE) : Become(r.w)
             \/ \E v \in LinkAndProcess(World, n, NewNode("assign", p, 1, g, {})) : Become(v)
    BY <1>9 DEF QueueGiven
  <2>2. PICK node : node = NewNode("assign", p, 1, g, {})
    OBVIOUS
  <2>3. NodeOK(w, n, T, node)
    <3>1. g \in T
      BY <1>3, <2>1 DEF IsFree, T, Own, Units
    <3>2. 1 \in Nat /\ {} \in SUBSET Troops /\ p \in Places \cup SeaActions
          /\ g \in Generals \cup {None} /\ g \in T \cup {None}
      BY <3>1
    <3> QED BY <2>2, <3>2, NewNodeOK
  <2>3a. node.action_mode # "travel2"
    BY <2>2 DEF NewNode
  <2>4. CASE \E r \in Link(World, n, NewNode("assign", p, 1, g, {}), TRUE) : Become(r.w)
    <3>1. PICK r \in Link(World, n, NewNode("assign", p, 1, g, {}), TRUE) : Become(r.w)
      BY <2>4
    <3>2. r \in Link(w, n, node, TRUE)
      BY <1>3, <2>2, <3>1
    <3>3. Queued(w, w, n, node, r.w)
      BY <1>5, <2>3, <2>3a, <3>2 DEF Queued, T
    <3> QED BY <1>3, <3>1, <3>3
  <2>5. CASE \E v \in LinkAndProcess(World, n, NewNode("assign", p, 1, g, {})) : Become(v)
    <3>1. PICK v \in LinkAndProcess(World, n, NewNode("assign", p, 1, g, {})) : Become(v)
      BY <2>5
    <3>2. v \in LinkAndProcess(w, n, node)
      BY <1>3, <2>2, <3>1
    <3>3. Queued(w, w, n, node, v)
      BY <1>5, <2>3, <2>3a, <3>2 DEF Queued, T
    <3> QED BY <1>3, <3>1, <3>3
  <2> QED BY <2>1, <2>4, <2>5
<1>10. CASE QueueTravel(n)
  <2>1. PICK p \in SeaActions, G \in (SUBSET Troops) \ {{}} :
          /\ \A u \in G : IsInside(World, n, u)
          /\ \E v \in LinkAndProcess(Ordered(World, G, 0, "idle", None), n,
                                     NewNode("travel", p, Cardinality(G), None, G)) : Become(v)
    BY <1>10 DEF QueueTravel
  <2>2. PICK v \in LinkAndProcess(Ordered(World, G, 0, "idle", None), n,
                                  NewNode("travel", p, Cardinality(G), None, G)) : Become(v)
    BY <2>1
  <2>3. PICK x : x = Ordered(w, G, 0, "idle", None)
    OBVIOUS
  <2>4. /\ StepOf(w, x, n)
        /\ \A u \in G : /\ x.unit[u].nation_recno = n /\ x.unit[u].ai_action_id = 0
                        /\ x.unit[u].state = "idle"
    BY <1>3, <1>5, <2>1, <2>3, ComeOutStep
  <2>5. Sound(x) /\ Tidy(x, n)
    BY <1>5, <2>4, StepTidy DEF StepOf
  <2>6. PICK k : k = Cardinality(G)
    OBVIOUS
  <2>7. k \in Nat
    <3>1. G \subseteq Units
      BY DEF Units
    <3>2. IsFiniteSet(G)
      BY <3>1, FS_Subset, QueueAssumption
    <3> QED BY <2>6, <3>2, FS_CardinalityType
  <2>8. PICK node : node = NewNode("travel", p, k, None, G)
    OBVIOUS
  <2>9. NodeOK(x, n, Own(x.unit, n), node)
    <3> DEFINE S == Own(x.unit, n)
    <3>1. G \in SUBSET Troops /\ G # {} /\ p \in Places \cup SeaActions
          /\ None \in Generals \cup {None} /\ None \in S \cup {None}
      OBVIOUS
    <3> HIDE DEF S
    <3>2. NodeOK(x, n, S, node)
      BY <2>4, <2>6, <2>7, <2>8, <3>1, NewNodeOK
    <3> QED BY <3>2 DEF S
  <2>10. v \in LinkAndProcess(x, n, node)
    BY <1>3, <2>2, <2>3, <2>6, <2>8
  <2>11. node.action_mode # "travel2"
    BY <2>8 DEF NewNode
  <2>12. Undisturbed(w, x)
    <3> SUFFICES ASSUME NEW z \in Troops \cup Ships, w.unit[z].ai_action_id # 0
                 PROVE  x.unit[z] = w.unit[z]
      BY DEF Undisturbed
    <3>1. z \in Units /\ z \notin G
      BY <1>3, <1>5, <2>1 DEF Units, IsInside, Sound, UnitsOK, Within
    <3>2. /\ G \subseteq Units /\ \A z1 \in G \cap Generals : w.unit[z1].state # "training"
          /\ 0 \in Nat /\ "idle" \in States \ {"inside", "training"} /\ None \in Units \cup {None}
      BY <1>3, <2>1 DEF Units, IsInside, States
    <3>3. Orders(w, G, 0, "idle", None)
      BY <3>2 DEF Orders
    <3>4. PICK state : state = "idle"
      OBVIOUS
    <3>5. PICK id : id = 0
      OBVIOUS
    <3>6. PICK ship : ship = None
      OBVIOUS
    <3>7. Orders(w, G, id, state, ship) /\ x = Ordered(w, G, id, state, ship)
      BY <2>3, <3>3, <3>4, <3>5, <3>6
    <3> QED BY <1>5, <3>1, <3>7, OrderedUnits
  <2>13. Queued(w, x, n, node, v)
    BY <2>4, <2>5, <2>9, <2>10, <2>11, <2>12 DEF Queued
  <2> QED BY <1>3, <2>2, <2>13
<1> QED BY <1>7, <1>8, <1>9, <1>10

\* Its actions stay in order.
LEMMA QueuesTasks ==
  ASSUME IInv, Inv', NEW n \in AINations,
         QueueAssign(n) \/ QueueWorkers(n) \/ QueueGiven(n) \/ QueueTravel(n)
  PROVE  IInv'
<1>1. busy.call # "handover" /\ busy'.call # "handover" /\ n \in Nations
  <2>1. busy = Idle /\ busy' = busy /\ n \in Nations
    BY QueueAssumption DEF QueueAssign, QueueWorkers, QueueGiven, QueueTravel, Queueing
  <2> QED BY <2>1 DEF Idle
<1>2. PICK x, node, v : Queued(World, x, n, node, v) /\ Become(v)
  BY QueuedIs
<1>3. PICK w : w = World
  OBVIOUS
<1>4. PICK T : T = Own(x.unit, n)
  OBVIOUS
<1>5. /\ Sound(x) /\ Tidy(x, n) /\ StepOf(w, x, n) /\ NodeOK(x, n, T, node)
      /\ \/ v \in LinkAndProcess(x, n, node)
         \/ \E r \in Link(x, n, node, TRUE) : v = r.w
         \/ node.action_mode \notin Sailing /\ \E r \in Link(x, n, node, FALSE) : v = r.w
  BY <1>2, <1>3, <1>4 DEF Queued
<1>6. ASSUME NEW immediate, immediate \/ node.action_mode \notin Sailing,
             NEW r \in Link(x, n, node, immediate), v = r.w
      PROVE  StepOf(x, v, n)
  BY <1>4, <1>5, <1>6, LinkStep
<1>7. StepOf(x, v, n)
  <2>1. CASE v \in LinkAndProcess(x, n, node)
    BY <1>4, <1>5, <2>1, LinkAndProcessStep
  <2>2. CASE \E r \in Link(x, n, node, TRUE) : v = r.w
    BY <1>6, <2>2
  <2>3. CASE node.action_mode \notin Sailing /\ \E r \in Link(x, n, node, FALSE) : v = r.w
    BY <1>6, <2>3
  <2> QED BY <1>5, <2>1, <2>2, <2>3
<1>8. StepOf(w, v, n)
  BY <1>5, <1>7, StepChain
<1>9. StepOf(World, v, n)
  BY <1>3, <1>8
<1> QED BY <1>1, <1>2, <1>9, StepIs

\* A pass begins.
LEMMA PassBegins == ASSUME IInv, Inv', NEW n \in AINations, BeginPass(n) PROVE IInv'
<1>1. busy = Idle /\ busy'.call = "pass" /\ UNCHANGED <<ai, unit, train>> /\ n \in Nations
  BY QueueAssumption DEF BeginPass
<1>2. Sound(World) /\ Tasks(World, busy) /\ busy.call # "handover" /\ busy'.call # "handover"
  BY <1>1 DEF IInv, Inv, Idle
<1>3. PICK c : c = busy
  OBVIOUS
<1>4. Tidy(World, n)
  <2>1. Tasks(World, c) /\ c.call # "handover"
    BY <1>2, <1>3
  <2> QED BY <1>1, <2>1, TidyNow
<1>5. StepOf(World, World, n)
  BY <1>1, <1>2, <1>4, StillStep
<1>6. Become(World)
  BY <1>1 DEF Become, World
<1> QED BY <1>1, <1>2, <1>5, <1>6, StepIs

\* What holds of all reports that are to come holds of fewer.
LEMMA Looser ==
  ASSUME NEW w, NEW n, NEW T, Works(w, n, T, TRUE), NEW S, T \subseteq S
  PROVE  Works(w, n, S, FALSE)
<1>1. ASSUME NEW j \in DOMAIN Queue(w, n) PROVE TaskOK(w.unit, n, S, FALSE, Queue(w, n)[j])
  <2> DEFINE a == Queue(w, n)[j]
             g == w.unit
  <2>1. RecordOK(g, n, TRUE, a) /\ a.unit_recno \in T \cup {None}
    BY DEF Works, TaskOK
  <2> HIDE DEF a, g
  <2>2. RecordOK(g, n, FALSE, a)
    BY <2>1 DEF RecordOK, ShipOK
  <2>3. TaskOK(g, n, S, FALSE, a)
    BY <2>1, <2>2 DEF TaskOK
  <2> QED BY <2>3 DEF a, g
<1> QED BY <1>1 DEF Works, OwnIn

\* A nation is about to hand over its units: its reports matter no more.
LEMMA GivesUp ==
  ASSUME NEW w, NEW c, Tasks(w, c), c.call # "handover",
         NEW d, d.call = "handover", d.nation # d.to
  PROVE  Tasks(w, d)
<1>1. AINations \subseteq Nations
  BY QueueAssumption
<1>2. ASSUME NEW m \in AINations
      PROVE  Works(w, m, Team(w.unit, d, m), Full(d, m)) /\ Others(w, m, 0)
  <2> DEFINE g == w.unit
             T == Own(g, m)
  <2>1. Works(w, m, T, TRUE) /\ Others(w, m, 0)
    BY <1>1, TidyNow DEF Tidy
  <2>2. CASE m # d.nation
    <3>1. Full(d, m) = TRUE /\ Full(d, m)
      BY <2>2 DEF Full
    <3>2. Team(g, d, m) = T
      BY <3>1, TeamIs
    <3> HIDE DEF T
    <3> QED BY <2>1, <3>1, <3>2
  <2>3. CASE m = d.nation
    <3> DEFINE S == Team(g, d, m)
    <3>1. Full(d, m) = FALSE
      BY <2>3 DEF Full
    <3>2. T \subseteq S
      BY DEF Team, Own
    <3> HIDE DEF T, S, g
    <3>3. Works(w, m, S, FALSE)
      BY <2>1, <3>2, Looser
    <3> QED BY <2>1, <3>1, <3>3 DEF S, g
  <2> QED BY <2>2, <2>3
<1>3. \A m \in Nations \ AINations : Queue(w, m) = <<>>
  BY DEF Tasks
<1> QED BY <1>2, <1>3 DEF Tasks

\* It surrenders.
LEMMA HandOverBegins ==
  ASSUME IInv, Inv', NEW n \in Nations, NEW to \in Nations, BeginHandOver(n, to)
  PROVE  IInv'
<1>1. /\ busy = Idle /\ UNCHANGED <<ai, unit, train>> /\ n # to
      /\ busy' = [call |-> "handover", nation |-> n, to |-> to]
  BY DEF BeginHandOver
<1>2. Tasks(World, busy) /\ busy.call # "handover" /\ Sound(World)
  BY <1>1 DEF IInv, Inv, Idle
<1>3. PICK c : c = busy
  OBVIOUS
<1>4. PICK d : d = busy'
  OBVIOUS
<1>5. Tasks(World, d)
  <2>1. Tasks(World, c) /\ c.call # "handover" /\ d.call = "handover" /\ d.nation # d.to
    BY <1>1, <1>2, <1>3, <1>4
  <2> QED BY <2>1, GivesUp
<1>6. Become(World) /\ Tasks(World, busy')
  BY <1>1, <1>4, <1>5 DEF Become, World
<1> QED BY <1>2, <1>6, BecomingTasks

\* All units have been handed over: the queue is emptied.
LEMMA HandOverEnds ==
  ASSUME IInv, Inv', HandOverStep, \A u \in Units : unit[u].nation_recno # busy.nation
  PROVE  IInv'
<1> DEFINE n == busy.nation
<1>1. Sound(World) /\ busy \in Calls /\ busy.call = "handover" /\ Tasks(World, busy)
  BY DEF IInv, Inv, HandOverStep
<1>2. n \in Nations
  BY <1>1 DEF Calls, Idle
<1>3. /\ ai' = [ai EXCEPT ![n].action_array = <<>>, ![n].cur_pos = 0]
      /\ busy' = Idle /\ UNCHANGED <<unit, train>>
  BY DEF HandOverStep
<1>4. ai \in [Nations -> Queues]
  BY <1>1, Worlds DEF Sound, AiOK
<1>5. /\ ai'[n].action_array = <<>> /\ ai'[n].last_action_id = ai[n].last_action_id
      /\ \A m \in Nations : m # n => ai'[m] = ai[m]
  BY <1>2, <1>3, <1>4 DEF Queues
<1>6. PICK w : w = World
  OBVIOUS
<1>7. PICK v : v = World'
  OBVIOUS
<1>8. PICK c : c = busy
  OBVIOUS
<1> HIDE DEF n
<1>9. /\ v.unit = w.unit /\ Queue(v, n) = <<>>
      /\ v.ai[n].last_action_id = w.ai[n].last_action_id
      /\ \A m \in Nations : m # n => v.ai[m] = w.ai[m] /\ Queue(v, m) = Queue(w, m)
      /\ Tasks(w, c) /\ c.call = "handover" /\ c.nation = n
      /\ \A u \in Units : w.unit[u].nation_recno # n
  BY <1>1, <1>3, <1>5, <1>6, <1>7, <1>8 DEF World, Queue, n
<1>10. ASSUME NEW m \in AINations
       PROVE  Works(v, m, Team(v.unit, Idle, m), Full(Idle, m)) /\ Others(v, m, 0)
  <2>1. Full(Idle, m) = TRUE /\ Full(Idle, m) /\ m \in Nations
    BY QueueAssumption DEF Full, Idle
  <2>2. Team(v.unit, Idle, m) = Own(w.unit, m)
    BY <1>9, <2>1, TeamIs
  <2>3. CASE m # n
    <3>1. Full(c, m) = TRUE /\ Full(c, m)
      BY <1>9, <2>3 DEF Full
    <3>2. Team(w.unit, c, m) = Own(w.unit, m)
      BY <3>1, TeamIs
    <3> DEFINE T == Own(w.unit, m)
    <3>3. Works(w, m, Team(w.unit, c, m), Full(c, m)) /\ Others(w, m, 0)
      BY <1>9 DEF Tasks
    <3> HIDE DEF T
    <3>4. Works(w, m, T, TRUE)
      BY <3>1, <3>2, <3>3 DEF T
    <3>5. Works(v, m, T, TRUE) /\ Others(v, m, 0)
      BY <1>9, <2>1, <2>3, <3>3, <3>4 DEF Works, IdsOK, OwnIn, Others
    <3> QED BY <2>1, <2>2, <3>5 DEF T
  <2>4. CASE m = n
    <3> DEFINE T == Own(w.unit, m)
    <3>1. DOMAIN Queue(v, m) = {}
      BY <1>9, <2>4
    <3>2. IdsOK(v, m) /\ OwnIn(v, m, T)
      BY <1>9, <2>4 DEF IdsOK, OwnIn
    <3> HIDE DEF T
    <3>3. Works(v, m, T, TRUE) /\ Others(v, m, 0)
      BY <3>1, <3>2 DEF Works, Others
    <3> QED BY <2>1, <2>2, <3>3 DEF T
  <2> QED BY <2>3, <2>4
<1>11. \A m \in Nations \ AINations : Queue(v, m) = <<>>
  BY <1>9 DEF Tasks
<1>12. Tasks(v, Idle)
  <2>1. Idle.call # "handover"
    BY DEF Idle
  <2> QED BY <1>10, <1>11, <2>1 DEF Tasks
<1>13. Tasks(World', busy')
  BY <1>3, <1>7, <1>12
<1> QED BY <1>13 DEF IInv

\* A unit of the nation n, which hands over its units to another, has reported.
Handed(w, v, c, n, to, u) ==
  /\ Sound(v) /\ Apart(w, v, n)
  /\ n \in AINations => Works(v, n, Team(w.unit, c, n), FALSE) /\ Others(v, n, 0)
  /\ n \notin AINations =>
       /\ Queue(v, n) = Queue(w, n)
       /\ \A x \in Units : x # u => v.unit[x] = w.unit[x]
       /\ v.unit[u].state # "dead" => v.unit[u].ai_action_id = 0
  /\ \A x \in Units : /\ v.unit[x].nation_recno = w.unit[x].nation_recno
                      /\ v.unit[x].state = "dead" <=> w.unit[x].state = "dead"
                      /\ w.unit[x].nation_recno # n =>
                           (v.unit[x].state = "aboard" => w.unit[x].state = "aboard")
  /\ \A m \in AINations : m \notin {n, to} => Quiet(w.unit, v.unit, m)

\* That is what its report leaves.
LEMMA HandedIs ==
  ASSUME NEW w, Sound(w), NEW c, Tasks(w, c), c.call = "handover",
         NEW n \in Nations, n = c.nation, NEW to \in Nations, to = c.to,
         NEW u \in Units, w.unit[u].nation_recno = n,
         NEW v \in IF is_deleted(w, u) THEN {w} ELSE action_finished(w, u)
  PROVE  Handed(w, v, c, n, to, u)
<1> DEFINE T == Team(w.unit, c, n)
<1>1. Full(c, n) = FALSE /\ T = Own(w.unit, n) \cup Own(w.unit, to)
  BY DEF Full, Team, Own
<1> HIDE DEF T
<1>2. n \in AINations => Works(w, n, T, FALSE) /\ Others(w, n, 0)
  BY <1>1 DEF Tasks, T
<1>3. n \notin AINations => Queue(w, n) = <<>>
  BY DEF Tasks
<1>4. CASE is_deleted(w, u)
  <2>1. v = w
    BY <1>4
  <2>2. w.unit[u].state # "dead" => w.unit[u].ai_action_id = 0
    BY <1>4 DEF is_deleted, Sound, UnitsOK, Within
  <2>3. Apart(w, w, n) /\ \A m \in AINations : Quiet(w.unit, w.unit, m)
    BY DEF Apart, Quiet
  <2> QED BY <1>2, <2>1, <2>2, <2>3 DEF Handed, T
<1>5. CASE ~is_deleted(w, u)
  <2>1. v \in action_finished(w, u) /\ w.unit[u].state # "dead"
    BY <1>5 DEF is_deleted
  <2>2. CASE n \in AINations
    <3>1. Acted(w, v, n, T, FALSE) /\ Others(v, n, 0)
      <4>1. PICK low : low = FALSE
        OBVIOUS
      <4>2. PICK w0 : w0 = w
        OBVIOUS
      <4>3. low \in BOOLEAN /\ Works(w0, n, T, low) /\ Others(w0, n, 0)
        BY <1>2, <2>2, <4>1, <4>2
      <4>4. Reports(w0, w, n, u)
        BY <2>1, <4>2 DEF Reports
      <4>5. Acted(w, v, n, T, low) /\ Others(v, n, 0)
        BY <2>1, <4>3, <4>4, FinishedWorks
      <4> QED BY <4>1, <4>5
    <3>2. Calm(w.unit, v.unit, n, T)
      BY <3>1 DEF Acted
    <3>3. \A x \in Units : /\ v.unit[x].nation_recno = w.unit[x].nation_recno
                           /\ v.unit[x].state = "dead" <=> w.unit[x].state = "dead"
                           /\ w.unit[x].nation_recno # n =>
                                (v.unit[x].state = "aboard" => w.unit[x].state = "aboard")
      BY <3>2 DEF Calm
    <3>4. ASSUME NEW m \in AINations, m \notin {n, to} PROVE Quiet(w.unit, v.unit, m)
      <4>1. \A x \in T : w.unit[x].nation_recno # m
        BY <1>1, <3>4 DEF Own
      <4> QED BY <3>2, <3>4, <4>1 DEF Calm, Quiet
    <3> QED BY <2>2, <3>1, <3>3, <3>4 DEF Handed, Acted, T
  <2>3. CASE n \notin AINations
    <3>1. /\ Sound(v) /\ v.ai = w.ai
          /\ \A x \in Units : x # u => v.unit[x] = w.unit[x]
          /\ v.unit[u].nation_recno = n
          /\ v.unit[u].state = "dead" <=> w.unit[u].state = "dead"
          /\ w.unit[u].state # "dead" => v.unit[u].ai_action_id = 0
      BY <1>3, <2>1, <2>3, FinishedIdle
    <3>2. Apart(w, v, n) /\ Queue(v, n) = Queue(w, n)
      BY <3>1 DEF Apart, Queue
    <3> DEFINE g == w.unit
               h == v.unit
    <3>3. g[u].nation_recno = n /\ h[u].nation_recno = n /\ \A x \in Units : x # u => h[x] = g[x]
      BY <3>1
    <3>4. \A x \in Units : /\ h[x].nation_recno = g[x].nation_recno
                           /\ h[x].state = "dead" <=> g[x].state = "dead"
                           /\ g[x].nation_recno # n => (h[x].state = "aboard" => g[x].state = "aboard")
      BY <3>1
    <3> HIDE DEF g, h
    <3>5. \A m \in AINations : m # n => Quiet(g, h, m)
      BY <3>3, OneQuiet
    <3> QED BY <2>1, <2>3, <3>1, <3>2, <3>4, <3>5 DEF Handed, g, h
  <2> QED BY <2>2, <2>3
<1> QED BY <1>4, <1>5

\* A unit changes its nation,
ChangesTo(w, u, to) == [w EXCEPT !.unit[u].nation_recno = to]

\* and nothing else.
LEMMA NationUnits ==
  ASSUME NEW w, Sound(w), NEW u \in Units, NEW to \in Nations, NEW v, v = ChangesTo(w, u, to)
  PROVE  /\ Sound(v) /\ v.ai = w.ai
         /\ \A x \in Units : x # u => v.unit[x] = w.unit[x]
         /\ v.unit[u].nation_recno = to /\ v.unit[u].state = w.unit[u].state
         /\ v.unit[u].ai_action_id = w.unit[u].ai_action_id
<1> DEFINE b == [w.unit[u] EXCEPT !.nation_recno = to]
           g == [w.unit EXCEPT ![u] = b]
<1>1. IsWorld(w) /\ w.unit \in [Units -> UnitRecords] /\ w.unit[u] \in UnitRecords
  BY PartsOf DEF Sound, UnitsOK
<1>2. v = [w EXCEPT !.unit = g]
  BY <1>1 DEF IsWorld, ChangesTo
<1>3. Sound(v)
  BY NationIs DEF ChangesTo
<1>4. b.nation_recno = to /\ b.state = w.unit[u].state /\ b.ai_action_id = w.unit[u].ai_action_id
  BY <1>1 DEF UnitRecords
<1> HIDE DEF b
<1>5. g[u] = b /\ \A x \in Units : x # u => g[x] = w.unit[x]
  BY <1>1
<1> HIDE DEF g
<1>6. v.ai = w.ai /\ v.unit = g
  <2> DEFINE x == [w EXCEPT !.unit = g]
  <2>1. x.ai = w.ai /\ x.unit = g
    BY <1>1, UnitSet
  <2> QED BY ONLY <1>2, <2>1
<1> QED BY <1>3, <1>4, <1>5, <1>6

\* The units that come to a nation bring no action with them, and those it has keep theirs.
Unburdened(w, v, to) ==
  \A x \in Units : v.unit[x].nation_recno = to /\ v.unit[x].state # "dead"
    => v.unit[x].ai_action_id = IF w.unit[x].nation_recno = to THEN w.unit[x].ai_action_id ELSE 0

\* The unit u, which was of the nation n, is of the nation to.
Moved(v, y, n, to, u) ==
  /\ y.ai = v.ai /\ \A x \in Units : x # u => y.unit[x] = v.unit[x]
  /\ v.unit[u].nation_recno = n /\ y.unit[u].nation_recno = to
  /\ y.unit[u].state = v.unit[u].state /\ y.unit[u].ai_action_id = v.unit[u].ai_action_id

\* What remains to be said of the nation it leaves,
LEMMA GiverTasks ==
  ASSUME NEW w, NEW c, NEW n \in AINations, NEW to \in Nations, c.call = "handover", n = c.nation, to = c.to,
         n # to, NEW u \in Units, NEW v, Handed(w, v, c, n, to, u), NEW y, Moved(v, y, n, to, u)
  PROVE  Works(y, n, Team(y.unit, c, n), FALSE) /\ Others(y, n, 0)
<1> DEFINE T == Team(w.unit, c, n)
           g == v.unit
           h == y.unit
<1>1. n \in Nations /\ Sound(v)
  BY QueueAssumption DEF Handed
<1>2. Works(v, n, T, FALSE) /\ Others(v, n, 0)
  BY DEF Handed
<1>3. Team(h, c, n) = T
  <2>1. \A x \in Units : h[x].nation_recno \in {n, to} <=> w.unit[x].nation_recno \in {n, to}
    BY DEF Handed, Moved
  <2>2. Full(c, n) = FALSE
    BY DEF Full
  <2> QED BY <2>1, <2>2 DEF Team
<1>4. Queue(y, n) = Queue(v, n) /\ y.ai[n] = v.ai[n]
  BY DEF Moved, Queue
<1>5. \A x \in Units : x # u => h[x] = g[x]
  BY DEF Moved
<1>6. h[u].nation_recno # n
  BY DEF Moved
<1> HIDE DEF T, g, h
<1>7. ASSUME NEW j \in DOMAIN Queue(v, n) PROVE TaskOK(h, n, T, FALSE, Queue(v, n)[j])
  <2> DEFINE a == Queue(v, n)[j]
  <2>1. a \in Records
    BY <1>1, IdIs
  <2>2. RecordOK(g, n, FALSE, a) /\ a.unit_recno \in T \cup {None}
    BY <1>2 DEF Works, TaskOK, g
  <2> HIDE DEF a
  <2>3. RecordOK(h, n, FALSE, a)
    BY <1>5, <1>6, <2>1, <2>2, Leaves
  <2> QED BY <2>2, <2>3 DEF TaskOK, a
<1>8. IdsOK(y, n)
  <2> SUFFICES ASSUME NEW x \in Units, y.unit[x].nation_recno = n, y.unit[x].state # "dead"
               PROVE  y.unit[x].ai_action_id <= y.ai[n].last_action_id
    BY DEF IdsOK
  <2>1. y.unit[x] = v.unit[x]
    BY <1>5, <1>6 DEF g, h
  <2>2. v.unit[x].ai_action_id <= v.ai[n].last_action_id
    BY <1>2, <2>1 DEF Works, IdsOK
  <2> QED BY <1>4, <2>1, <2>2
<1>9. OwnIn(y, n, T)
  BY <1>3 DEF OwnIn, Team, h
<1>10. Works(y, n, T, FALSE)
  BY <1>4, <1>7, <1>8, <1>9 DEF Works, h
<1> QED BY <1>2, <1>3, <1>4, <1>10 DEF Others, h

\* of the nation it comes to,
LEMMA TakerTasks ==
  ASSUME NEW w, Sound(w), NEW c, Tasks(w, c), NEW n \in Nations, NEW to \in AINations,
         c.call = "handover", n = c.nation, to = c.to, n # to,
         NEW u \in Units, NEW v, Handed(w, v, c, n, to, u), NEW y, Moved(v, y, n, to, u),
         Unburdened(w, y, to)
  PROVE  Works(y, to, Team(y.unit, c, to), Full(c, to)) /\ Others(y, to, 0)
<1> DEFINE T == Own(w.unit, to)
           S == Own(y.unit, to)
           g == w.unit
           h == v.unit
           k == y.unit
<1>1. to \in Nations /\ Sound(v)
  BY QueueAssumption DEF Handed
<1>2. Full(c, to) = TRUE /\ Full(c, to)
  BY DEF Full
<1>3. Team(w.unit, c, to) = T /\ Team(y.unit, c, to) = S
  BY <1>2, TeamIs
<1>4. Works(w, to, T, TRUE) /\ Others(w, to, 0)
  <2>1. Works(w, to, Team(w.unit, c, to), Full(c, to)) /\ Others(w, to, 0)
    BY DEF Tasks
  <2> HIDE DEF T
  <2> QED BY <1>2, <1>3, <2>1
<1>5. /\ Queue(v, to) = Queue(w, to) /\ Queue(y, to) = Queue(w, to)
      /\ y.ai[to] = w.ai[to]
  BY <1>1 DEF Handed, Moved, Apart, Queue
<1>6. T \subseteq S
  BY DEF Handed, Moved, Own
<1>7. Gives(g, h, to, {}, 0)
  <2> SUFFICES ASSUME NEW x \in Units
               PROVE  /\ h[x].nation_recno = to <=> g[x].nation_recno = to
                      /\ g[x].nation_recno = to =>
                           /\ h[x].state = "dead" <=> g[x].state = "dead"
                           /\ g[x].state # "dead" => h[x].ai_action_id = g[x].ai_action_id
                           /\ h[x].state = "aboard" => g[x].state = "aboard"
    BY DEF Gives
  <2>1. h[x].nation_recno = g[x].nation_recno /\ (h[x].state = "dead" <=> g[x].state = "dead")
        /\ (g[x].nation_recno # n => (h[x].state = "aboard" => g[x].state = "aboard"))
    BY DEF Handed
  <2>2. ASSUME g[x].nation_recno = to, g[x].state # "dead" PROVE h[x].ai_action_id = g[x].ai_action_id
    <3>1. x # u /\ k[x] = h[x]
      BY <2>1, <2>2 DEF Moved
    <3> QED BY <2>1, <2>2, <3>1 DEF Unburdened
  <2> QED BY <2>1, <2>2
<1>8. \A x \in Units : x # u => k[x] = h[x]
  BY DEF Moved
<1>9. h[u].nation_recno # to
  BY DEF Moved
<1>10. k[u].state = "dead" \/ k[u].ai_action_id = 0
  <2>1. g[u].nation_recno # to /\ k[u].nation_recno = to
    BY DEF Handed, Moved
  <2> QED BY <2>1 DEF Unburdened
<1> HIDE DEF T, S, g, h, k
<1>11. ASSUME NEW j \in DOMAIN Queue(w, to) PROVE TaskOK(k, to, S, TRUE, Queue(w, to)[j])
  <2> DEFINE a == Queue(w, to)[j]
  <2>1. a \in Records /\ a.action_id # 0
    BY <1>1, IdIs
  <2>2. RecordOK(g, to, TRUE, a) /\ a.unit_recno \in T \cup {None}
    BY <1>4 DEF Works, TaskOK, g
  <2> HIDE DEF a
  <2>3. Spared(g, to, {}, a) /\ TRUE \in BOOLEAN
    BY DEF Spared
  <2>4. RecordOK(h, to, TRUE, a)
    BY <1>7, <2>1, <2>2, <2>3, OtherRecord
  <2>5. k[u].state = "dead" \/ k[u].ai_action_id # a.action_id
    BY <1>10, <2>1
  <2>6. RecordOK(k, to, TRUE, a)
    BY <1>8, <1>9, <2>1, <2>4, <2>5, Joins
  <2> QED BY <1>6, <2>2, <2>6 DEF TaskOK, a
<1>12. IdsOK(y, to)
  <2>1. w.ai[to].last_action_id \in Nat
    BY <1>1, PartsOf DEF Queues
  <2>2. 0 <= w.ai[to].last_action_id
    BY <2>1
  <2> SUFFICES ASSUME NEW x \in Units, y.unit[x].nation_recno = to, y.unit[x].state # "dead"
               PROVE  y.unit[x].ai_action_id <= y.ai[to].last_action_id
    BY DEF IdsOK
  <2>3. CASE w.unit[x].nation_recno = to
    <3>1. x # u /\ w.unit[x].state # "dead"
      BY <1>8, <1>9, <2>3 DEF Handed, Moved, g, h, k
    <3>2. w.unit[x].ai_action_id <= w.ai[to].last_action_id
      BY <1>4, <2>3, <3>1 DEF Works, IdsOK
    <3>3. y.unit[x].ai_action_id = w.unit[x].ai_action_id
      BY <2>3 DEF Unburdened
    <3> QED BY <1>5, <3>2, <3>3
  <2>4. CASE w.unit[x].nation_recno # to
    <3>1. y.unit[x].ai_action_id = 0
      BY <2>4 DEF Unburdened
    <3> QED BY <1>5, <2>2, <3>1
  <2> QED BY <2>3, <2>4
<1>13. OwnIn(y, to, S)
  BY DEF OwnIn, S, Own
<1>14. Works(y, to, S, TRUE) /\ Others(y, to, 0)
  BY <1>4, <1>5, <1>11, <1>12, <1>13 DEF Works, Others, k
<1> QED BY <1>2, <1>3, <1>14 DEF S

\* and of the others.
LEMMA HandedTasks ==
  ASSUME NEW w, Sound(w), NEW c, Tasks(w, c), c.call = "handover",
         NEW n \in Nations, n = c.nation, NEW to \in Nations, to = c.to,
         NEW u \in Units, NEW v, Handed(w, v, c, n, to, u), NEW y, Moved(v, y, n, to, u),
         to \in AINations => Unburdened(w, y, to)
  PROVE  Tasks(y, c)
<1>1. n # to /\ AINations \subseteq Nations
  BY QueueAssumption DEF Tasks
<1>2. ASSUME NEW m \in AINations
      PROVE  Works(y, m, Team(y.unit, c, m), Full(c, m)) /\ Others(y, m, 0)
  <2>1. CASE m = n
    <3>1. Full(c, n) = FALSE
      BY DEF Full
    <3>2. Works(y, n, Team(y.unit, c, n), FALSE) /\ Others(y, n, 0)
      BY <1>1, <2>1, GiverTasks
    <3> QED BY <2>1, <3>1, <3>2
  <2>2. CASE m = to
    <3>1. Works(y, to, Team(y.unit, c, to), Full(c, to)) /\ Others(y, to, 0)
      BY <1>1, <2>2, TakerTasks
    <3> QED BY <2>2, <3>1
  <2>3. CASE m \notin {n, to}
    <3> DEFINE T == Own(w.unit, m)
    <3>1. Full(c, m) = TRUE /\ Full(c, m) /\ m \in Nations
      BY <1>1, <2>3 DEF Full
    <3>2. Own(y.unit, m) = T
      <4>1. \A x \in Units : y.unit[x].nation_recno = m <=> w.unit[x].nation_recno = m
        BY <2>3 DEF Handed, Moved
      <4> QED BY <4>1 DEF Own
    <3>3. Team(w.unit, c, m) = T /\ Team(y.unit, c, m) = T
      BY <3>1, <3>2, TeamIs
    <3>4. Works(w, m, Team(w.unit, c, m), Full(c, m)) /\ Others(w, m, 0)
      BY DEF Tasks
    <3> HIDE DEF T
    <3>5. Works(w, m, T, TRUE) /\ Others(w, m, 0)
      BY <3>1, <3>3, <3>4
    <3>6. Quiet(w.unit, v.unit, m)
      BY <2>3 DEF Handed
    <3>7. Quiet(v.unit, y.unit, m)
      BY <2>3 DEF Moved, Quiet
    <3>8. Quiet(w.unit, y.unit, m)
      BY <3>6, <3>7, QuietChain
    <3>9. y.ai[m] = w.ai[m]
      BY <2>3, <3>1 DEF Handed, Moved, Apart
    <3>10. TRUE \in BOOLEAN
      OBVIOUS
    <3>11. Works(y, m, T, TRUE) /\ Others(y, m, 0)
      BY <3>1, <3>5, <3>8, <3>9, <3>10, QuietWorks
    <3> QED BY <3>1, <3>3, <3>11
  <2> QED BY <2>1, <2>2, <2>3
<1>3. ASSUME NEW m \in Nations \ AINations PROVE Queue(y, m) = <<>>
  <2>1. Queue(w, m) = <<>>
    BY DEF Tasks
  <2>2. Queue(v, m) = Queue(w, m)
    BY DEF Handed, Apart, Queue
  <2> QED BY <2>1, <2>2 DEF Moved, Queue
<1> QED BY <1>1, <1>2, <1>3 DEF Tasks

\* In no step of a hand over does a unit carry the id of an action to a nation of the AI.
NothingCarriedOver ==
  busy.call = "handover" /\ busy.to \in AINations => Unburdened(World, World', busy.to)

\* A unit is handed over.
LEMMA HandOverIs ==
  ASSUME Inv, Tasks(World, busy), HandOverStep,
         {u \in Units : unit[u].nation_recno = busy.nation} # {}
  PROVE  /\ busy' = busy /\ busy.nation \in Nations /\ busy.to \in Nations
         /\ \E u \in Units : \E v, y :
              /\ Handed(World, v, busy, busy.nation, busy.to, u)
              /\ Moved(v, y, busy.nation, busy.to, u)
              /\ Sound(y) /\ Become(y) /\ World' = y
<1> DEFINE left == {u \in Units : unit[u].nation_recno = busy.nation}
<1>1. Sound(World) /\ busy \in Calls /\ busy.call = "handover"
  BY DEF Inv, HandOverStep
<1>2. busy.nation \in Nations /\ busy.to \in Nations
  BY <1>1 DEF Calls, Idle
<1>3. PICK u \in left :
        \E v \in IF is_deleted(World, u) THEN {World} ELSE action_finished(World, u) :
          Become([v EXCEPT !.unit[u].nation_recno = busy.to])
  BY DEF HandOverStep
<1>4. PICK v \in IF is_deleted(World, u) THEN {World} ELSE action_finished(World, u) :
          Become([v EXCEPT !.unit[u].nation_recno = busy.to])
  BY <1>3
<1>5. busy' = busy
  BY DEF HandOverStep
<1>6. PICK w : w = World
  OBVIOUS
<1>7. PICK c : c = busy
  OBVIOUS
<1>8. PICK n : n = busy.nation
  OBVIOUS
<1>9. PICK to : to = busy.to
  OBVIOUS
<1>10. PICK y : y = ChangesTo(v, u, to)
  OBVIOUS
<1>11. /\ Sound(w) /\ Tasks(w, c) /\ c.call = "handover" /\ n \in Nations /\ n = c.nation
       /\ to \in Nations /\ to = c.to /\ u \in Units /\ w.unit[u].nation_recno = n
  BY <1>1, <1>2, <1>6, <1>7, <1>8, <1>9, Worlds
<1>12. v \in IF is_deleted(w, u) THEN {w} ELSE action_finished(w, u)
  BY <1>4, <1>6
<1> HIDE DEF left
<1>13. Handed(w, v, c, n, to, u)
  BY <1>11, <1>12, HandedIs
<1>14. Sound(v)
  BY <1>13 DEF Handed
<1>15. /\ Sound(y) /\ y.ai = v.ai
       /\ \A x \in Units : x # u => y.unit[x] = v.unit[x]
       /\ y.unit[u].nation_recno = to /\ y.unit[u].state = v.unit[u].state
       /\ y.unit[u].ai_action_id = v.unit[u].ai_action_id
  <2>1. u \in Units /\ to \in Nations /\ Sound(v) /\ y = ChangesTo(v, u, to)
    BY <1>10, <1>11, <1>14
  <2> QED BY ONLY <2>1, NationUnits
<1>16. Moved(v, y, n, to, u)
  BY <1>11, <1>13, <1>15 DEF Moved, Handed
<1>17. Become(y)
  BY <1>4, <1>9, <1>10 DEF ChangesTo
<1>18. World' = y
  BY <1>15, <1>17, PartsOf DEF World, Become, IsWorld
<1>19. /\ Handed(World, v, busy, busy.nation, busy.to, u)
       /\ Moved(v, y, busy.nation, busy.to, u)
  BY <1>6, <1>7, <1>8, <1>9, <1>13, <1>16
<1> QED BY <1>2, <1>5, <1>11, <1>15, <1>17, <1>18, <1>19

\* One step of a hand over.
LEMMA HandOverTasks ==
  ASSUME IInv, Inv', HandOverStep, NothingCarriedOver
  PROVE  IInv'
<1> DEFINE left == {u \in Units : unit[u].nation_recno = busy.nation}
<1>1. Inv /\ Sound(World) /\ busy.call = "handover" /\ Tasks(World, busy)
  BY DEF IInv, Inv, HandOverStep
<1>2. CASE left = {}
  BY <1>2, HandOverEnds
<1>3. CASE left # {}
  <2>1. /\ busy' = busy /\ busy.nation \in Nations /\ busy.to \in Nations
        /\ \E u \in Units : \E v, y :
             /\ Handed(World, v, busy, busy.nation, busy.to, u)
             /\ Moved(v, y, busy.nation, busy.to, u)
             /\ Sound(y) /\ Become(y) /\ World' = y
    BY <1>1, <1>3, HandOverIs
  <2>2. PICK u \in Units : \E v, y :
          /\ Handed(World, v, busy, busy.nation, busy.to, u)
          /\ Moved(v, y, busy.nation, busy.to, u)
          /\ Sound(y) /\ Become(y) /\ World' = y
    BY <2>1
  <2>3. PICK v, y :
          /\ Handed(World, v, busy, busy.nation, busy.to, u)
          /\ Moved(v, y, busy.nation, busy.to, u)
          /\ Sound(y) /\ Become(y) /\ World' = y
    BY <2>2
  <2>4. busy.to \in AINations => Unburdened(World, y, busy.to)
    BY <1>1, <2>3 DEF NothingCarriedOver
  <2>5. PICK w : w = World
    OBVIOUS
  <2>6. PICK c : c = busy
    OBVIOUS
  <2>7. PICK n : n = busy.nation
    OBVIOUS
  <2>8. PICK to : to = busy.to
    OBVIOUS
  <2> HIDE DEF left
  <2>9. /\ Sound(w) /\ Tasks(w, c) /\ c.call = "handover" /\ n \in Nations /\ n = c.nation
        /\ to \in Nations /\ to = c.to
        /\ Handed(w, v, c, n, to, u) /\ Moved(v, y, n, to, u)
        /\ (to \in AINations => Unburdened(w, y, to))
    BY <1>1, <2>1, <2>3, <2>4, <2>5, <2>6, <2>7, <2>8
  <2>10. Tasks(y, c)
    BY <2>9, HandedTasks
  <2>11. Tasks(y, busy')
    BY <2>1, <2>6, <2>10
  <2> QED BY <2>3, <2>11, BecomingTasks
<1> QED BY <1>2, <1>3

\* With one nation of the AI nothing is carried over: who has no actions tells its units to stop.
LEMMA OneAI ==
  ASSUME \A m, n \in AINations : m = n, IInv, [Next]_vars
  PROVE  NothingCarriedOver
<1> SUFFICES ASSUME busy.call = "handover", busy.to \in AINations
             PROVE  Unburdened(World, World', busy.to)
  BY DEF NothingCarriedOver
<1>1. Inv /\ Tasks(World, busy) /\ busy.nation # busy.to
  BY DEF IInv, Tasks
<1>2. busy.nation \notin AINations
  BY <1>1
<1>3. CASE unit' = unit
  <2>1. World'.unit = World.unit
    BY <1>3, Worlds DEF World
  <2> QED BY <2>1 DEF Unburdened
<1>4. CASE HandOverStep /\ unit' # unit
  <2>1. {u \in Units : unit[u].nation_recno = busy.nation} # {}
    BY <1>4 DEF HandOverStep
  <2>2. \E u \in Units : \E v, y :
          /\ Handed(World, v, busy, busy.nation, busy.to, u)
          /\ Moved(v, y, busy.nation, busy.to, u)
          /\ Sound(y) /\ Become(y) /\ World' = y
    BY <1>1, <1>4, <2>1, HandOverIs
  <2>3. PICK u \in Units : \E v, y :
          /\ Handed(World, v, busy, busy.nation, busy.to, u)
          /\ Moved(v, y, busy.nation, busy.to, u)
          /\ World' = y
    BY <2>2
  <2>4. PICK v, y :
          /\ Handed(World, v, busy, busy.nation, busy.to, u)
          /\ Moved(v, y, busy.nation, busy.to, u)
          /\ World' = y
    BY <2>3
  <2>5. PICK w : w = World
    OBVIOUS
  <2>6. /\ \A x \in Units : x # u => y.unit[x] = w.unit[x]
        /\ w.unit[u].nation_recno # busy.to
        /\ y.unit[u].state # "dead" => y.unit[u].ai_action_id = 0
    BY <1>1, <1>2, <2>4, <2>5 DEF Handed, Moved
  <2>7. Unburdened(w, y, busy.to)
    BY <2>6 DEF Unburdened
  <2> QED BY <2>5, <2>7, <2>4
<1>5. HandOverStep \/ unit' = unit
  <2>1. busy # Idle /\ busy.call # "pass"
    BY DEF Idle
  <2> QED BY <2>1 DEF Next, QueueAssign, QueueWorkers, QueueGiven, QueueTravel, Queueing, vars,
             InPass, PassStep, BeginPass, FinishTraining, CancelTraining, Enter, Stop, GoHome, Die, Board, ShipReports,
             NextDay, BeginHandOver
<1> QED BY <1>3, <1>4, <1>5

-----------------------------------------------------------------------------
(* The theorems, continued: the actions stay in order.                     *)

\* Whatever happens, the actions stay in order.
LEMMA TasksKept == IInv /\ Inv' /\ [Next]_vars /\ NothingCarriedOver => IInv'
<1> SUFFICES ASSUME IInv, Inv', [Next]_vars, NothingCarriedOver PROVE IInv'
  OBVIOUS
<1>1. ASSUME NEW n \in AINations,
             QueueAssign(n) \/ QueueWorkers(n) \/ QueueGiven(n) \/ QueueTravel(n)
      PROVE  IInv'
  BY <1>1, QueuesTasks
<1>2. ASSUME NEW n \in AINations, BeginPass(n) PROVE IInv'
  BY <1>2, PassBegins
<1>3. CASE PassStep
  BY <1>3, PassTasks
<1>4. CASE FinishTraining \/ CancelTraining
  BY <1>4, TrainingTasks, CancelTasks
<1>5. ASSUME NEW u \in Units, Enter(u) \/ Stop(u) \/ GoHome(u) \/ Die(u) PROVE IInv'
  BY <1>5, EntersTasks, StopsTasks, GoesHomeTasks, DiesTasks
<1>6. ASSUME NEW u \in Troops, Board(u) PROVE IInv'
  BY <1>6, BoardsTasks
<1>7. ASSUME NEW s \in Ships, ShipReports(s) PROVE IInv'
  BY <1>7, ShipsTasks
<1>8. CASE NextDay
  BY <1>8, DayTasks
<1>9. ASSUME NEW n \in Nations, NEW to \in Nations, BeginHandOver(n, to) PROVE IInv'
  BY <1>9, HandOverBegins
<1>10. CASE HandOverStep
  BY <1>10, HandOverTasks
<1>11. CASE UNCHANGED vars
  <2>1. World' = World /\ busy' = busy
    BY <1>11 DEF vars, World
  <2> QED BY <2>1 DEF IInv
<1> QED BY <1>1, <1>2, <1>3, <1>4, <1>5, <1>6, <1>7, <1>8, <1>9, <1>10, <1>11 DEF Next

\* At first there are none.
LEMMA TasksBegin == Init => IInv
<1> SUFFICES ASSUME Init PROVE IInv
  OBVIOUS
<1>1. Inv /\ Sound(World)
  BY Beginning DEF Inv
<1>2. PICK w : w = World
  OBVIOUS
<1>3. \A n \in Nations : Queue(w, n) = <<>> /\ w.ai[n].last_action_id = 0
  BY <1>2, Worlds DEF Init, Queue
<1>4. \A u \in Units : w.unit[u].ai_action_id = 0
  BY <1>2, Worlds DEF Init
<1>5. ASSUME NEW n \in AINations
      PROVE  Works(w, n, Team(w.unit, Idle, n), Full(Idle, n)) /\ Others(w, n, 0)
  <2> DEFINE T == Own(w.unit, n)
             low == Full(Idle, n)
  <2>1. Team(w.unit, Idle, n) = T
    <3>1. Full(Idle, n)
      BY DEF Full, Idle
    <3> QED BY <3>1, TeamIs
  <2>2. n \in Nations /\ DOMAIN Queue(w, n) = {}
    BY <1>3, QueueAssumption
  <2>3. IdsOK(w, n)
    <3>1. 0 <= 0
      OBVIOUS
    <3> QED BY <1>3, <1>4, <2>2, <3>1 DEF IdsOK
  <2>4. OwnIn(w, n, T)
    BY DEF OwnIn, Own
  <2> HIDE DEF T, low
  <2>5. Works(w, n, T, low) /\ Others(w, n, 0)
    BY <2>2, <2>3, <2>4 DEF Works, Others
  <2> QED BY <2>1, <2>5 DEF low
<1>6. busy = Idle /\ Idle.call # "handover"
  BY DEF Init, Idle
<1>7. Tasks(w, Idle)
  BY <1>3, <1>5, <1>6 DEF Tasks
<1> QED BY <1>1, <1>2, <1>6, <1>7 DEF IInv

\* The counts of an action say that it can still leave the queue.
LEMMA CanLeave ==
  ASSUME NEW g, NEW n, NEW a \in Records, RecordOK(g, n, TRUE, a),
         ~(a.retry_count > 0), a.processing_instance_count # a.instance_count
  PROVE  Outstanding(a) \in 1..Cardinality(Awaited(g, n, a))
<1>1. CountOK(a) /\ LowerOK(g, n, a)
  BY DEF RecordOK
<1>2. /\ a.processed_instance_count \in Nat /\ a.processing_instance_count \in Nat
      /\ a.instance_count \in Nat /\ a.retry_count \in Nat /\ a.action_mode \in Modes
      /\ Outstanding(a) = a.processing_instance_count - a.processed_instance_count
  BY CountsAre
<1>3. a.retry_count = 0
  BY <1>2
<1>4. a.processed_instance_count < a.processing_instance_count
      /\ a.processing_instance_count <= a.instance_count
  BY <1>1, <1>3 DEF CountOK
<1>5. a.action_mode = "worker"
  <2>1. a.action_mode # "assign"
    <3> SUFFICES ASSUME a.instance_count = 1 PROVE FALSE
      BY <1>1 DEF CountOK
    <3> QED BY <1>2, <1>4
  <2>2. a.action_mode \notin Sailing
    BY <1>1 DEF CountOK
  <2>3. a.action_mode # "travel3"
    <3> SUFFICES ASSUME a.processing_instance_count = 0 PROVE FALSE
      BY <1>1 DEF CountOK
    <3> QED BY <1>2, <1>4
  <2> QED BY <1>2, <2>1, <2>2, <2>3 DEF Modes, TravelModes, Sailing
<1>6. Outstanding(a) <= Cardinality(Awaited(g, n, a))
  BY <1>1, <1>5 DEF LowerOK
<1>7. Cardinality(Awaited(g, n, a)) \in Nat
  BY AwaitedFinite
<1>8. Outstanding(a) >= 1 /\ Outstanding(a) \in Nat
  BY <1>2, <1>4
<1> QED BY <1>6, <1>7, <1>8

\* What the invariant says of the actions of a nation.
LEMMA InOrder ==
  ASSUME IInv, NEW n \in Nations, NEW a \in Actions(n)
  PROVE  /\ CountOK(a) /\ a \in Records
         /\ busy.call # "handover" => RecordOK(unit, n, TRUE, a) /\ Reporters(n, a) = Awaited(unit, n, a)
<1>1. Sound(World) /\ Tasks(World, busy)
  BY DEF IInv, Inv
<1>2. PICK j \in DOMAIN Queue(World, n) : a = Queue(World, n)[j]
  BY Worlds DEF Actions, ToSet, Queue
<1>3. a \in Records
  BY <1>1, <1>2, PartsOf
<1>4. n \in AINations
  <2> SUFFICES ASSUME n \notin AINations PROVE FALSE
    OBVIOUS
  <2>1. Queue(World, n) = <<>>
    BY <1>1 DEF Tasks
  <2> QED BY <1>2, <2>1
<1>5. RecordOK(unit, n, Full(busy, n), a)
  <2>1. PICK c : c = busy
    OBVIOUS
  <2>2. PICK w : w = World
    OBVIOUS
  <2>3. Works(w, n, Team(w.unit, c, n), Full(c, n))
    BY <1>1, <1>4, <2>1, <2>2 DEF Tasks
  <2>4. RecordOK(w.unit, n, Full(c, n), a)
    BY <1>2, <2>2, <2>3 DEF Works, TaskOK
  <2> QED BY <2>1, <2>2, <2>4, Worlds
<1>6. CountOK(a)
  BY <1>5 DEF RecordOK
<1>7. ASSUME busy.call # "handover"
      PROVE  RecordOK(unit, n, TRUE, a) /\ Reporters(n, a) = Awaited(unit, n, a)
  <2>1. Full(busy, n) = TRUE
    BY <1>7 DEF Full
  <2>2. Reporters(n, a) = Awaited(unit, n, a)
    BY DEF Reporters, Awaited, Holders
  <2> QED BY <1>5, <2>1, <2>2
<1> QED BY <1>3, <1>6, <1>7

\* The three properties of the actions.
LEMMA TasksSay == IInv => CountsInOrder /\ ReportersExist /\ NeverStuck
<1> SUFFICES ASSUME IInv PROVE CountsInOrder /\ ReportersExist /\ NeverStuck
  OBVIOUS
<1>1. CountsInOrder
  BY InOrder DEF CountsInOrder, CountOK
<1>2. ReportersExist
  <2> SUFFICES ASSUME busy.call # "handover", NEW n \in Nations, NEW a \in Actions(n),
                      a.action_mode \in {"worker", "travel", "travel2"}
               PROVE  Outstanding(a) <= Cardinality(Reporters(n, a))
    BY DEF ReportersExist
  <2>1. RecordOK(unit, n, TRUE, a) /\ Reporters(n, a) = Awaited(unit, n, a)
    BY InOrder
  <2>2. LowerOK(unit, n, a)
    BY <2>1 DEF RecordOK
  <2> QED BY <2>1, <2>2 DEF LowerOK, Sailing
<1>3. NeverStuck
  <2> SUFFICES ASSUME busy.call # "handover", NEW n \in Nations, NEW a \in Actions(n),
                      ~(a.retry_count > 0), a.processing_instance_count # a.instance_count
               PROVE  Outstanding(a) \in 1..Cardinality(Reporters(n, a))
    BY DEF NeverStuck
  <2>1. RecordOK(unit, n, TRUE, a) /\ Reporters(n, a) = Awaited(unit, n, a) /\ a \in Records
    BY InOrder
  <2>2. Outstanding(a) \in 1..Cardinality(Awaited(unit, n, a))
    BY <2>1, CanLeave
  <2> QED BY <2>1, <2>2
<1> QED BY <1>1, <1>2, <1>3

\* The actions are in order as long as hand_over_to brings no such unit.
LEMMA TasksHold == Spec /\ [][NothingCarriedOver]_vars => []IInv
<1>1. Init => IInv
  BY TasksBegin
<1>2. IInv /\ Inv' /\ [Next]_vars /\ [NothingCarriedOver]_vars => IInv'
  <2> SUFFICES ASSUME IInv, Inv', [Next]_vars, [NothingCarriedOver]_vars PROVE IInv'
    OBVIOUS
  <2>1. CASE NothingCarriedOver
    BY <2>1, TasksKept
  <2>2. CASE UNCHANGED vars
    <3>1. World' = World /\ busy' = busy
      BY <2>2 DEF vars, World
    <3> QED BY <3>1 DEF IInv
  <2> QED BY <2>1, <2>2
<1> QED BY <1>1, <1>2, ActionQueueInvariant, PTL DEF Spec

\* With any number of nations of the AI: the counts of every action stay in order, the units
\* its outstanding instances are waiting for exist, and it can leave the queue, as long as
\* hand_over_to brings a nation of the AI no unit that still holds the id of an action.
THEOREM ActionsInOrder ==
  Spec /\ [][NothingCarriedOver]_vars => [](CountsInOrder /\ ReportersExist /\ NeverStuck)
<1>1. IInv => CountsInOrder /\ ReportersExist /\ NeverStuck
  BY TasksSay
<1> QED BY <1>1, TasksHold, PTL

\* With one nation of the AI it brings none.
LEMMA TasksInvariant ==
  ASSUME \A m, n \in AINations : m = n
  PROVE  Spec => []IInv
<1>1. Init => IInv
  BY TasksBegin
<1>2. IInv /\ Inv' /\ [Next]_vars => IInv'
  BY OneAI, TasksKept
<1> QED BY <1>1, <1>2, ActionQueueInvariant, PTL DEF Spec

\* CountsInOrder of every instance with one nation of the AI: the two err_when of
\* Nation::process_action and Nation::action_finished never fire.
THEOREM CountsStayInOrder ==
  ASSUME \A m, n \in AINations : m = n
  PROVE  Spec => []CountsInOrder
<1>1. IInv => CountsInOrder
  BY TasksSay
<1> QED BY <1>1, TasksInvariant, PTL

\* ReportersExist: Nation::action_finished will be called for every outstanding instance.
THEOREM ReportersAreThere ==
  ASSUME \A m, n \in AINations : m = n
  PROVE  Spec => []ReportersExist
<1>1. IInv => ReportersExist
  BY TasksSay
<1> QED BY <1>1, TasksInvariant, PTL

\* NeverStuck: no action stays in action_array for ever and keeps add_action from queueing
\* it again.
THEOREM ActionsCanLeave ==
  ASSUME \A m, n \in AINations : m = n
  PROVE  Spec => []NeverStuck
<1>1. IInv => NeverStuck
  BY TasksSay
<1> QED BY <1>1, TasksInvariant, PTL

-----------------------------------------------------------------------------
(* Who works for an action is not taken over by another.                   *)

\* People and ships that work for a queued action get no other one.
Keeps(w, v) ==
  \A x \in Troops \cup Ships :
    LET k == w.unit[x].ai_action_id
        m == w.unit[x].nation_recno
    IN  /\ w.unit[x].state # "aboard"
        /\ v.unit[x].ai_action_id \notin {0, k} /\ k # 0
        => \A j \in DOMAIN Queue(v, m) : Queue(v, m)[j].action_id # k

\* They do if they get none at all.
LEMMA NoneGot ==
  ASSUME NEW w, NEW v,
         \A x \in Troops \cup Ships :
           w.unit[x].state # "aboard" /\ w.unit[x].ai_action_id # 0
             => v.unit[x].ai_action_id \in {0, w.unit[x].ai_action_id}
  PROVE  Keeps(w, v)
BY DEF Keeps

\* Units only stop.
NoneCalled(w, v) == \A x \in Units : v.unit[x].ai_action_id \in {0, w.unit[x].ai_action_id}

\* They do if they give up what they do after that.
LEMMA KeptStill ==
  ASSUME NEW w, NEW v, Keeps(w, v), NEW y, y.ai = v.ai, NoneCalled(v, y)
  PROVE  Keeps(w, y)
<1> SUFFICES ASSUME NEW x \in Troops \cup Ships, w.unit[x].state # "aboard",
                    y.unit[x].ai_action_id \notin {0, w.unit[x].ai_action_id},
                    w.unit[x].ai_action_id # 0
             PROVE  \A j \in DOMAIN Queue(y, w.unit[x].nation_recno) :
                      Queue(y, w.unit[x].nation_recno)[j].action_id # w.unit[x].ai_action_id
  BY DEF Keeps
<1>1. v.unit[x].ai_action_id \notin {0, w.unit[x].ai_action_id}
  BY DEF NoneCalled, Units
<1>2. \A m : Queue(y, m) = Queue(v, m)
  BY DEF Queue
<1> QED BY <1>1, <1>2 DEF Keeps

\* The records that stay keep their places.
SamePlaces(s, t) == \A j \in DOMAIN s \cap DOMAIN t : t[j].action_id = s[j].action_id

\* The last record is processed: the others keep their places.
LEMMA LastPlaces ==
  ASSUME NEW w, Sound(w), NEW n \in Nations, NEW i, i >= Len(Queue(w, n)), NEW v, Processed(w, v, n, i)
  PROVE  SamePlaces(Queue(w, n), Queue(v, n))
<1> DEFINE s == Queue(w, n)
           t == Queue(v, n)
<1>1. /\ DOMAIN s = 1..Len(s) /\ DOMAIN t = 1..Len(t) /\ Len(s) \in Nat /\ Len(t) \in Nat
      /\ SameIds(s, t) \/ (i \in DOMAIN s /\ Shorter(s, t, i))
  BY PartsOf DEF Processed
<1>2. i >= Len(s)
  OBVIOUS
<1> HIDE DEF s, t
<1>3. ASSUME SameIds(s, t) PROVE SamePlaces(s, t)
  BY <1>1, <1>3 DEF SameIds, SamePlaces
<1>4. ASSUME i \in DOMAIN s /\ Shorter(s, t, i) PROVE SamePlaces(s, t)
  <2> SUFFICES ASSUME NEW j \in DOMAIN s \cap DOMAIN t PROVE t[j].action_id = s[j].action_id
    BY DEF SamePlaces
  <2>1. i = Len(s) /\ j \in 1..(Len(s) - 1) /\ j < i
    BY <1>1, <1>2, <1>4 DEF Shorter
  <2> QED BY <1>4, <2>1 DEF Shorter
<1> QED BY <1>1, <1>3, <1>4 DEF s, t

\* An action is queued and processed, and the last record is processed once more: the records
\* before it keep their places.
LEMMA QueuedPlaces ==
  ASSUME NEW w, Sound(w), NEW n \in Nations, NEW T, NEW low \in BOOLEAN, Works(w, n, T, low),
         NEW node, NodeOK(w, n, T, node), NEW v \in LinkAndProcess(w, n, node)
  PROVE  SamePlaces(Queue(w, n), Queue(v, n))
<1>1. PICK r \in Link(w, n, node, TRUE) :
        (r.recno = 0 /\ v = r.w) \/ v \in ProcessOne(r.w, n, r.recno, TRUE)
  BY DEF LinkAndProcess
<1> DEFINE x == r.w
           s == Queue(w, n)
<1>2. Sound(x) /\ r.recno = Len(Queue(x, n))
  <2>1. /\ Acted(w, x, n, T, low) /\ r.recno = Len(Queue(x, n))
        /\ \A d : Others(w, n, d) => Others(x, n, d)
    BY LinkWorks
  <2> QED BY <2>1 DEF Acted
<1>3. \E z : /\ Sound(z) /\ Len(Queue(z, n)) = Len(s) + 1
             /\ \A j \in 1..Len(s) : Queue(z, n)[j] = s[j]
             /\ x \in ProcessOne(z, n, Len(s) + 1, TRUE)
  <2> DEFINE id == w.ai[n].last_action_id + 1
             a == [node EXCEPT !.action_id = id, !.retry_count = STD_ACTION_RETRY_COUNT, !.age = 0,
                               !.processing_instance_count = 0, !.processed_instance_count = 0]
             y == [w EXCEPT !.ai[n] = [action_array |-> Append(@.action_array, a),
                                       cur_pos |-> Len(@.action_array) + 1,
                                       last_action_id |-> id]]
  <2>1. \E p \in ProcessOne(y, n, y.ai[n].cur_pos, TRUE) : r = [w |-> p, recno |-> p.ai[n].cur_pos]
    BY DEF Link, id
  <2>2. a \in Records /\ a.action_id = id
    <3> DEFINE k == STD_ACTION_RETRY_COUNT
               b == [node EXCEPT !.action_id = id, !.retry_count = k]
    <3>1. id \in Nat /\ k \in 0..k /\ 0 \in 0..(Overdue + 1) /\ 0 \in Nat /\ node \in Records
      BY QueueAssumption, PartsOf DEF Queues, NodeOK
    <3>2. a = [b EXCEPT !.age = 0, !.processing_instance_count = 0, !.processed_instance_count = 0]
      OBVIOUS
    <3>3. b = [node EXCEPT !.action_id = id, !.retry_count = k]
      OBVIOUS
    <3> HIDE DEF b, a, id
    <3>4. b \in Records /\ b.action_id = id
      BY <3>1, <3>3 DEF Records
    <3>5. a \in Records /\ a.action_id = b.action_id
      BY <3>1, <3>2, <3>4 DEF Records
    <3> QED BY <3>4, <3>5
  <2>3. y = Linked(w, n, a)
    <3> HIDE DEF a
    <3> QED BY <2>2 DEF Linked
  <2> HIDE DEF a, y
  <2>4. Sound(y)
    <3>1. a.action_id = w.ai[n].last_action_id + 1
      BY <2>2 DEF id
    <3> QED BY <2>2, <2>3, <3>1, LinkedIs DEF Linked
  <2>5. /\ Len(Queue(y, n)) = Len(s) + 1 /\ y.ai[n].cur_pos = Len(s) + 1
        /\ \A j \in 1..Len(s) : Queue(y, n)[j] = s[j]
    BY <2>2, <2>3, LinkedQueue
  <2>6. x \in ProcessOne(y, n, y.ai[n].cur_pos, TRUE)
    <3>1. PICK p \in ProcessOne(y, n, y.ai[n].cur_pos, TRUE) :
            r = [w |-> p, recno |-> p.ai[n].cur_pos]
      BY ONLY <2>1
    <3>2. r.w = p
      BY ONLY <3>1
    <3> QED BY <3>2
  <2> QED BY <2>4, <2>5, <2>6
<1>4. PICK z : /\ Sound(z) /\ Len(Queue(z, n)) = Len(s) + 1
               /\ \A j \in 1..Len(s) : Queue(z, n)[j] = s[j]
               /\ x \in ProcessOne(z, n, Len(s) + 1, TRUE)
  BY <1>3
<1> HIDE DEF x
<1>5. SamePlaces(Queue(z, n), Queue(x, n))
  <2>1. Processed(z, x, n, Len(s) + 1)
    BY <1>4, ProcessOneIs
  <2>2. Len(s) + 1 >= Len(Queue(z, n))
    BY <1>4, PartsOf
  <2> QED BY <1>4, <2>1, <2>2, LastPlaces
<1>6. SamePlaces(Queue(x, n), Queue(v, n)) /\ DOMAIN Queue(v, n) \subseteq DOMAIN Queue(x, n)
  <2>1. CASE v = x
    BY <2>1 DEF SamePlaces
  <2>2. CASE v \in ProcessOne(x, n, r.recno, TRUE)
    <3>1. Processed(x, v, n, r.recno)
      BY <1>2, <2>2, ProcessOneIs DEF x
    <3>2. r.recno >= Len(Queue(x, n))
      BY <1>2, PartsOf DEF x
    <3>3. SamePlaces(Queue(x, n), Queue(v, n))
      BY <1>2, <3>1, <3>2, LastPlaces DEF x
    <3>4. Len(Queue(v, n)) = Len(Queue(x, n)) \/ Len(Queue(v, n)) = Len(Queue(x, n)) - 1
      BY <3>1 DEF Processed, SameIds, Shorter
    <3>5. Sound(v) /\ Sound(x)
      BY <1>2, <3>1 DEF Processed, x
    <3>6. /\ DOMAIN Queue(v, n) = 1..Len(Queue(v, n)) /\ Len(Queue(v, n)) \in Nat
          /\ DOMAIN Queue(x, n) = 1..Len(Queue(x, n)) /\ Len(Queue(x, n)) \in Nat
      BY <3>5, PartsOf
    <3>7. Len(Queue(v, n)) <= Len(Queue(x, n))
      <4> DEFINE d == Len(Queue(v, n))
                 e == Len(Queue(x, n))
      <4>1. (d = e \/ d = e - 1) /\ d \in Nat /\ e \in Nat
        BY <3>4, <3>6
      <4> HIDE DEF d, e
      <4>2. d <= e
        BY ONLY <4>1
      <4> QED BY <4>2 DEF d, e
    <3> QED BY <3>3, <3>6, <3>7
  <2> QED BY <1>1, <2>1, <2>2 DEF x
<1>7. DOMAIN s = 1..Len(s) /\ Len(s) \in Nat /\ DOMAIN Queue(z, n) = 1..(Len(s) + 1)
  BY <1>4, PartsOf
<1> HIDE DEF s
<1>8. ASSUME NEW j \in DOMAIN s \cap DOMAIN Queue(v, n)
      PROVE  Queue(v, n)[j].action_id = s[j].action_id
  <2>1. j \in DOMAIN Queue(x, n) /\ j \in DOMAIN Queue(z, n) /\ j \in 1..Len(s)
    BY <1>6, <1>7
  <2> QED BY <1>4, <1>5, <1>6, <2>1 DEF SamePlaces
<1> QED BY <1>8 DEF SamePlaces, s

\* Then nobody gets another action.
LEMMA StoppingKeeps ==
  ASSUME NEW w, NEW v, NoneCalled(w, v)
  PROVE  Keeps(w, v)
<1>1. \A x \in Troops \cup Ships : v.unit[x].ai_action_id \in {0, w.unit[x].ai_action_id}
  BY DEF NoneCalled, Units
<1> QED BY <1>1, NoneGot

\* The id of a record that has been removed after a follow-up was queued is no record's any more.
LEMMA NoneLeft ==
  ASSUME NEW y, Sound(y), NEW n \in Nations, NEW x, Sound(x),
         SamePlaces(Queue(y, n), Queue(x, n)), NEW i \in DOMAIN Queue(y, n),
         NEW v, v = del_action(x, n, i)
  PROVE  \A j \in DOMAIN Queue(v, n) : Queue(v, n)[j].action_id # Queue(y, n)[i].action_id
<1> DEFINE s == Queue(y, n)
           t == Queue(x, n)
           r == Queue(v, n)
           k == s[i].action_id
<1>1. /\ DOMAIN s = 1..Len(s) /\ Len(s) \in Nat /\ DOMAIN t = 1..Len(t) /\ Len(t) \in Nat
      /\ i \in DOMAIN s /\ SamePlaces(s, t)
  BY PartsOf
<1>2. /\ \A j, l \in DOMAIN s : s[j].action_id = s[l].action_id => j = l
      /\ \A j, l \in DOMAIN t : t[j].action_id = t[l].action_id => j = l
  <2>1. QueueOK(y.ai[n]) /\ QueueOK(x.ai[n])
    BY PartsOf
  <2> QED BY <1>1, <2>1 DEF QueueOK, Queue
<1>3. i \notin DOMAIN t => r = t
  BY DEF del_action
<1>4. i \in DOMAIN t => /\ DOMAIN r = 1..(Len(t) - 1)
                        /\ \A j \in 1..(Len(t) - 1) : r[j] = IF j < i THEN t[j] ELSE t[j + 1]
  <2> SUFFICES ASSUME i \in DOMAIN t
               PROVE  /\ DOMAIN r = 1..(Len(t) - 1)
                      /\ \A j \in 1..(Len(t) - 1) : r[j] = IF j < i THEN t[j] ELSE t[j + 1]
    OBVIOUS
  <2>1. Sound(v) /\ Removed(x, v, n, i)
    BY DeletedIs
  <2> QED BY <2>1, PartsOf DEF Removed
<1> HIDE DEF s, t, r
<1>5. ASSUME NEW j \in DOMAIN t, j # i PROVE t[j].action_id # k
  <2>1. CASE i \in DOMAIN t
    <3>1. t[i].action_id = k
      BY <1>1, <2>1 DEF SamePlaces
    <3> QED BY <1>2, <1>5, <2>1, <3>1
  <2>2. CASE i \notin DOMAIN t
    <3>1. j \in DOMAIN s
      BY <1>1, <2>2
    <3>2. t[j].action_id = s[j].action_id
      BY <1>1, <3>1 DEF SamePlaces
    <3> QED BY <1>1, <1>2, <1>5, <3>1, <3>2
  <2> QED BY <2>1, <2>2
<1>6. ASSUME NEW j \in DOMAIN r PROVE r[j].action_id # k
  <2>1. CASE i \notin DOMAIN t
    BY <1>3, <1>5, <1>6, <2>1
  <2>2. CASE i \in DOMAIN t
    <3>1. j \in 1..(Len(t) - 1) /\ j \in DOMAIN t /\ j + 1 \in DOMAIN t
      BY <1>1, <1>4, <1>6, <2>2
    <3>2. CASE j < i
      <4>1. r[j] = t[j] /\ j # i
        BY <1>1, <1>4, <2>2, <3>1, <3>2
      <4> QED BY <1>5, <3>1, <4>1
    <3>3. CASE ~(j < i)
      <4>1. r[j] = t[j + 1] /\ j + 1 # i
        BY <1>1, <1>4, <2>2, <3>1, <3>3
      <4> QED BY <1>5, <3>1, <4>1
    <3> QED BY <3>2, <3>3
  <2> QED BY <2>1, <2>2
<1> QED BY <1>6 DEF r, s

\* The next part of a sea travel takes nobody from an action that is left: its ship has worked for
\* the part that is over.
LEMMA NextKeeps ==
  ASSUME NEW n \in Nations, NEW u \in Units, NEW w0, NEW w, Reports(w0, w, n, u),
         NEW T, NEW low \in BOOLEAN, Works(w0, n, T, low), Others(w0, n, 0),
         NEW i, NEW a, NEW b, NEW y, ReportsTo(w, n, u, i, a, b, y),
         a.action_mode \in Sailing, Works(y, n, T, low),
         NEW x, Sound(x), QueuesNext(y, n, T, b, x),
         NEW v, v = del_action(x, n, i)
  PROVE  Keeps(w0, v)
<1> USE DEF ReportsTo
<1>1. /\ Sound(w) /\ Sound(w0) /\ w.unit[u].nation_recno = n
      /\ w.unit[u].ai_action_id = w0.unit[u].ai_action_id
      /\ \A z \in Units : z # u => w.unit[z] = w0.unit[z]
      /\ w.unit[u].state # "dead" => w = w0
  BY DEF Reports
<1>2. a \in Records /\ b.action_mode = a.action_mode /\ b.action_id = a.action_id
  <2>1. a \in Records
    BY <1>1, PartsOf
  <2> QED BY <2>1, ReportIs
<1>3. HasStopped(w, y, u, n, i, a)
  BY <1>1, StoppedWorks
<1>4. /\ Sound(y) /\ \A z \in Units : z # u => y.unit[z] = w.unit[z]
      /\ y.unit[u].ai_action_id \in {0, w.unit[u].ai_action_id} \/ w.unit[u].state = "dead"
  BY <1>3 DEF HasStopped
<1>5. i \in DOMAIN Queue(y, n) /\ Queue(y, n)[i].action_id = w.unit[u].ai_action_id
  <2>1. Replaced(w, y, n, i, b)
    BY <1>3 DEF HasStopped
  <2>2. DOMAIN Queue(w, n) = 1..Len(Queue(w, n)) /\ DOMAIN Queue(y, n) = 1..Len(Queue(y, n))
    BY <1>1, <1>4, PartsOf
  <2>3. Len(Queue(y, n)) = Len(Queue(w, n)) /\ Queue(y, n)[i] = b
    BY <2>1, <2>2 DEF Replaced
  <2> QED BY <1>2, <2>2, <2>3
<1>6. PICK node : /\ NodeOK(y, n, T, node) /\ node.action_mode \in {"travel2", "travel3"}
                  /\ node.action_mode = "travel2" =>
                       b.action_mode = "travel" /\ node.action_para2 = b.action_para2
                  /\ x \in LinkAndProcess(y, n, node)
  BY DEF QueuesNext
<1> SUFFICES ASSUME NEW z \in Troops \cup Ships, w0.unit[z].state # "aboard",
                    v.unit[z].ai_action_id \notin {0, w0.unit[z].ai_action_id},
                    w0.unit[z].ai_action_id # 0
             PROVE  \A j \in DOMAIN Queue(v, w0.unit[z].nation_recno) :
                      Queue(v, w0.unit[z].nation_recno)[j].action_id # w0.unit[z].ai_action_id
  BY DEF Keeps
<1>7. v.unit = x.unit
  <2>1. IsWorld(x)
    BY PartsOf
  <2> QED BY <2>1, QueueOnly
<1>8. z \in Units /\ y.unit[z].ai_action_id \in {0, w0.unit[z].ai_action_id}
  <2>1. z \in Units
    BY DEF Units
  <2>2. CASE z # u
    BY <1>1, <1>4, <2>1, <2>2
  <2>3. CASE z = u /\ w.unit[u].state # "dead"
    BY <1>1, <1>4, <2>1, <2>3
  <2>4. CASE z = u /\ w.unit[u].state = "dead"
    BY <1>1, <1>3, <2>1, <2>4 DEF HasStopped, Waits, is_deleted
  <2> QED BY <2>1, <2>2, <2>3, <2>4
<1>9. Steady(y, z)
  <2>1. w0.unit[z].state # "inside"
    BY <1>1, <1>8 DEF Sound, UnitsOK, Within
  <2>2. CASE z # u
    BY <1>1, <1>4, <1>8, <2>1, <2>2 DEF Steady
  <2>3. CASE z = u
    BY <1>1, <1>3, <2>1, <2>3 DEF HasStopped, Steady
  <2> QED BY <2>2, <2>3
<1>10. node.action_mode \in Sailing /\ z \in Called(y, n, node)
  <2> SUFFICES ASSUME ~(node.action_mode \in Sailing /\ z \in Called(y, n, node)) PROVE FALSE
    OBVIOUS
  <2>1. x.unit[z] = y.unit[z]
    BY <1>4, <1>6, <1>9, LinkAndProcessLeaves
  <2> QED BY <1>7, <1>8, <2>1
<1>11. node.action_mode = "travel2" /\ a.action_mode = "travel" /\ z = b.action_para2
       /\ HasShip(y, n, b)
  BY <1>2, <1>6, <1>10 DEF Called, Sailing, HasShip
<1>12. z \in Ships /\ y.unit[z].nation_recno = n /\ y.unit[z].ai_action_id = w.unit[u].ai_action_id
  BY <1>11, ShipWorks
<1>13. w0.unit[z].nation_recno = n /\ w0.unit[z].ai_action_id = w.unit[u].ai_action_id
  <2>1. y.unit[z].ai_action_id = w0.unit[z].ai_action_id
    BY <1>8, <1>12
  <2>2. CASE z # u
    BY <1>1, <1>4, <1>8, <1>12, <2>1, <2>2
  <2>3. CASE z = u
    BY <1>1, <2>3 DEF Reports
  <2> QED BY <1>12, <2>1, <2>2, <2>3
<1>14. SamePlaces(Queue(y, n), Queue(x, n))
  BY <1>4, <1>6, QueuedPlaces
<1> QED BY <1>4, <1>5, <1>13, <1>14, NoneLeft

\* A unit reports, and what follows from it: nobody else is taken from an action that is left.
LEMMA FinishedKeeps ==
  ASSUME NEW n \in Nations, NEW u \in Units, NEW w0, NEW w, Reports(w0, w, n, u),
         NEW T, NEW low \in BOOLEAN, Works(w0, n, T, low), Others(w0, n, 0),
         NEW v \in action_finished(w, u)
  PROVE  Keeps(w0, v)
<1> DEFINE k == w.unit[u].ai_action_id
           i == RecnoOf(w, n, k)
           a == Queue(w, n)[i]
           b == Report(w, u, a)
           y == Stopped(w, u, n, i, a)
<1>1. /\ Sound(w) /\ w.ai = w0.ai /\ w.unit[u].nation_recno = n
      /\ w0.unit[u].ai_action_id = k
      /\ \A x \in Units : x # u => w.unit[x] = w0.unit[x]
  BY PartsOf DEF Reports
<1>2. CASE v = w
  <2>1. NoneCalled(w0, w)
    BY <1>1 DEF NoneCalled
  <2> QED BY <1>2, <2>1, StoppingKeeps
<1>3. CASE v = stop_unit_action(w, u)
  <2>1. CASE is_deleted(w, u)
    <3>1. v = w
      BY <1>3, <2>1 DEF stop_unit_action
    <3> QED BY <1>2, <3>1
  <2>2. CASE ~is_deleted(w, u)
    <3> DEFINE state == IF w.unit[u].state = "aboard" THEN "aboard" ELSE "idle"
    <3>1. v = Doing(w, u, state, 0)
      BY <1>3, <2>2 DEF stop_unit_action
    <3> HIDE DEF state
    <3>2. v.unit[u].ai_action_id = 0 /\ \A x \in Units : x # u => v.unit[x] = w.unit[x]
      BY <1>1, <3>1, DoingUnits
    <3>3. NoneCalled(w0, v)
      BY <1>1, <3>2 DEF NoneCalled
    <3> QED BY <3>3, StoppingKeeps
  <2> QED BY <2>1, <2>2
<1>4. CASE k # 0 /\ i # 0 /\ ~IsSecondReport(w, a, u)
  <2>1. i \in DOMAIN Queue(w, n) /\ a.action_id = k
    <3> DEFINE e == i
    <3>1. e = RecnoOf(w, n, k) /\ e # 0
      BY <1>4
    <3> HIDE DEF e, k
    <3>2. Finds(w, n, k, e)
      BY <1>1, <3>1, RecnoIs
    <3>3. e \in DOMAIN Queue(w, n) /\ Queue(w, n)[e].action_id = k
      BY <3>1, <3>2 DEF Finds
    <3> QED BY <3>3 DEF e
  <2>2. v \in IF AllDone(b) THEN {del_action(x, n, i) : x \in auto_next_action(y, n, b)} ELSE {y}
    BY <1>1, <1>4 DEF action_finished, Report, Stopped, Waits
  <2> HIDE DEF i
  <2>3. a \in Records
    BY <1>1, <2>1, PartsOf
  <2> HIDE DEF a
  <2>4. k # 0 /\ a = Queue(w, n)[i] /\ ~IsSecondReport(w, a, u)
    BY <1>4 DEF a
  <2>5. ReportsTo(w, n, u, i, a, b, y)
    BY <2>1, <2>4 DEF ReportsTo
  <2>6. /\ Sound(y) /\ Replaced(w, y, n, i, b)
        /\ \A j \in DOMAIN Queue(w, n) : j # i => TaskOK(y.unit, n, T, low, Queue(w, n)[j])
        /\ IdsOK(y, n) /\ OwnIn(y, n, T)
        /\ a.action_mode \in Sailing \/ ~AllDone(b) => TaskOK(y.unit, n, T, low, b)
    <3> HIDE DEF b, y, k
    <3> QED BY <2>5, StoppedTasks
  <2>7. /\ b \in Records /\ b.action_mode = a.action_mode
        /\ b.instance_count = a.instance_count /\ b.unit_recno = a.unit_recno
    BY <2>3, ReportIs
  <2>8. NoneCalled(w0, y)
    <3>1. HasStopped(w, y, u, n, i, a)
      <4> HIDE DEF y, b
      <4> QED BY <1>1, <2>1, <2>4, <2>5, StoppedWorks DEF ReportsTo
    <3>2. /\ \A x \in Units : x # u => y.unit[x] = w.unit[x]
          /\ y.unit[u].ai_action_id \in {0, k}
      BY <3>1, <1>1 DEF HasStopped, Waits, is_deleted
    <3> HIDE DEF y, k
    <3> QED BY <1>1, <3>2 DEF NoneCalled, k
  <2>9. CASE AllDone(b) /\ a.action_mode \in Sailing
    <3>1. PICK x \in auto_next_action(y, n, b) : v = del_action(x, n, i)
      BY <2>2, <2>9
    <3>2. Works(y, n, T, low)
      <4>1. DOMAIN Queue(w, n) = 1..Len(Queue(w, n)) /\ DOMAIN Queue(y, n) = 1..Len(Queue(y, n))
        BY <1>1, <2>6, PartsOf
      <4>2. \A j \in DOMAIN Queue(y, n) : TaskOK(y.unit, n, T, low, Queue(y, n)[j])
        BY <2>6, <2>9, <4>1 DEF Replaced
      <4> QED BY <2>6, <4>2 DEF Works
    <3>3. ASSUME b.action_mode = "travel", HasShip(y, n, b), NEW j \in DOMAIN Queue(y, n)
          PROVE  Spared(y.unit, n, {b.action_para2}, Queue(y, n)[j])
      <4>1. a.action_mode = "travel" /\ AllDone(b)
        BY <2>7, <2>9, <3>3
      <4> HIDE DEF b, y, k
      <4> QED BY <2>5, <3>3, <4>1, ShipSpared
    <3>4. b.instance_count > 0 /\ b.unit_recno \in T \cup {None}
      <4>1. Queue(w0, n) = Queue(w, n)
        BY <1>1 DEF Queue
      <4>2. TaskOK(w0.unit, n, T, low, a)
        BY <2>1, <2>4, <4>1 DEF Works
      <4> QED BY <2>7, <4>2 DEF TaskOK, RecordOK, CountOK
    <3> HIDE DEF b, y, k
    <3>5. /\ Acted(y, x, n, T, low) /\ \A d : Others(y, n, d) => Others(x, n, d)
          /\ QueuesNext(y, n, T, b, x)
      BY <2>6, <2>7, <2>9, <3>1, <3>2, <3>3, <3>4, NextActionWorks
    <3>6. Sound(x)
      BY <3>5 DEF Acted
    <3> QED BY <2>5, <2>9, <3>1, <3>2, <3>5, <3>6, NextKeeps
  <2>10. CASE AllDone(b) /\ a.action_mode \notin Sailing
    <3>1. v = del_action(y, n, i)
      <4>1. auto_next_action(y, n, b) = {y}
        BY <2>7, <2>10 DEF auto_next_action, Sailing
      <4> QED BY <2>2, <2>10, <4>1
    <3> HIDE DEF b, y, k
    <3>2. v.unit = y.unit
      BY <2>6, <3>1, PartsOf, QueueOnly
    <3>3. NoneCalled(w0, v)
      BY <2>8, <3>2 DEF NoneCalled
    <3> QED BY <3>3, StoppingKeeps
  <2>11. CASE ~AllDone(b)
    BY <2>2, <2>8, <2>11, StoppingKeeps
  <2> QED BY <2>9, <2>10, <2>11
<1>5. v = w \/ v = stop_unit_action(w, u) \/ (k # 0 /\ i # 0 /\ ~IsSecondReport(w, a, u))
  BY <1>1 DEF action_finished
<1> QED BY <1>2, <1>3, <1>4, <1>5

\* A unit whose nation has no actions reports: it only stops.
LEMMA IdleKeeps ==
  ASSUME NEW w0, NEW w, NEW n \in Nations, NEW u \in Units, Reports(w0, w, n, u),
         Queue(w0, n) = <<>>, NEW v \in action_finished(w, u)
  PROVE  Keeps(w0, v)
<1>1. /\ Sound(w) /\ w.ai = w0.ai /\ w.unit[u].nation_recno = n /\ u \in Units
      /\ w.unit[u].ai_action_id = w0.unit[u].ai_action_id
      /\ \A x \in Units : x # u => w.unit[x] = w0.unit[x]
  BY DEF Reports
<1>2. Queue(w, n) = <<>>
  BY <1>1 DEF Queue
<1>3. RecnoOf(w, n, w.unit[u].ai_action_id) = 0
  BY <1>2 DEF RecnoOf
<1>4. v = w \/ v = stop_unit_action(w, u)
  BY <1>1, <1>3 DEF action_finished
<1>5. CASE v = w
  <2>1. NoneCalled(w0, w)
    BY <1>1 DEF NoneCalled
  <2> QED BY <1>5, <2>1, StoppingKeeps
<1>6. ASSUME v # w, v = stop_unit_action(w, u) PROVE Keeps(w0, v)
  <2> DEFINE state == IF w.unit[u].state = "aboard" THEN "aboard" ELSE "idle"
  <2>1. v = Doing(w, u, state, 0)
    BY <1>6 DEF stop_unit_action
  <2> HIDE DEF state
  <2>2. v.unit[u].ai_action_id = 0 /\ \A x \in Units : x # u => v.unit[x] = w.unit[x]
    BY <1>1, <2>1, DoingUnits
  <2>3. NoneCalled(w0, v)
    BY <1>1, <2>2 DEF NoneCalled
  <2> QED BY <2>3, StoppingKeeps
<1> QED BY <1>4, <1>5, <1>6

\* A report keeps them at their actions.
LEMMA ReportKeeps ==
  ASSUME NEW w0, NEW c, Tasks(w0, c), NEW n \in Nations, NEW u \in Units,
         NEW w, Reports(w0, w, n, u), NEW v \in action_finished(w, u)
  PROVE  Keeps(w0, v)
<1>1. CASE n \in AINations
  <2> DEFINE T == Team(w0.unit, c, n)
             low == Full(c, n)
  <2>1. Works(w0, n, T, low) /\ Others(w0, n, 0) /\ low \in BOOLEAN
    BY <1>1 DEF Tasks, Full
  <2> HIDE DEF T, low
  <2> QED BY <2>1, FinishedKeeps
<1>2. CASE n \notin AINations
  <2>1. Queue(w0, n) = <<>>
    BY <1>2 DEF Tasks
  <2> QED BY <2>1, IdleKeeps
<1> QED BY <1>1, <1>2

\* Who is as he was keeps his action.
LEMMA UndisturbedKeeps ==
  ASSUME NEW w, NEW v, Undisturbed(w, v)
  PROVE  Keeps(w, v)
<1>1. \A x \in Troops \cup Ships :
        w.unit[x].state # "aboard" /\ w.unit[x].ai_action_id # 0
          => v.unit[x].ai_action_id \in {0, w.unit[x].ai_action_id}
  BY DEF Undisturbed
<1> QED BY <1>1, NoneGot

\* No handler calls him.
LEMMA HolderSteady ==
  ASSUME NEW w0, Sound(w0), NEW w, Undisturbed(w0, w), NEW x \in Troops \cup Ships,
         w0.unit[x].state # "aboard", w0.unit[x].ai_action_id # 0
  PROVE  Steady(w, x) /\ w.unit[x] = w0.unit[x]
<1>1. w0.unit[x].state # "inside"
  BY DEF Sound, UnitsOK, Within, Units
<1>2. w.unit[x] = w0.unit[x]
  BY DEF Undisturbed
<1> QED BY <1>1, <1>2 DEF Steady

\* The processing of a record leaves him alone, ...
LEMMA ProcessKeeps ==
  ASSUME NEW w0, Sound(w0), NEW w, Sound(w), Undisturbed(w0, w), NEW n \in Nations, Tidy(w, n),
         NEW i, NEW priority, NEW v \in ProcessOne(w, n, i, priority)
  PROVE  Keeps(w0, v)
<1>1. ASSUME NEW x \in Troops \cup Ships, w0.unit[x].state # "aboard", w0.unit[x].ai_action_id # 0
      PROVE  v.unit[x] = w0.unit[x]
  <2>1. Steady(w, x) /\ w.unit[x] = w0.unit[x]
    BY <1>1, HolderSteady
  <2>2. Uncalled(w, n, i, x)
    <3>1. CASE n \in AINations
      BY <3>1 DEF Uncalled, Tidy, Works, TaskOK, RecordOK
    <3>2. CASE n \notin AINations
      BY <3>2 DEF Uncalled, Tidy
    <3> QED BY <3>1, <3>2
  <2>3. v.unit[x] = w.unit[x]
    BY <2>1, <2>2, ProcessOneLeaves
  <2> QED BY <2>1, <2>3
<1>2. Undisturbed(w0, v)
  BY <1>1 DEF Undisturbed
<1> QED BY <1>2, UndisturbedKeeps

\* ... and so does the queueing of a new action by the AI.
LEMMA QueueingKeeps ==
  ASSUME NEW w0, Sound(w0), NEW w, Sound(w), Undisturbed(w0, w), NEW n \in AINations, Tidy(w, n),
         NEW T, T = Own(w.unit, n), NEW node, NodeOK(w, n, T, node), node.action_mode # "travel2",
         NEW v, NEW immediate,
         \/ \E r \in Link(w, n, node, immediate) : v = r.w
         \/ v \in LinkAndProcess(w, n, node)
  PROVE  Keeps(w0, v)
<1>1. n \in Nations /\ Works(w, n, T, TRUE)
  BY QueueAssumption DEF Tidy
<1>2. ASSUME NEW x \in Troops \cup Ships, w0.unit[x].state # "aboard", w0.unit[x].ai_action_id # 0
      PROVE  v.unit[x] = w0.unit[x]
  <2>1. Steady(w, x) /\ w.unit[x] = w0.unit[x]
    BY <1>2, HolderSteady
  <2>2. node.action_mode \in Sailing => x \notin Called(w, n, node)
    BY <1>2, <2>1 DEF Sailing, Called, NodeOK
  <2>3. CASE \E r \in Link(w, n, node, immediate) : v = r.w
    <3>1. PICK r \in Link(w, n, node, immediate) : v = r.w
      BY <2>3
    <3>2. node \in Records
      BY DEF NodeOK
    <3>3. r.w.unit[x] = w.unit[x]
      BY <1>1, <2>1, <2>2, <3>2, LinkLeaves
    <3> QED BY <2>1, <3>1, <3>3
  <2>4. CASE v \in LinkAndProcess(w, n, node)
    <3>1. PICK low \in BOOLEAN : low = TRUE
      OBVIOUS
    <3>2. Works(w, n, T, low)
      BY <1>1, <3>1
    <3>3. v.unit[x] = w.unit[x]
      BY <1>1, <2>1, <2>2, <2>4, <3>2, LinkAndProcessLeaves
    <3> QED BY <2>1, <3>3
  <2> QED BY <2>3, <2>4
<1>3. Undisturbed(w0, v)
  BY <1>2 DEF Undisturbed
<1> QED BY <1>3, UndisturbedKeeps

\* The step that leads to a world
LEMMA BecomingKeeps ==
  ASSUME NEW v, Keeps(World, v), Become(v)
  PROVE  Keeps(World, World')
<1>1. World'.ai = v.ai /\ World'.unit = v.unit
  BY DEF World, Become
<1>2. \A m : Queue(World', m) = Queue(v, m)
  BY <1>1 DEF Queue
<1> QED BY <1>1, <1>2 DEF Keeps

\* A report in a step of the AI's nations.
LEMMA ReportNow ==
  ASSUME IInv, NEW u \in Units, unit[u].state # "dead", NEW v \in action_finished(World, u)
  PROVE  Keeps(World, v) /\ Sound(v)
<1>1. Sound(World) /\ Tasks(World, busy) /\ World.unit[u] = unit[u] /\ unit[u] \in UnitRecords
  BY UnitIn DEF IInv, Inv
<1>2. PICK w : w = World
  OBVIOUS
<1>3. PICK c : c = busy
  OBVIOUS
<1>4. PICK n : n = World.unit[u].nation_recno
  OBVIOUS
<1>5. Sound(w) /\ Tasks(w, c) /\ n \in Nations /\ v \in action_finished(w, u)
  BY <1>1, <1>2, <1>3, <1>4 DEF UnitRecords
<1>6. Reports(w, w, n, u)
  BY <1>1, <1>2, <1>4, <1>5 DEF Reports
<1>7. Keeps(w, v)
  BY <1>5, <1>6, ReportKeeps
<1>8. Sound(v)
  BY <1>5, FinishedIs
<1> QED BY <1>2, <1>7, <1>8

\* Who has reported does something else.
LEMMA ReportThenKeeps ==
  ASSUME IInv, NEW u \in Units, unit[u].state # "dead", NEW v \in action_finished(World, u),
         NEW state, NEW id \in {0, v.unit[u].ai_action_id}, Become(Doing(v, u, state, id))
  PROVE  Keeps(World, World')
<1>1. Keeps(World, v) /\ Sound(v)
  BY ReportNow
<1>2. PICK y : y = Doing(v, u, state, id)
  OBVIOUS
<1>3. NoneCalled(v, y)
  <2>1. /\ y.unit[u].ai_action_id = id /\ \A x \in Units : x # u => y.unit[x] = v.unit[x]
    BY <1>1, <1>2, DoingUnits
  <2> QED BY <2>1 DEF NoneCalled
<1>4. y.ai = v.ai
  BY <1>1, <1>2, DoingAi DEF Sound
<1>5. Keeps(World, y)
  <2>1. PICK w : w = World
    OBVIOUS
  <2>2. Keeps(w, v)
    BY <1>1, <2>1
  <2>3. Keeps(w, y)
    BY <1>3, <1>4, <2>2, KeptStill
  <2> QED BY <2>1, <2>3
<1>6. Become(y)
  BY <1>2
<1> QED BY <1>5, <1>6, BecomingKeeps

\* A unit enters, boards, stops or goes home, or a ship reports.
LEMMA UnitsKeep ==
  ASSUME IInv, NEW u \in Units,
         Enter(u) \/ Stop(u) \/ GoHome(u) \/ (u \in Troops /\ Board(u)) \/ (u \in Ships /\ ShipReports(u))
  PROVE  Keeps(World, World')
<1>1. CASE Enter(u)
  <2>1. PICK v \in action_finished(World, u) : Become(Doing(v, u, "inside", 0))
    BY <1>1 DEF Enter
  <2>2. unit[u].state # "dead"
    BY <1>1 DEF Enter
  <2> QED BY <2>1, <2>2, ReportThenKeeps
<1>2. CASE Stop(u)
  <2>1. PICK v \in action_finished(World, u) : Become(KeepsDoing(v, u, "idle"))
    BY <1>2 DEF Stop
  <2>2. unit[u].state # "dead"
    BY <1>2 DEF Stop
  <2>3. Become(Doing(v, u, "idle", v.unit[u].ai_action_id))
    BY <2>1 DEF KeepsDoing
  <2> QED BY <2>2, <2>3, ReportThenKeeps
<1>3. CASE GoHome(u)
  <2>1. Become(KeepsDoing(World, u, "inside")) /\ Sound(World)
    BY <1>3 DEF GoHome, IInv, Inv
  <2>2. PICK w : w = World
    OBVIOUS
  <2>3. PICK y : y = Doing(w, u, "inside", w.unit[u].ai_action_id)
    OBVIOUS
  <2>4. /\ y.unit[u].ai_action_id = w.unit[u].ai_action_id
        /\ \A x \in Units : x # u => y.unit[x] = w.unit[x]
    BY <2>1, <2>2, <2>3, DoingUnits
  <2>5. NoneCalled(w, y)
    BY <2>4 DEF NoneCalled
  <2>6. Keeps(w, y)
    BY <2>5, StoppingKeeps
  <2>7. Keeps(World, y) /\ Become(y)
    BY <2>1, <2>2, <2>3, <2>6 DEF KeepsDoing
  <2> QED BY <2>7, BecomingKeeps
<1>4. CASE u \in Troops /\ Board(u)
  <2>1. PICK v \in action_finished(World, u) : Become(Doing(v, u, "aboard", 0))
    BY <1>4 DEF Board
  <2>2. unit[u].state # "dead"
    BY <1>4 DEF Board
  <2> QED BY <2>1, <2>2, ReportThenKeeps
<1>5. CASE u \in Ships /\ ShipReports(u)
  <2>1. PICK v \in action_finished(World, u) : Become(v)
    BY <1>5 DEF ShipReports
  <2>2. unit[u].state # "dead"
    BY <1>5, Worlds DEF ShipReports, is_visible
  <2>3. Keeps(World, v)
    BY <2>1, <2>2, ReportNow
  <2> QED BY <2>1, <2>3, BecomingKeeps
<1> QED BY <1>1, <1>2, <1>3, <1>4, <1>5

\* A unit dies.
LEMMA DyingKeeps ==
  ASSUME IInv, NEW u \in Units, Die(u)
  PROVE  Keeps(World, World')
<1>1. PICK v \in action_finished(KeepsDoing(World, u, "dead"), u) :
        Become([v EXCEPT !.unit = [x \in Units |->
          IF x \in Aboard(v, u) THEN [v.unit[x] EXCEPT !.state = "dead"] ELSE v.unit[x]]])
  BY DEF Die
<1>2. Sound(World) /\ Tasks(World, busy) /\ is_visible(World, u)
  BY DEF Die, IInv, Inv
<1>3. PICK w : w = World
  OBVIOUS
<1>4. PICK n : n = World.unit[u].nation_recno
  OBVIOUS
<1>5. PICK id : id = World.unit[u].ai_action_id
  OBVIOUS
<1>6. PICK c : c = busy
  OBVIOUS
<1>7. /\ Sound(w) /\ Tasks(w, c) /\ n = w.unit[u].nation_recno /\ n \in Nations
      /\ w.unit[u].state \notin {"inside", "training", "dead"}
      /\ id \in Nat /\ id = w.unit[u].ai_action_id
  <2>1. w.unit[u] \in UnitRecords
    BY <1>2, <1>3, PartsOf
  <2> QED BY <1>2, <1>3, <1>4, <1>5, <1>6, <2>1 DEF is_visible, UnitRecords
<1>8. PICK x : x = KeepsDoing(World, u, "dead")
  OBVIOUS
<1>9. x = Doing(w, u, "dead", id)
  BY <1>3, <1>5, <1>8 DEF KeepsDoing
<1>10. Sound(x) /\ x.ai = w.ai
  <2>1. "dead" \in States \ {"inside", "training"}
    BY DEF States
  <2> QED BY <1>7, <1>9, <2>1, OutsideDoing
<1>11. /\ x.unit[u].nation_recno = n /\ x.unit[u].ai_action_id = id /\ x.unit[u].state = "dead"
       /\ \A z \in Units : z # u => x.unit[z] = w.unit[z]
  BY <1>7, <1>9, DoingUnits
<1>12. Reports(w, x, n, u)
  BY <1>7, <1>10, <1>11 DEF Reports
<1>13. v \in action_finished(x, u)
  BY <1>1, <1>8
<1>14. Keeps(w, v)
  BY <1>7, <1>12, <1>13, ReportKeeps
<1>15. Sound(v)
  BY <1>10, <1>13, FinishedIs
<1>16. PICK y : y = Sunk(v, u)
  OBVIOUS
<1>17. PICK D : D = Aboard(v, u)
  OBVIOUS
<1>18. y.ai = v.ai /\ Sink(v.unit, y.unit, D)
  BY <1>15, <1>16, <1>17, Drowning
<1>19. NoneCalled(v, y)
  BY <1>18 DEF Sink, NoneCalled
<1>20. Keeps(w, y)
  BY <1>14, <1>18, <1>19, KeptStill
<1>21. Keeps(World, y) /\ Become(y)
  BY <1>1, <1>3, <1>16, <1>20 DEF Sunk
<1> QED BY <1>21, BecomingKeeps

\* The AI queues an action.
LEMMA QueuesKeep ==
  ASSUME IInv, NEW n \in AINations,
         QueueAssign(n) \/ QueueWorkers(n) \/ QueueGiven(n) \/ QueueTravel(n)
  PROVE  Keeps(World, World')
<1>1. PICK x, node, v : Queued(World, x, n, node, v) /\ Become(v)
  BY QueuedIs
<1>2. PICK w : w = World
  OBVIOUS
<1>3. Sound(w) /\ Queued(w, x, n, node, v)
  BY <1>1, <1>2 DEF IInv, Inv
<1>4. PICK T : T = Own(x.unit, n)
  OBVIOUS
<1>5. /\ Sound(x) /\ Tidy(x, n) /\ Undisturbed(w, x)
      /\ NodeOK(x, n, T, node) /\ node.action_mode # "travel2"
  BY <1>3, <1>4 DEF Queued
<1>6. PICK immediate : \/ \E r \in Link(x, n, node, immediate) : v = r.w
                       \/ v \in LinkAndProcess(x, n, node)
  BY <1>3 DEF Queued
<1>7. Keeps(w, v)
  BY <1>3, <1>4, <1>5, <1>6, QueueingKeeps
<1>8. Keeps(World, v)
  BY <1>2, <1>7
<1> QED BY <1>1, <1>8, BecomingKeeps

\* A world is undisturbed by nothing.
LEMMA UndisturbedSelf ==
  ASSUME NEW w
  PROVE  Undisturbed(w, w)
BY DEF Undisturbed

\* A pass goes on, and may process a record.
LEMMA PassKeeps ==
  ASSUME IInv, PassStep, unit' # unit
  PROVE  Keeps(World, World')
<1> DEFINE n == busy.nation
           i == busy.recno
<1>1. Sound(World) /\ Tasks(World, busy) /\ busy.call # "handover" /\ n \in Nations
  BY PassCall DEF IInv, Inv, PassStep, InPass
<1>2. PICK v \in ProcessOne(World, n, i, FALSE) : Become(v)
  BY DEF PassStep
<1> HIDE DEF n, i
<1>3. PICK w : w = World
  OBVIOUS
<1>4. PICK c : c = busy
  OBVIOUS
<1>5. PICK priority : priority = FALSE
  OBVIOUS
<1>6. Sound(w) /\ Tasks(w, c) /\ c.call # "handover" /\ v \in ProcessOne(w, n, i, priority)
  BY <1>1, <1>2, <1>3, <1>4, <1>5
<1>7. Tidy(w, n) /\ Undisturbed(w, w)
  BY <1>1, <1>6, TidyNow, UndisturbedSelf
<1>8. Keeps(w, v)
  BY <1>1, <1>6, <1>7, ProcessKeeps
<1>9. Keeps(World, v)
  BY <1>3, <1>8
<1> QED BY <1>2, <1>9, BecomingKeeps

\* Who has been trained is neither of the people nor a ship.
LEMMA TrainingKeeps ==
  ASSUME IInv, FinishTraining
  PROVE  Keeps(World, World')
<1> DEFINE u == train.unit
           n == unit[train.unit].nation_recno
           out == LeavesTraining(World, "idle")
           i == RecnoOf(out, n, train.id)
<1>1. busy = Idle /\ busy' = busy /\ train # None
  BY DEF FinishTraining
<1>2. PICK v \in ProcessOne(out, n, i, TRUE) : Become(Unassigned(v))
  BY DEF FinishTraining
<1>3. Sound(World) /\ World.train # None /\ u = World.train.unit
  BY <1>1, Worlds DEF IInv, Inv
<1>4. PICK w : w = World
  OBVIOUS
<1>5. PICK x : x = out
  OBVIOUS
<1>6. PICK priority : priority = TRUE
  OBVIOUS
<1> HIDE DEF u
<1>7. Sound(w) /\ w.train # None /\ u = w.train.unit /\ x = LeavesTraining(w, "idle")
  BY <1>3, <1>4, <1>5
<1>8. /\ Sound(x) /\ x.ai = w.ai /\ u \in Units
      /\ w.unit[u].ai_action_id = 0 /\ w.unit[u].state = "training"
      /\ x.unit[u].nation_recno = w.unit[u].nation_recno
      /\ x.unit[u].ai_action_id = 0 /\ x.unit[u].state = "idle"
      /\ \A z \in Units : z # u => x.unit[z] = w.unit[z]
  BY <1>7, TrainingOut
<1>9. n = w.unit[u].nation_recno
  BY <1>4, Worlds DEF u
<1>10. v \in ProcessOne(x, n, i, priority)
  BY <1>2, <1>5, <1>6
<1> HIDE DEF n, out, i
<1>11. n \in Nations /\ Tidy(w, n)
  BY <1>1, <1>4, <1>8, <1>9, IdleNow
<1>12. Tidy(x, n)
  <2>1. w.unit[u].state # "dead" /\ x.unit[u].state # "dead" /\ x.unit[u].nation_recno = n
    BY <1>8, <1>9
  <2>2. StepOf(w, x, n)
    BY <1>7, <1>8, <1>9, <1>11, <2>1, TurnsStep
  <2> QED BY <1>11, <2>2, StepTidy
<1>13. Undisturbed(w, x)
  BY <1>8 DEF Undisturbed, Units
<1>14. Keeps(w, v)
  BY <1>7, <1>8, <1>10, <1>11, <1>12, <1>13, ProcessKeeps
<1>15. Keeps(World, Unassigned(v))
  <2>1. Sound(v)
    BY <1>8, <1>10, <1>11, ProcessOneIs DEF Processed
  <2>2. Unassigned(v).ai = v.ai /\ Unassigned(v).unit = v.unit
    BY <2>1, UnassignedIs
  <2>3. NoneCalled(v, Unassigned(v))
    BY <2>2 DEF NoneCalled
  <2> QED BY <1>4, <1>14, <2>2, <2>3, KeptStill
<1> QED BY <1>2, <1>15, BecomingKeeps

\* Nobody else changes when it goes back.
LEMMA CancelKeeps ==
  ASSUME IInv, CancelTraining
  PROVE  Keeps(World, World')
<1>1. /\ Sound(World) /\ World.train # None /\ Become(LeavesTraining(World, "inside"))
  BY Worlds DEF IInv, Inv, CancelTraining
<1> DEFINE v == LeavesTraining(World, "inside")
<1>2. /\ World.unit[World.train.unit].ai_action_id = 0
      /\ v.unit[World.train.unit].ai_action_id = 0
      /\ \A x \in Units : x # World.train.unit => v.unit[x] = World.unit[x]
  BY <1>1, TrainingOut
<1> HIDE DEF v
<1>3. Keeps(World, v)
  BY <1>2, NoneGot DEF Units
<1> QED BY <1>1, <1>3, BecomingKeeps DEF v

\* A unit changes its nation, with the id it has.
LEMMA HandOverKeeps ==
  ASSUME IInv, HandOverStep, unit' # unit
  PROVE  Keeps(World, World')
<1>1. Sound(World) /\ busy \in Calls /\ busy.call = "handover"
  BY DEF IInv, Inv, HandOverStep
<1>2. busy.to \in Nations
  BY <1>1 DEF Calls, Idle
<1>3. PICK u \in Units :
        \E v \in IF is_deleted(World, u) THEN {World} ELSE action_finished(World, u) :
          Become([v EXCEPT !.unit[u].nation_recno = busy.to])
  BY DEF HandOverStep
<1>4. PICK v \in IF is_deleted(World, u) THEN {World} ELSE action_finished(World, u) :
        Become([v EXCEPT !.unit[u].nation_recno = busy.to])
  BY <1>3
<1>5. Keeps(World, v) /\ Sound(v)
  <2>1. CASE is_deleted(World, u)
    <3>1. v = World
      BY <1>4, <2>1
    <3>2. PICK w : w = World
      OBVIOUS
    <3>3. NoneCalled(w, w)
      BY DEF NoneCalled
    <3>4. Keeps(w, w)
      BY <3>3, StoppingKeeps
    <3> QED BY <1>1, <3>1, <3>2, <3>4
  <2>2. CASE ~is_deleted(World, u)
    <3>1. v \in action_finished(World, u)
      BY <1>4, <2>2
    <3>2. unit[u].state # "dead"
      BY <2>2, Worlds DEF is_deleted
    <3> QED BY <3>1, <3>2, ReportNow
  <2> QED BY <2>1, <2>2
<1>6. PICK to : to = busy.to
  OBVIOUS
<1>7. PICK y : y = ChangesTo(v, u, to)
  OBVIOUS
<1>8. /\ y.ai = v.ai
      /\ \A x \in Units : x # u => y.unit[x] = v.unit[x]
      /\ y.unit[u].ai_action_id = v.unit[u].ai_action_id
  <2>1. u \in Units /\ to \in Nations /\ Sound(v) /\ y = ChangesTo(v, u, to)
    BY <1>2, <1>3, <1>5, <1>6, <1>7
  <2> QED BY ONLY <2>1, NationUnits
<1>9. NoneCalled(v, y)
  BY <1>8 DEF NoneCalled
<1>10. Keeps(World, y)
  <2>1. PICK w : w = World
    OBVIOUS
  <2>2. Keeps(w, v)
    BY <1>5, <2>1
  <2>3. Keeps(w, y)
    BY <1>8, <1>9, <2>2, KeptStill
  <2> QED BY <2>1, <2>3
<1>11. Become(y)
  BY <1>4, <1>6, <1>7 DEF ChangesTo
<1> QED BY <1>10, <1>11, BecomingKeeps

\* Whatever happens, nobody is taken over.
LEMMA StepKeeps ==
  ASSUME IInv, [Next]_vars, unit' # unit
  PROVE  Keeps(World, World')
<1>1. ASSUME NEW n \in AINations,
             QueueAssign(n) \/ QueueWorkers(n) \/ QueueGiven(n) \/ QueueTravel(n)
      PROVE  Keeps(World, World')
  BY <1>1, QueuesKeep
<1>2. ASSUME NEW u \in Units, Enter(u) \/ Stop(u) \/ GoHome(u)
      PROVE  Keeps(World, World')
  BY <1>2, UnitsKeep
<1>3. ASSUME NEW u \in Units, Die(u)
      PROVE  Keeps(World, World')
  BY <1>3, DyingKeeps
<1>4. ASSUME NEW u \in Troops, Board(u)
      PROVE  Keeps(World, World')
  BY <1>4, UnitsKeep DEF Units
<1>5. ASSUME NEW s \in Ships, ShipReports(s)
      PROVE  Keeps(World, World')
  BY <1>5, UnitsKeep DEF Units
<1>6. CASE PassStep
  BY <1>6, PassKeeps
<1>7. CASE FinishTraining \/ CancelTraining
  BY <1>7, TrainingKeeps, CancelKeeps
<1>8. CASE HandOverStep
  BY <1>8, HandOverKeeps
<1>9. CASE \/ NextDay \/ UNCHANGED vars
           \/ \E n \in AINations : BeginPass(n)
           \/ \E n, to \in Nations : BeginHandOver(n, to)
  BY <1>9 DEF NextDay, BeginPass, BeginHandOver, vars
<1> QED BY <1>1, <1>2, <1>3, <1>4, <1>5, <1>6, <1>7, <1>8, <1>9 DEF Next

\* So the property holds in a step.
LEMMA KeepingIs ==
  ASSUME Keeps(World, World'), NEW u \in Troops \cup Ships
  PROVE  LET id == unit[u].ai_action_id
             n == unit[u].nation_recno
         IN  /\ unit[u].state # "aboard"
             /\ unit'[u].ai_action_id \notin {0, id} /\ id # 0
             => \A i \in DOMAIN ai'[n].action_array : ai'[n].action_array[i].action_id # id
<1>1. World.unit = unit /\ World'.unit = unit'
  BY DEF World
<1>2. \A n : Queue(World', n) = ai'[n].action_array
  BY DEF World, Queue
<1> QED BY <1>1, <1>2 DEF Keeps

\* The state and the next one, for the units' actions
Kept ==
  \A u \in Troops \cup Ships :
    LET id == unit[u].ai_action_id
        n == unit[u].nation_recno
    IN  /\ unit[u].state # "aboard"
        /\ unit'[u].ai_action_id \notin {0, id} /\ id # 0
        => \A i \in DOMAIN ai'[n].action_array : ai'[n].action_array[i].action_id # id

\* With the invariant, UnitsKeepTheirAction holds.
LEMMA KeptAlways == []IInv /\ [][Next]_vars => UnitsKeepTheirAction
<1>1. IInv /\ [Next]_vars => [Kept]_unit
  BY StepKeeps, KeepingIs DEF Kept
<1>2. UnitsKeepTheirAction <=> [][Kept]_unit
  BY DEF UnitsKeepTheirAction, Kept
<1> QED BY <1>1, <1>2, PTL

\* With any number of nations of the AI: no handler gives an order to people or ships that
\* still work for an action of the queue, as long as hand_over_to brings none with an id.
THEOREM UnitsAreNotTakenOver ==
  Spec /\ [][NothingCarriedOver]_vars => UnitsKeepTheirAction
BY TasksHold, KeptAlways, PTL DEF Spec

\* UnitsKeepTheirAction of every instance with one nation of the AI.
THEOREM UnitsAreKept ==
  ASSUME \A m, n \in AINations : m = n
  PROVE  Spec => UnitsKeepTheirAction
BY TasksInvariant, KeptAlways, PTL DEF Spec
=============================================================================
