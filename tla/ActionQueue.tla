---------------------------- MODULE ActionQueue ----------------------------
(***************************************************************************)
(* The queue of actions of an AI nation (Nation::action_array): what the   *)
(* AI has decided is queued, tried, retried, carried out by units that     *)
(* hold the id of the action (ai_action_id) and report to it when they     *)
(* finish, fail or die, and removed when all its instances have reported,  *)
(* when it cannot be done, or when it is overdue.                          *)
(*                                                                         *)
(* "assign" stands for the handlers that need one skilled unit (a general, *)
(* a builder), "worker" for those that recruit people of a town, one by    *)
(* one, and "travel", "travel2", "travel3" are the three parts of a sea    *)
(* travel.  ai_assign_spy, whose unit never holds an id, is left out.      *)
(* One step is one whole call: a handler, or a report with the follow-up   *)
(* action it creates.  A pass over the queue and the hand over of a nation *)
(* are sequences of steps nothing else interrupts (busy).                  *)
(***************************************************************************)
EXTENDS Naturals, FiniteSets, SequencesExt

CONSTANTS
  Nations,
  AINations,               \* those the AI plays; the others decide and queue nothing
  Generals, Troops, Ships,
  Owner,                   \* the nation each unit belongs to at first
  Places,                  \* what actions are about: firms and towns
  SeaActions,              \* what a sea travel is for (SEA_ACTION_SETTLE, ...)
  SEA_ACTION_BUILD_CAMP,   \* ... to build a camp: only one is sent
  STD_ACTION_RETRY_COUNT,
  RetryWait,               \* days until a failed action is tried again
  Overdue,                 \* days after which a finished order is awaited no longer
  SessionLimit,            \* handlers called in one pass
  MaxInstances,            \* bound: people one worker action asks for
  MaxActions,              \* bound: actions in one queue
  MaxId,                   \* bound: ids given out; the code's are 16 bits wide
  None

Units == Generals \cup Troops \cup Ships

ASSUME QueueAssumption ==
  /\ Owner \in [Units -> Nations]
  /\ AINations \subseteq Nations
  /\ {STD_ACTION_RETRY_COUNT, RetryWait, Overdue, SessionLimit, MaxInstances} \subseteq Nat \ {0}
  /\ None \notin Units \cup Nations
  /\ IsFiniteSet(Units)
  /\ Generals \cap Troops = {} /\ Generals \cap Ships = {} /\ Troops \cap Ships = {}

VARIABLES
  ai,     \* per nation: action_array, the current record of the array, last_action_id
  unit,   \* per unit: nation, ai_action_id, what it is doing, the ship it is on
  train,  \* the unit trained in a town and the action it is trained for
  busy    \* the call in progress: a pass over a queue, a hand over, or none

vars == <<ai, unit, train, busy>>

TravelModes == {"travel", "travel2", "travel3"}
Queue(w, n) == w.ai[n].action_array
World == [ai |-> ai, unit |-> unit, train |-> train]
Idle == [call |-> "none"]

\* Nation::get_action_based_on_id: the record, 0 when the action is gone
RecnoOf(w, n, id) ==
  LET at == {i \in DOMAIN Queue(w, n) : Queue(w, n)[i].action_id = id}
  IN  IF at = {} THEN 0 ELSE CHOOSE i \in at : \A j \in at : j <= i

is_deleted(w, u) == u \notin Units \/ w.unit[u].state \in {"inside", "dead"}
is_visible(w, u) == w.unit[u].state \in {"idle", "ordered", "boarding"}
IsFree(w, n, u) ==
  w.unit[u].nation_recno = n /\ w.unit[u].state = "idle" /\ w.unit[u].ai_action_id = 0
IsInside_Anywhere(w, n, u) == w.unit[u].nation_recno = n /\ w.unit[u].state # "dead"

IsInside(w, n, u) == w.unit[u].nation_recno = n /\ w.unit[u].state = "inside"
Aboard(w, s) == {u \in Troops : w.unit[u].state = "aboard" /\ w.unit[u].ship = s}

\* Units get an order and the id of the action they work for.
Ordered(w, U, id, state, ship) ==
  [w EXCEPT !.unit = [u \in Units |->
     IF u \in U THEN [w.unit[u] EXCEPT !.ai_action_id = id, !.state = state, !.ship = ship]
                ELSE w.unit[u]]]

\* One unit changes what it does, for an action or for none.
Doing(w, u, state, id) == [w EXCEPT !.unit[u] = [@ EXCEPT !.state = state, !.ai_action_id = id]]
KeepsDoing(w, u, state) == Doing(w, u, state, w.unit[u].ai_action_id)

\* Nation::get_action: a handler writes to the record of its action.
Noted(w, n, i, a) == [w EXCEPT !.ai[n].action_array[i] = a]

---------------------------------------------------------------------------
(* The handlers: a result code and the world they leave.                   *)

Outcome(rc, w) == [rc |-> rc, w |-> w]

\* Nation::train_unit: a recruit is trained for the action if the town has no trainee.
Trained(w, n, id) ==
  IF w.train = None
  THEN {[KeepsDoing(w, u, "training") EXCEPT !.train = [unit |-> u, id |-> id]] :
          u \in {v \in Generals : IsInside(w, n, v)}}
  ELSE {}

\* A unit given with the action is ordered whatever it is doing by then.
SkilledUnits(w, n, a) ==
  IF a.unit_recno # None THEN {a.unit_recno} \cap {u \in Units : is_visible(w, u)}
  ELSE {u \in Generals : IsFree(w, n, u) \/ IsInside(w, n, u)}

ai_assign(w, n, i) ==
  LET a == Queue(w, n)[i]
      found == SkilledUnits(w, n, a)
      Sent(u) ==
        Noted(Ordered(w, {u}, a.action_id, "ordered", None), n, i, [a EXCEPT !.unit_recno = u])
  IN  {Outcome("remove", w), Outcome("retry", w)}
      \cup {Outcome("ordered", Sent(u)) : u \in found}
      \cup (IF a.unit_recno = None
            THEN {Outcome("retry", v) : v \in Trained(w, n, a.action_id)} ELSE {})

\* With fewer vacancies than people asked for, fewer are, but one more than have been sent:
\* MAX(processing_instance_count + 1, vacancies) for 1 vacancy or more.
Needed_Vacancies(a) == 1..a.instance_count
Needed(a) == (a.processing_instance_count + 1)..a.instance_count

\* Somebody is recruited, or is trained for a camp: the try process_action is to take for that
\* is added before, and the date of the next one is overwritten by it.
Recruits(w, n, i) ==
  LET a == Queue(w, n)[i]
      people == {u \in Troops : IsInside(w, n, u)}
  IN  {Outcome("retry", w)}
      \cup {Outcome("ordered", Ordered(w, {u}, a.action_id, "ordered", None)) : u \in people}
      \cup {Outcome("training", v) : v \in Trained(w, n, a.action_id)}

\* No caller names a unit for an action of this kind, so nobody trained before is taken.
ai_assign_worker(w, n, i) ==
  LET a == Queue(w, n)[i]
      Asking(k) == Noted(w, n, i, [a EXCEPT !.instance_count = k])
  IN  {Outcome("remove", w), Outcome("retry", w)}
      \cup UNION {Recruits(Asking(k), n, i) : k \in Needed(a)}

ai_sea_travel_ShipUnmarked(w, n, i) ==
  LET a == Queue(w, n)[i]
      Boarding(s) ==
        LET sent == Ordered(w, a.group, a.action_id, "boarding", s)
        IN  Noted(sent, n, i, [a EXCEPT !.instance_count = @ + 1,
                                        !.processing_instance_count = a.instance_count,
                                        !.action_para2 = None])
  IN  {Outcome("remove", w)}
      \cup {Outcome("ordered", Boarding(s)) :
              s \in {t \in Ships : IsFree(w, n, t) /\ Aboard(w, t) = {}}}

ai_sea_travel(w, n, i) ==
  LET a == Queue(w, n)[i]
      Boarding(s) ==
        LET sent == Ordered(Ordered(w, a.group, a.action_id, "boarding", s),
                            {s}, a.action_id, "ordered", None)
        IN  Noted(sent, n, i, [a EXCEPT !.instance_count = @ + 1,
                                        !.processing_instance_count = a.instance_count,
                                        !.action_para2 = None])
  IN  {Outcome("remove", w)}
      \cup {Outcome("ordered", Boarding(s)) :
              s \in {t \in Ships : IsFree(w, n, t) /\ Aboard(w, t) = {}}}

HasShip(w, n, a) ==
  a.action_para2 \in Ships /\ ~is_deleted(w, a.action_para2)
    /\ w.unit[a.action_para2].nation_recno = n

ai_sea_travel2(w, n, i) ==
  LET a == Queue(w, n)[i]
  IN  IF HasShip(w, n, a)
      THEN {Outcome("ordered", Ordered(w, {a.action_para2}, a.action_id, "ordered", None))}
      ELSE {Outcome("remove", w)}

\* UnitMarine::unload_all_units for those who find room: they keep the ids they have.
Ashore(w, S) ==
  [w EXCEPT !.unit = [u \in Units |->
     IF u \in S THEN [w.unit[u] EXCEPT !.state = "idle", !.ship = None] ELSE w.unit[u]]]

\* S are those who find room; those of C are sent, or stay aboard, and are waited for.
Landed(w, n, i, S, C) ==
  LET a == Queue(w, n)[i]
      sent == Ordered(Ordered(Ashore(w, S), S \cap C, a.action_id, "ordered", None),
                      C \ S, a.action_id, "aboard", a.action_para2)
  IN  Noted(sent, n, i,
        [a EXCEPT !.processing_instance_count = @ + Cardinality(C) - 1,
                  !.instance_count = a.processing_instance_count + Cardinality(C)])

\* One of those who have come builds the camp; for the rest all are sent.
ai_sea_travel3(w, n, i) ==
  LET a == Queue(w, n)[i]
      all == Aboard(w, a.action_para2)
      ours == {u \in all : w.unit[u].nation_recno = n}
      sent == IF a.action_para = SEA_ACTION_BUILD_CAMP THEN {{u} : u \in ours} ELSE {ours}
  IN  IF ~HasShip(w, n, a) THEN {Outcome("remove", w)}
      ELSE {Outcome("retry", w)}
        \cup (IF all = {} THEN {}
              ELSE IF ours = {} THEN {Outcome("remove", w)}
              ELSE {Outcome("ordered", Landed(w, n, i, S, C)) : S \in SUBSET all, C \in sent})

Handle(w, n, i) ==
  LET mode == Queue(w, n)[i].action_mode
  IN  CASE mode = "assign"  -> ai_assign(w, n, i)
        [] mode = "worker"  -> ai_assign_worker(w, n, i)
        [] mode = "travel"  -> ai_sea_travel(w, n, i)
        [] mode = "travel2" -> ai_sea_travel2(w, n, i)
        [] mode = "travel3" -> ai_sea_travel3(w, n, i)

---------------------------------------------------------------------------
(* The queue.                                                              *)

del_action_KeepsPosition(w, n, i) ==
  IF i \in DOMAIN Queue(w, n) THEN [w EXCEPT !.ai[n].action_array = RemoveAt(@, i)] ELSE w

del_action(w, n, i) ==
  IF i \in DOMAIN Queue(w, n)
  THEN LET last == Len(Queue(w, n)) - 1
       IN  [w EXCEPT !.ai[n] = [action_array |-> RemoveAt(@.action_array, i),
                                cur_pos |-> IF @.cur_pos <= last THEN @.cur_pos ELSE last,
                                last_action_id |-> @.last_action_id]]
  ELSE w

Settle_RemovedOnly(w, n, i, rc) ==
  LET a == Queue(w, n)[i]
      b == CASE rc = "ordered" -> [a EXCEPT !.processing_instance_count = @ + 1]
             [] rc = "retry"   -> [a EXCEPT !.wait = RetryWait, !.retry_count = @ - 1]
             [] rc = "training" -> [a EXCEPT !.wait = RetryWait]
             [] rc = "remove"  -> [a EXCEPT !.retry_count = 0]
      noted == Noted(w, n, i, b)
      unwatched == b.processing_instance_count = b.processed_instance_count
  IN  IF rc = "remove" /\ unwatched THEN del_action(noted, n, i) ELSE noted

\* What process_action does with the result of a handler
Settle(w, n, i, rc) ==
  LET a == Queue(w, n)[i]
      b == CASE rc = "ordered" -> [a EXCEPT !.processing_instance_count = @ + 1]
             [] rc = "retry"   -> [a EXCEPT !.wait = RetryWait, !.retry_count = @ - 1]
             [] rc = "training" -> [a EXCEPT !.wait = RetryWait]
             [] rc = "remove"  -> [a EXCEPT !.retry_count = 0]
      noted == Noted(w, n, i, b)
      unwatched == b.processing_instance_count = b.processed_instance_count
  IN  IF rc # "ordered" /\ b.retry_count = 0 /\ unwatched THEN del_action(noted, n, i) ELSE noted

IsDue_TooMany(a, priority) == (a.wait = 0 \/ priority) /\ a.retry_count > 0

IsDue(a, priority) ==
  /\ a.processing_instance_count # a.instance_count
  /\ a.wait = 0 \/ priority
  /\ a.retry_count > 0

IsOverdue(a) == a.processing_instance_count = a.instance_count /\ a.age > Overdue

\* Nation::process_action for one record
ProcessOne(w, n, i, priority) ==
  IF i \notin DOMAIN Queue(w, n) THEN {w}
  ELSE LET a == Queue(w, n)[i]
       IN  IF IsDue(a, priority) THEN {Settle(r.w, n, i, r.rc) : r \in Handle(w, n, i)}
           ELSE IF IsOverdue(a) THEN {del_action(w, n, i)}
           ELSE {w}

\* Nation::add_action, the second form: the results, each with the record returned.
Link(w, n, node, immediate) ==
  LET id == w.ai[n].last_action_id + 1
      a == [node EXCEPT !.action_id = id, !.retry_count = STD_ACTION_RETRY_COUNT, !.age = 0,
                        !.processing_instance_count = 0, !.processed_instance_count = 0]
      linked == [w EXCEPT !.ai[n] = [action_array |-> Append(@.action_array, a),
                                     cur_pos |-> Len(@.action_array) + 1,
                                     last_action_id |-> id]]
      results == IF immediate
                 THEN ProcessOne(linked, n, linked.ai[n].cur_pos, TRUE) ELSE {linked}
  IN  {[w |-> v, recno |-> v.ai[n].cur_pos] : v \in results}

\* The callers that need the new action done at once process the record returned.
LinkAndProcess(w, n, node) ==
  UNION {IF r.recno = 0 THEN {r.w} ELSE ProcessOne(r.w, n, r.recno, TRUE) :
           r \in Link(w, n, node, TRUE)}

NewNode(mode, para, instances, given, group) ==
  [action_mode |-> mode, action_para |-> para, action_para2 |-> None, action_id |-> 0,
   unit_recno |-> given, group |-> group, instance_count |-> instances,
   processing_instance_count |-> 0, processed_instance_count |-> 0,
   retry_count |-> 0, wait |-> 0, age |-> 0]

is_action_exist(w, n, node) ==
  \E i \in DOMAIN Queue(w, n) :
    LET a == Queue(w, n)[i]
    IN  /\ a.action_mode = node.action_mode
        /\ a.action_para = node.action_para
        /\ node.unit_recno \in {None, a.unit_recno}

---------------------------------------------------------------------------
(* Reports.                                                                *)

\* Unit::stop2 reports no more: ai_action_id has been reset before.
stop_unit_action(w, u) ==
  IF is_deleted(w, u) THEN w
  ELSE Doing(w, u, IF w.unit[u].state = "aboard" THEN "aboard" ELSE "idle", 0)

auto_next_action(w, n, a) ==
  CASE a.action_mode = "travel" ->
         LinkAndProcess(w, n, [a EXCEPT !.action_mode = "travel2", !.instance_count = 1])
    [] a.action_mode = "travel2" -> LinkAndProcess(w, n, [a EXCEPT !.action_mode = "travel3"])
    [] OTHER -> {w}

IsSecondReport(w, a, u) ==
  a.action_mode = "travel" /\ u \in Ships /\ ~is_deleted(w, u) /\ a.action_para2 # None

AllDone(a) ==
  \/ a.processed_instance_count >= a.instance_count
  \/ a.retry_count = 0 /\ a.processed_instance_count >= a.processing_instance_count

\* The worlds after a unit has told its nation that it has finished, failed or died
action_finished(w, u) ==
  LET n == w.unit[u].nation_recno
      i == RecnoOf(w, n, w.unit[u].ai_action_id)
  IN  IF w.unit[u].ai_action_id = 0 THEN {w}
      ELSE IF i = 0 THEN {stop_unit_action(w, u)}
      ELSE IF IsSecondReport(w, Queue(w, n)[i], u) THEN {w}
      ELSE LET a == Queue(w, n)[i]
               waits == a.action_mode = "travel" /\ u \in Ships /\ ~is_deleted(w, u)
               b == [a EXCEPT !.processed_instance_count = @ + 1,
                              !.action_para2 = IF waits THEN u ELSE @]
               noted == Noted(w, n, i, b)
               stopped == IF waits THEN KeepsDoing(noted, u, "idle")
                                   ELSE stop_unit_action(noted, u)
           IN  IF AllDone(b)
               THEN {del_action(v, n, i) : v \in auto_next_action(stopped, n, b)}
               ELSE {stopped}

---------------------------------------------------------------------------
(* The steps.                                                              *)

Become(w) == ai' = w.ai /\ unit' = w.unit /\ train' = w.train

Init ==
  /\ ai = [n \in Nations |-> [action_array |-> <<>>, cur_pos |-> 0, last_action_id |-> 0]]
  /\ unit = [u \in Units |-> [nation_recno |-> Owner[u], ai_action_id |-> 0, ship |-> None,
                              state |-> IF u \in Troops THEN "inside" ELSE "idle"]]
  /\ train = None
  /\ busy = Idle

\* The bounds leave room for the follow-up actions of a sea travel.
HasRoom(n) == ai[n].last_action_id < MaxId - 2 /\ Len(ai[n].action_array) < MaxActions

Queueing(n, node) ==
  /\ busy = Idle
  /\ HasRoom(n)
  /\ ~is_action_exist(World, n, node)

QueueAssign(n) == \E p \in Places :
  LET node == NewNode("assign", p, 1, None, {})
  IN  /\ Queueing(n, node)
      /\ \E r \in Link(World, n, node, FALSE) : Become(r.w)
      /\ UNCHANGED busy

QueueWorkers(n) == \E p \in Places, k \in 1..MaxInstances :
  LET node == NewNode("worker", p, k, None, {})
  IN  /\ Queueing(n, node)
      /\ \E r \in Link(World, n, node, FALSE) : Become(r.w)
      /\ UNCHANGED busy

\* An action for a given general, which some callers process once more
QueueGiven(n) == \E p \in Places, g \in Generals :
  LET node == NewNode("assign", p, 1, g, {})
  IN  /\ IsFree(World, n, g)
      /\ Queueing(n, node)
      /\ \/ \E r \in Link(World, n, node, TRUE) : Become(r.w)
         \/ \E w \in LinkAndProcess(World, n, node) : Become(w)
      /\ UNCHANGED busy

\* Soldiers of a camp or recruits of a town, visible by now, are to travel.
QueueTravel(n) == \E p \in SeaActions, G \in (SUBSET Troops) \ {{}} :
  LET node == NewNode("travel", p, Cardinality(G), None, G)
      out == Ordered(World, G, 0, "idle", None)
  IN  /\ \A u \in G : IsInside(World, n, u)
      /\ Queueing(n, node)
      /\ \E w \in LinkAndProcess(out, n, node) : Become(w)
      /\ UNCHANGED busy

\* Nation::process_action over the whole queue
BeginPass(n) ==
  /\ busy = Idle
  /\ Queue(World, n) # <<>>
  /\ busy' = [call |-> "pass", nation |-> n, recno |-> 1, count |-> 0]
  /\ UNCHANGED <<ai, unit, train>>

InPass == busy.call = "pass"

PassStep_Onwards ==
  /\ InPass
  /\ LET n == busy.nation
         i == busy.recno
     IN  IF i \in DOMAIN Queue(World, n) /\ busy.count < SessionLimit
         THEN \E w \in ProcessOne(World, n, i, FALSE) :
                /\ Become(w)
                /\ busy' = [busy EXCEPT
                     !.recno = i + 1,
                     !.count = IF IsDue(Queue(World, n)[i], FALSE) THEN @ + 1 ELSE @]
         ELSE busy' = Idle /\ UNCHANGED <<ai, unit, train>>

PassStep ==
  /\ InPass
  /\ LET n == busy.nation
         i == busy.recno
     IN  IF i \in DOMAIN Queue(World, n) /\ busy.count < SessionLimit
         THEN \E w \in ProcessOne(World, n, i, FALSE) :
                /\ Become(w)
                /\ busy' = [busy EXCEPT
                     !.recno = IF Len(Queue(w, n)) < Len(Queue(World, n)) THEN i ELSE i + 1,
                     !.count = IF IsDue(Queue(World, n)[i], FALSE) THEN @ + 1 ELSE @]
         ELSE busy' = Idle /\ UNCHANGED <<ai, unit, train>>

\* Who is in training comes out, or becomes one of the people of the town again.
LeavesTraining(w, state) == [KeepsDoing(w, w.train.unit, state) EXCEPT !.train = None]

Unassigned(w) == [w EXCEPT !.train = IF @ = None THEN None ELSE [unit |-> @.unit, id |-> 0]]

\* Town::finish_train: the trained unit comes out, and its action is processed.  Whoever the
\* town trains next for that trains for no action, as the id of the town is cleared afterwards.
FinishTraining ==
  /\ busy = Idle
  /\ train # None
  /\ LET n == unit[train.unit].nation_recno
         out == LeavesTraining(World, "idle")
     IN  \E w \in ProcessOne(out, n, RecnoOf(out, n, train.id), TRUE) : Become(Unassigned(w))
  /\ UNCHANGED busy

\* Town::process_train, when those who could be trained have left the town, and
\* Town::cancel_train_unit.  The id the town keeps is replaced when it trains again.
CancelTraining ==
  /\ busy = Idle
  /\ train # None
  /\ Become(LeavesTraining(World, "inside"))
  /\ UNCHANGED busy

\* A unit enters the firm or the town it was sent to.
Enter(u) ==
  /\ busy = Idle
  /\ unit[u].state = "ordered" /\ u \notin Ships
  /\ \E w \in action_finished(World, u) : Become(Doing(w, u, "inside", 0))
  /\ UNCHANGED busy

\* Unit::process_assign_to_ship: the report comes before the unit is loaded.
Board(u) ==
  /\ busy = Idle
  /\ unit[u].state = "boarding" /\ ~is_deleted(World, unit[u].ship)
  /\ \E w \in action_finished(World, u) : Become(Doing(w, u, "aboard", 0))
  /\ UNCHANGED busy

\* A unit that stops, is blocked or is attacked has failed, and so has one that stands idle
\* (if it has an action at all).
Stop(u) ==
  /\ busy = Idle
  /\ unit[u].state \in {"idle", "ordered", "boarding"} /\ u \notin Ships
  /\ \E w \in action_finished(World, u) : Become(KeepsDoing(w, u, "idle"))
  /\ UNCHANGED busy

\* Idle units without an action go home: the AI assigns them outside the queue.
GoHome(u) ==
  /\ busy = Idle
  /\ u \notin Ships
  /\ unit[u].state = "idle" /\ unit[u].ai_action_id = 0
  /\ Become(KeepsDoing(World, u, "inside"))
  /\ UNCHANGED busy

\* Unit::set_die and the report; a ship takes those aboard with it, who do not report.
Die(u) ==
  /\ busy = Idle
  /\ is_visible(World, u)
  /\ \E w \in action_finished(KeepsDoing(World, u, "dead"), u) :
       Become([w EXCEPT !.unit = [v \in Units |->
         IF v \in Aboard(w, u) THEN [w.unit[v] EXCEPT !.state = "dead"] ELSE w.unit[v]]])
  /\ UNCHANGED busy

\* A ship reports each time it is processed at the beach, and when it is stopped or attacked.
ShipReports(s) ==
  /\ busy = Idle
  /\ is_visible(World, s) /\ unit[s].ai_action_id # 0
  /\ \E w \in action_finished(World, s) : Become(w)
  /\ UNCHANGED busy

NextDay ==
  LET Older(a) == [a EXCEPT !.wait = IF @ = 0 THEN 0 ELSE @ - 1,
                            !.age = IF @ > Overdue THEN @ ELSE @ + 1]
  IN  /\ busy = Idle
      /\ ai' = [n \in Nations |-> [ai[n] EXCEPT !.action_array =
                  [i \in DOMAIN @ |-> Older(@[i])]]]
      /\ UNCHANGED <<unit, train, busy>>

\* A nation surrenders: NationBase::hand_over_to
BeginHandOver(n, to) ==
  /\ busy = Idle
  /\ n # to
  /\ \E u \in Units : unit[u].nation_recno = n
  /\ busy' = [call |-> "handover", nation |-> n, to |-> to]
  /\ UNCHANGED <<ai, unit, train>>

\* Unit::change_nation: the order is cleared, which reports, and then the nation changes.
HandOverStep ==
  /\ busy.call = "handover"
  /\ LET n == busy.nation
         left == {u \in Units : unit[u].nation_recno = n}
     IN  IF left # {}
         THEN /\ \E u \in left :
                   \E w \in IF is_deleted(World, u) THEN {World} ELSE action_finished(World, u) :
                     Become([w EXCEPT !.unit[u].nation_recno = busy.to])
              /\ UNCHANGED busy
         ELSE /\ ai' = [ai EXCEPT ![n].action_array = <<>>, ![n].cur_pos = 0]
              /\ busy' = Idle
              /\ UNCHANGED <<unit, train>>

Next ==
  \/ \E n \in AINations : \/ QueueAssign(n) \/ QueueWorkers(n) \/ QueueGiven(n) \/ QueueTravel(n)
                          \/ BeginPass(n)
  \/ PassStep
  \/ FinishTraining \/ CancelTraining
  \/ \E u \in Units : Enter(u) \/ Stop(u) \/ GoHome(u) \/ Die(u)
  \/ \E u \in Troops : Board(u)
  \/ \E s \in Ships : ShipReports(s)
  \/ NextDay
  \/ \E n, to \in Nations : BeginHandOver(n, to)
  \/ HandOverStep

Spec == Init /\ [][Next]_vars

---------------------------------------------------------------------------
(* Properties.                                                             *)

Actions(n) == ToSet(ai[n].action_array)

\* The units whose report an action still waits for
Reporters(n, a) ==
  {u \in Units : /\ unit[u].nation_recno = n
                 /\ unit[u].ai_action_id = a.action_id
                 /\ unit[u].state # "dead"
                 /\ ~(a.action_mode = "travel" /\ a.action_para2 = u)}

Outstanding(a) == a.processing_instance_count - a.processed_instance_count

\* Records, units and the town keep their types; ids of queued actions differ and have been
\* given out, the current record exists, and who is trained is not called away.
TypeOK ==
  /\ \A n \in Nations :
       /\ ai[n].cur_pos \in 0..Len(ai[n].action_array)
       /\ ai[n].last_action_id \in Nat
       /\ \A i, j \in DOMAIN ai[n].action_array :
            ai[n].action_array[i].action_id = ai[n].action_array[j].action_id => i = j
       /\ \A a \in Actions(n) :
            /\ a.action_id \in 1..ai[n].last_action_id
            /\ a.action_mode \in {"assign", "worker"} \cup TravelModes
            /\ a.retry_count \in 0..STD_ACTION_RETRY_COUNT
            /\ a.wait \in 0..RetryWait /\ a.age \in 0..(Overdue + 1)
  /\ \A u \in Units :
       /\ unit[u].nation_recno \in Nations
       /\ unit[u].ai_action_id \in Nat
       /\ unit[u].state \in {"inside", "idle", "ordered", "boarding", "aboard", "training", "dead"}
  /\ train = None \/ unit[train.unit].state = "training"

\* OAI_ACT.cpp states both with err_when: an action never has more instances processed than
\* ordered, nor more ordered than asked for.
CountsInOrder ==
  \A n \in Nations : \A a \in Actions(n) :
    /\ a.processed_instance_count <= a.processing_instance_count
    /\ a.processing_instance_count <= a.instance_count

\* A recruiting action, and a sea travel until the landing, waits for no more reports than
\* there are units to make them: none is lost when a unit dies, is boarded or is retrained.
\* (A nation that is handing over its units has no more use for its queue.)
ReportersExist ==
  busy.call # "handover" => \A n \in Nations : \A a \in Actions(n) :
    a.action_mode \in {"worker", "travel", "travel2"}
      => Outstanding(a) <= Cardinality(Reporters(n, a))

\* An action in the queue can still leave it: it is tried again, or it is removed when overdue,
\* or units will report for it.  (One that could not would also keep the AI from ever queueing
\* the same action again.)
NeverStuck ==
  busy.call # "handover" => \A n \in Nations : \A a \in Actions(n) :
    \/ a.retry_count > 0
    \/ a.processing_instance_count = a.instance_count
    \/ Outstanding(a) \in 1..Cardinality(Reporters(n, a))

\* People and ships that still work for a queued action are not taken over by another one.
\* (Generals may be: add_action resets the single try of an action for a given unit.  So may
\* those who found no room to land: a later landing from their ship takes all aboard.)
UnitsKeepTheirAction ==
  [][\A u \in Troops \cup Ships :
       LET id == unit[u].ai_action_id
           n == unit[u].nation_recno
       IN  /\ unit[u].state # "aboard"
           /\ unit'[u].ai_action_id \notin {0, id} /\ id # 0
           => \A i \in DOMAIN ai'[n].action_array : ai'[n].action_array[i].action_id # id]_unit

\* The ids of the records after the i-th
Left(s, i) == [k \in 1..(Len(s) - i) |-> s[i + k].action_id]

\* A pass examines every record once: what is left to examine after a step is what followed
\* the record just examined, deleted or not.
PassSkipsNothing ==
  [][InPass /\ busy'.call = "pass"
       => LET n == busy.nation
          IN  Left(ai'[n].action_array, busy'.recno - 1) = Left(ai[n].action_array, busy.recno)]_vars

=============================================================================
