----------------------------- MODULE GameSpeed -----------------------------
(***************************************************************************)
(* The speed of a multiplayer game (Sys::set_speed, MSG_SET_SPEED).  A     *)
(* player's change is not an order in a queue: it takes effect at once and *)
(* is broadcast in a message of its own, which the other peers obey when   *)
(* they find it in receive_queue[0].  Speed 0 is a pause, and a request    *)
(* for speed 0 is a toggle: it exchanges the speed with the one remembered *)
(* in last_frame_speed.                                                    *)
(*                                                                         *)
(* ErrorControl hands messages up once and in bounded disorder; here, of   *)
(* the few that are under way, in any order.                               *)
(***************************************************************************)
EXTENDS Integers, Sequences, SequencesExt, FiniteSets

CONSTANTS Peers,
          Speeds,        \* speeds the keys select, and the initial speed
          MaxChanges,    \* bound: changes made by players
          MaxUnderWay    \* bound: changes that are under way

ASSUME SpeedAssumption ==
  /\ IsFiniteSet(Peers) /\ Speeds \subseteq Nat \ {0} /\ Speeds # {}
  /\ MaxChanges \in Nat /\ MaxUnderWay \in Nat

VARIABLES frame_speed,       \* config.frame_speed
          last_frame_speed,
          under_way,         \* under_way[p]: messages for p, <<number, speed>>
          changes,           \* number of changes players made
          orderly            \* history: players took turns, and no message was
                             \* refused or cleared

vars == <<frame_speed, last_frame_speed, under_way, changes, orderly>>

\* All have the speed the game was set up with.
Init ==
  /\ \E s \in Speeds : frame_speed = [p \in Peers |-> s]
  /\ last_frame_speed = [p \in Peers |-> 0]
  /\ under_way = [p \in Peers |-> {}]
  /\ changes = 0
  /\ orderly = TRUE

set_speed_KeepLast(st, speed) ==
  IF speed > 0 THEN [st EXCEPT !.frame_speed = speed]
  ELSE [frame_speed |-> st.last_frame_speed, last_frame_speed |-> st.frame_speed]

\* The two speeds after a request.
set_speed(st, speed) ==
  IF speed > 0 THEN [frame_speed |-> speed, last_frame_speed |-> 0]
  ELSE [frame_speed |-> st.last_frame_speed, last_frame_speed |-> st.frame_speed]

State(p) == [frame_speed |-> frame_speed[p], last_frame_speed |-> last_frame_speed[p]]
Become(p, st) ==
  /\ frame_speed' = [frame_speed EXCEPT ![p] = st.frame_speed]
  /\ last_frame_speed' = [last_frame_speed EXCEPT ![p] = st.last_frame_speed]

send_free_msg_Requested(p, speed) ==
  under_way' = [q \in Peers |->
    IF q = p THEN under_way[q] ELSE under_way[q] \cup {<<changes, frame_speed[p]>>}]

\* Nobody hears of the change: the result of ErrorControl::send is not looked at.
send_free_msg_Refused == UNCHANGED under_way

send_free_msg(p, speed) ==
  under_way' = [q \in Peers |->
    IF q = p THEN under_way[q] ELSE under_way[q] \cup {<<changes, speed>>}]

UnderWay == UNION {under_way[p] : p \in Peers}

\* detect_set_speed: a key that selects a speed, or 0 for the pause.  What is
\* sent is the speed that results.
PlayerSetsSpeed(p, speed) ==
  LET st == set_speed(State(p), speed) IN
  /\ changes < MaxChanges
  /\ Cardinality(UnderWay) < MaxUnderWay
  /\ changes' = changes + 1
  /\ Become(p, st)
  /\ \/ /\ send_free_msg(p, st.frame_speed)
        /\ orderly' = (orderly /\ UnderWay = {})
     \/ /\ send_free_msg_Refused
        /\ orderly' = FALSE

\* Sys::yield: poll, then obey the messages found.  RemoteMsg::set_speed
\* calls set_speed, which takes a pause for a toggle.
Yield(p, ms) ==
  /\ ms # {}
  /\ \E order \in SetToSeqs(ms) :
       Become(p, FoldLeft(LAMBDA st, m : set_speed(st, m[2]), State(p), order))
  /\ under_way' = [under_way EXCEPT ![p] = @ \ ms]
  /\ UNCHANGED <<changes, orderly>>

\* main_loop polls again before is_mp_sync, unless the game is paused.  If it
\* goes on to the next frame process_receive_queue executes the players'
\* queues and clears the rest of receive_queue[0].
FrameClearsQueue(p, ms) ==
  /\ frame_speed[p] > 0
  /\ ms # {}
  /\ under_way' = [under_way EXCEPT ![p] = @ \ ms]
  /\ orderly' = FALSE
  /\ UNCHANGED <<frame_speed, last_frame_speed, changes>>

Next ==
  \E p \in Peers :
    \/ \E speed \in Speeds \cup {0} : PlayerSetsSpeed(p, speed)
    \/ \E ms \in SUBSET under_way[p] : Yield(p, ms) \/ FrameClearsQueue(p, ms)

Spec == Init /\ [][Next]_vars

-----------------------------------------------------------------------------
\* A peer's key and its messages always toggle between a pause and a run: a
\* paused peer remembers a speed to go on with, and a running one none, so
\* that a toggle never leaves the game as it is and no pause is for ever.
PauseIsReversible ==
  \A p \in Peers : (frame_speed[p] = 0) # (last_frame_speed[p] = 0)

\* set_speed updates the other players' setting: when players take turns, no
\* message is refused or cleared, and none is under way, all have the same speed.
\* Pauses make it hard: each peer comes back to the speed it remembers itself.
SameSpeed ==
  orderly /\ UnderWay = {} =>
    \A p, q \in Peers : /\ frame_speed[p] = frame_speed[q]
                        /\ last_frame_speed[p] = last_frame_speed[q]
=============================================================================
