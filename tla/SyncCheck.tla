----------------------------- MODULE SyncCheck -----------------------------
(***************************************************************************)
(* What multiplayer peers do to stay together beyond exchanging commands:  *)
(* comparing random seeds and check numbers (RemoteMsg::tell_random_seed,  *)
(* compare_remote_crc, compare_remote_object; CrcStore) and saving the     *)
(* game in the same frame (Sys::save_game, Sys::mp_request_save).  All of  *)
(* it travels as orders in the queues of FrameCast, so that it arrives     *)
(* process_frame_delay frames after it was said; what it is compared with  *)
(* must still be the value of the frame it was said in.                    *)
(*                                                                         *)
(* The state of a peer's world is abstracted to the set of events that     *)
(* made it different: players it replaced by the AI, and faults of its     *)
(* simulation, each with its frame.  Check numbers and seeds of different  *)
(* frames or worlds are taken to be different.                             *)
(***************************************************************************)
EXTENDS Integers, Sequences, SequencesExt, FiniteSets

CONSTANTS Peers,                \* numbers of the human nations
          process_frame_delay,  \* 5
          SyncTestLevel,        \* remote.sync_test_level set by the host: 1, 2 or 3
          LastFrame,            \* bound: no peer simulates this frame
          MaxFaults,            \* bound: faults of the simulation
          MaxRequests           \* bound: requests to save

\* The largest number a nation, a short, can have
SHRT_MAX == 32767

ASSUME SyncAssumption ==
  /\ Peers \subseteq 1 .. SHRT_MAX
  /\ process_frame_delay \in Nat \ {0}
  /\ SyncTestLevel \in {1, 2, 3}
  /\ LastFrame \in Nat /\ MaxFaults \in Nat /\ MaxRequests \in Nat

VARIABLES
  frame_count, open, closed, humans, executed,  \* FrameCast
  playing,          \* the players who did not leave the game
  world,            \* the events that set a peer's objects apart
  seed,             \* those that have reached its random seed
  crc_store,        \* the last record of the check numbers: [frame, world]
  sync_test_level,  \* bit 0: compare seeds, bit 1: check numbers; negative: error
  lastNation, lastRemoteSeed,  \* of tell_random_seed: the last seed it saw
  mp_save_flag, mp_save_frame, \* a save is requested, for this frame
  saved,            \* history: the frames a peer saved the game in
  requests,         \* history: the number of requests to save
  compared          \* history: <<kind, own, remote>> comparisons a peer made

castVars == <<frame_count, open, closed, humans, executed>>
checkVars == <<crc_store, sync_test_level, lastNation, lastRemoteSeed, compared>>
saveVars == <<mp_save_flag, mp_save_frame, saved>>
vars == <<castVars, playing, world, seed, checkVars, saveVars, requests>>

\* The orders; a record is what was true of the sender in a frame.
Record(frame, events) == [frame |-> frame, world |-> events]
RandomSeed(nation, record) == [id |-> "MSG_TELL_RANDOM_SEED", nation |-> nation, record |-> record]
CompareCrc(record) == [id |-> "MSG_COMPARE_CRC", record |-> record]
CompareObjects(record) == [id |-> "MSG_COMPARE_NATION", record |-> record]
RequestSave(frame) == [id |-> "MSG_REQUEST_SAVE", frame |-> frame]
PlayerQuit(nation) == [id |-> "MSG_PLAYER_QUIT", nation |-> nation]

Cast == INSTANCE FrameCast WITH Order <- {}

\* sync_test_level is a signed char; ~1 and ~2 mark an error.
SeedError == -2
CrcError  == -3
TestsSeeds(level) == level \in {1, 3, CrcError}
TestsCrc(level)   == level \in {2, 3, SeedError}

period == process_frame_delay + 3

Init ==
  /\ Cast!Init
  /\ playing = Peers
  /\ world = [p \in Peers |-> {}]
  /\ seed = [p \in Peers |-> {}]
  /\ crc_store = [p \in Peers |-> Record(0, {})]
  /\ sync_test_level = [p \in Peers |-> SyncTestLevel]
  /\ lastNation = [p \in Peers |-> SHRT_MAX]
  /\ lastRemoteSeed = [p \in Peers |-> Record(0, {})]
  /\ mp_save_flag = [p \in Peers |-> FALSE]
  /\ mp_save_frame = [p \in Peers |-> 0]
  /\ saved = [p \in Peers |-> {}]
  /\ requests = 0
  /\ compared = [p \in Peers |-> {}]

-----------------------------------------------------------------------------
(* Executing orders.  st is the part of a peer's state they change; reply  *)
(* is what they put in the queue the peer is filling.                      *)

tell_random_seed(st, m) ==
  LET differs == m.nation > st.lastNation /\ st.lastRemoteSeed # m.record
      first == m.nation <= st.lastNation
  IN [st EXCEPT
       !.lastNation = m.nation,
       !.lastRemoteSeed = IF first THEN m.record ELSE @,
       !.level = IF differs /\ TestsSeeds(@) /\ @ >= 0 THEN SeedError ELSE @,
       !.compared = IF first THEN @
                    ELSE @ \cup {<<"seed", st.lastRemoteSeed.frame, m.record.frame>>}]

compare_remote_crc_KeepsTesting(st, m) ==
  IF TestsCrc(st.level) /\ st.level >= 0
  THEN [st EXCEPT
         !.compared = @ \cup {<<"crc", st.crc.frame, m.record.frame>>},
         !.reply = IF st.crc = m.record THEN @ ELSE Append(@, CompareObjects(st.crc))]
  ELSE st

\* CrcStore::compare_frame, which on a difference sends all it has recorded.
compare_remote_crc(st, m) ==
  IF TestsCrc(st.level) /\ st.level >= 0
  THEN [st EXCEPT
         !.compared = @ \cup {<<"crc", st.crc.frame, m.record.frame>>},
         !.level = IF st.crc = m.record THEN @ ELSE CrcError,
         !.reply = IF st.crc = m.record THEN @ ELSE Append(@, CompareObjects(st.crc))]
  ELSE st

compare_remote_object(st, m) ==
  [st EXCEPT !.compared = @ \cup {<<"objects", st.crc.frame, m.record.frame>>}]

mp_request_save(st, m) ==
  IF st.save_flag THEN st ELSE [st EXCEPT !.save_flag = TRUE, !.save_frame = m.frame]

process_msg(st, m) ==
  CASE m.id = "MSG_TELL_RANDOM_SEED" -> tell_random_seed(st, m)
    [] m.id = "MSG_COMPARE_CRC"      -> compare_remote_crc(st, m)
    [] m.id = "MSG_COMPARE_NATION"   -> compare_remote_object(st, m)
    [] m.id = "MSG_REQUEST_SAVE"     -> mp_request_save(st, m)
    [] m.id = "MSG_PLAYER_QUIT"      -> st

ExecuteQueue(queue, st) == FoldLeft(process_msg, st, queue)

ExecuteOrders_LastNationFirst(st, orders) ==
  MapThenFoldSet(ExecuteQueue, st, LAMBDA n : orders[n], Min, DOMAIN orders)

\* The queues of the humans, in the order of the nations: that of the largest number comes last.
ExecuteOrders(st, orders) ==
  MapThenFoldSet(ExecuteQueue, st, LAMBDA n : orders[n], Max, DOMAIN orders)

-----------------------------------------------------------------------------
(* Sys::main_loop *)

\* The queue sent is followed by a new one that begins with the random seed.
SendQueue(p) == Cast!Close(p, <<RandomSeed(p, Record(frame_count[p], seed[p]))>>)

RecordsCrc_EveryFrame(level, frame) == TestsCrc(level)
RecordsCrc(level, frame) == TestsCrc(level) /\ frame % period = 0

\* The game is saved in the frame asked for.
SavesNow(st, frame) == st.save_flag /\ st.save_frame = frame

\* A frame: execute the orders, simulate, record the check numbers, save.
ProcessFrame(p) ==
  LET st == ExecuteOrders(
              [level |-> sync_test_level[p], lastNation |-> lastNation[p],
               lastRemoteSeed |-> lastRemoteSeed[p], crc |-> crc_store[p],
               save_flag |-> mp_save_flag[p], save_frame |-> mp_save_frame[p],
               compared |-> compared[p], reply |-> <<>>],
              Cast!Orders(p, closed))
      frame == frame_count[p] + 1
      record == Record(frame, world[p])
      records == RecordsCrc(st.level, frame)
      saves == SavesNow(st, frame)
  IN
  /\ p \in playing /\ frame_count[p] < LastFrame
  /\ Cast!Advance(p, closed)
  /\ sync_test_level' = [sync_test_level EXCEPT ![p] = st.level]
  /\ lastNation' = [lastNation EXCEPT ![p] = st.lastNation]
  /\ lastRemoteSeed' = [lastRemoteSeed EXCEPT ![p] = st.lastRemoteSeed]
  /\ compared' = [compared EXCEPT ![p] = st.compared]
  /\ crc_store' = [crc_store EXCEPT ![p] = IF records THEN record ELSE @]
  /\ open' = [open EXCEPT ![p] = @ \o (st.reply \o
                IF records THEN <<CompareCrc(record)>> ELSE <<>>)]
  /\ mp_save_flag' = [mp_save_flag EXCEPT ![p] = st.save_flag /\ ~saves]
  /\ mp_save_frame' = [mp_save_frame EXCEPT ![p] = st.save_frame]
  /\ saved' = [saved EXCEPT ![p] = IF saves THEN @ \cup {frame} ELSE @]
  /\ UNCHANGED <<closed, playing, world, seed, requests>>

\* The part of is_mp_sync that sends the queue.
CloseQueue(p) ==
  /\ p \in playing /\ frame_count[p] < LastFrame
  /\ SendQueue(p)
  /\ UNCHANGED <<frame_count, humans, executed, playing, world, seed, checkVars,
                 saveVars, requests>>

\* A lost player is replaced by the AI, which draws random numbers.
TakeOver(p, n) ==
  /\ p \in playing /\ frame_count[p] < LastFrame
  /\ Cast!IsClosed(p) /\ Cast!TakeOver(p, n)
  /\ world' = [world EXCEPT ![p] = @ \cup {<<n, frame_count[p]>>}]
  /\ seed' = [seed EXCEPT ![p] = @ \cup {<<n, frame_count[p]>>}]
  /\ UNCHANGED <<open, closed, playing, checkVars, saveVars, requests>>

\* Sys::save_game: the frame is reckoned from the frame the player is in.
SaveOffset_Late == process_frame_delay + 1
SaveOffset == process_frame_delay + 2
save_game_AtOnce(p) ==
  /\ p \in playing
  /\ requests < MaxRequests
  /\ requests' = requests + 1
  /\ mp_save_flag' = [mp_save_flag EXCEPT ![p] = TRUE]
  /\ mp_save_frame' = [mp_save_frame EXCEPT ![p] = frame_count[p] + SaveOffset]
  /\ Cast!Issue(p, RequestSave(frame_count[p] + SaveOffset))
  /\ UNCHANGED <<playing, world, seed, checkVars, saved>>
save_game(p) ==
  /\ p \in playing
  /\ requests < MaxRequests
  /\ requests' = requests + 1
  /\ Cast!Issue(p, RequestSave(frame_count[p] + SaveOffset))
  /\ UNCHANGED <<playing, world, seed, checkVars, saveVars>>

\* InGameMenu: the player quits; main_loop ends before the queue is sent.
Quit(p) ==
  /\ p \in playing
  /\ playing' = playing \ {p}
  /\ Cast!Issue(p, PlayerQuit(p))
  /\ UNCHANGED <<world, seed, checkVars, saveVars, requests>>

-----------------------------------------------------------------------------
(* Faults: something the peers do not compute alike. *)

Faults == {e \in UNION {world[q] : q \in Peers} : e[1] = 0}

Diverge(p) ==
  /\ p \in playing
  /\ Cardinality(Faults) < MaxFaults
  /\ world' = [world EXCEPT ![p] = @ \cup {<<0, frame_count[p], p>>}]
  /\ UNCHANGED <<castVars, playing, seed, checkVars, saveVars, requests>>

\* Sooner or later objects that differ draw different random numbers.
SeedFollows(p) ==
  /\ seed[p] # world[p]
  /\ seed' = [seed EXCEPT ![p] = world[p]]
  /\ UNCHANGED <<castVars, playing, world, checkVars, saveVars, requests>>

Next ==
  \E p \in Peers :
    \/ CloseQueue(p) \/ ProcessFrame(p) \/ save_game(p) \/ Quit(p)
    \/ Diverge(p) \/ SeedFollows(p)
    \/ \E n \in Peers : TakeOver(p, n)

Spec == Init /\ [][Next]_vars

-----------------------------------------------------------------------------
(* Properties *)

\* Seeds that are compared, and check numbers, are of the same frame: the
\* seeds although they come through two variables that keep the last one seen,
\* the check numbers although the peer's own record is overwritten every few
\* frames.  So are the details sent after check numbers differed, unless a
\* player was replaced by the AI, or the peer had signalled a difference of the
\* seeds before: it then goes on recording, while it ignores check numbers.
SameFrameCompared ==
  \A p \in Peers : \A c \in compared[p] :
    \/ c[2] = c[3]
    \/ c[1] = "objects" /\ (sync_test_level[p] = SeedError \/ \E q \in Peers : humans[q] # Peers)

\* Objects at the end of a frame.
WorldAt(p, frame) == {e \in world[p] : e[2] < frame}

\* An error is signalled only if the worlds of two players did differ whose orders the peer
\* executed in one frame: not for a player that is lost, whom all who stay replace in the same
\* frame, and not for what was said in different frames.
NoFalseAlarm ==
  \A p \in Peers : sync_test_level[p] < 0 =>
    \E f \in DOMAIN executed[p] : \E m, n \in DOMAIN executed[p][f] :
      WorldAt(m, f - process_frame_delay) # WorldAt(n, f - process_frame_delay)

\* Worlds that differ are noticed: once the check numbers of a frame have come
\* round, a peer whose objects differed from those of another player it takes
\* for human has signalled an error.  One period and the delay is the longest
\* it takes.
DivergenceNoticed ==
  \A p, q \in Peers : \A r \in 1 .. LastFrame :
    /\ TestsCrc(SyncTestLevel) /\ r % period = 0
    /\ q \in humans[p] /\ frame_count[p] > r + process_frame_delay
    /\ WorldAt(p, r) # WorldAt(q, r)
    => sync_test_level[p] < 0

\* Peers who lost nobody save the game in the same frames.
SavesAgree ==
  \A p, q \in Peers : humans[p] = Peers /\ humans[q] = Peers =>
    \A f \in saved[p] : f <= frame_count[q] => f \in saved[q]

\* A request to save is never too late: its frame is still to come, so that it
\* is done and the next request will be heard.
SaveStillToCome ==
  \A p \in Peers : mp_save_flag[p] => mp_save_frame[p] > frame_count[p]
=============================================================================
