# Seven Kingdoms: Ambition — TLA+ models of the multiplayer core and of the nations' dealings

*Seven Kingdoms: Ambition* is a real-time strategy game in C++. In a
multiplayer game there is no server that owns the world. Every peer simulates
the whole game; the peers exchange only the players' commands, and agree on the
frame each command is executed in. Everything else (units, towns, AI, random
numbers) is deterministic. The game is right if every peer executes the same
commands in the same frames, and goes on. The code that provides this is small,
concurrent, and hard to test, and is what this project models first. On top of
it come two parts of the simulated world in which state is spread over several
records and acted upon later: the action queue of the AI nations and diplomacy.

All paths are relative to the repository. Modules, configurations and
`PROJECT.json` (which definition models which lines) are in this directory.

## 1. Inventory

### The multiplayer stack, from the bottom up

| part | code | state | operations |
|---|---|---|---|
| session, transport | `src/src/enet/multiplayer.cpp` | ENet host and the `PlayerDesc` of each peer, player pool, pending players, session flags | `send`, `receive`, `join_session`, `add_player`, `auth_player`, `delete_player`, discover |
| **error control** | `src/src/OERRCTRL.cpp`, `src/include/OERRCTRL.h` | send queue of 18 frames with acknowledgement flags, receive window and flags per sender, receive queue of 72 packets, `dp_id` | `send`, `yield` (receive, acknowledge, retransmit, drop lost players), `receive`/`de_recv_queue` |
| **remote queues** | `src/src/OREMOTE.cpp`, `OREMOTE2.cpp`, `OREMOTEQ.cpp`, `OVQUEUE.cpp` | the queue being filled and its tag, 18 receive queues for the frames to come, backup queues | `new_send_queue_msg`, `send_queue_now`, `append_send_to_receive`, `poll_msg`, `process_receive_queue`, `process_specific_msg`, `init_send_queue`, `init_receive_queue` |
| **lockstep loop** | `src/src/OSYS.cpp` (`main_loop`, `is_mp_sync`), `OSYS2.cpp` (`process`) | `frame_count`, `remote_send_success_flag`, each nation's `next_frame_ready` and `nation_type`, speed, pending save | one turn of the loop: poll, synchronise, execute commands, simulate |
| game setup | `src/src/OGAMEMP.cpp` | registered players with colour, race and ready flag, options, seed, frame delay | register, choose, ready, start, wait for the others, leave |
| game speed | `src/src/OSYS.cpp` (`set_speed`), `OREMOTE2.cpp` (`send_free_msg`) | `config.frame_speed`, `last_frame_speed` | change, pause and continue, by a message outside the queues |
| commands | `src/src/OREMOTEM.cpp` | none | one handler per message |
| synchronisation check | `src/src/OCRC_STO.cpp`, `OMP_CRC.cpp`, `tell_random_seed` | the check numbers of the last recorded frame, the last seed seen | record, send, compare |
| replay | `src/src/ReplayFile.cpp` | the file | append the executed queue, play it back |

How they interact. `main_loop` calls `poll_msg`, which calls
`ErrorControl::yield` and takes the packets it accepted. Then `is_mp_sync`:
when the player's turn comes it closes `send_queue[0]`, files a copy in its own
receive queue and broadcasts it through `ErrorControl::send`, which may refuse
it; it looks for the headers of the current frame; and when no remote human
player is missing it executes the commands, after which `Sys::process`
simulates the frame. All of this is one thread per peer; the concurrency is
between peers and the network.

What is hard. Packets are ENet *unsequenced* datagrams: lost, duplicated,
reordered. Frame ids are cyclic and reused. A broadcast is refused while half
the send queue is outstanding, in the middle of `is_mp_sync`. Peers are up to
several frames apart. Connections fail, and each side notices for itself.

What makes each part correct. *Error control*: every message handed up exactly
once to each peer that stays; nothing acknowledged that was not accepted; the
queue never stuck. *Remote queues, lockstep*: same commands in the same frame
everywhere; each command once and in order; no queue discarded; everybody takes
the same players for human; the game goes on. *Session, setup*: everybody
is connected with everybody, under the right id, and all who start have the same
players in the same order. *Speed*: all peers come to the same speed, and no pause
is for ever.
*Synchronisation check*: compares values of the same frame,
notices every difference, and raises no false alarm; all save in the same frame. *Replay*: executes
in each frame what the game did.

### The simulated world

Of these parts diplomacy and the AI's action queue are modelled; to the modules of
the multiplayer stack a command is opaque.

| part | code | what to check |
|---|---|---|
| object arrays | `ODYNARR*.cpp`, `OUNITA.cpp`, `OFIRMA.cpp` | a record number refers to one live object; reuse only when nobody holds it |
| units | `OUNIT*.cpp`, `OSPATH.cpp` | mode, place and back references of a unit agree |
| towns, firms, workers | `OTOWN*.cpp`, `OFIRM*.cpp`, `OF_*.cpp` | population counters by race equal the people that exist; worker and home agree |
| spies | `OSPY*.cpp` | the spy's place and the spy number stored there agree |
| trade, ships | `OU_CARA*.cpp`, `OF_MARK*.cpp`, `OU_MARI*.cpp`, `OF_HARB*.cpp` | stops refer to live firms; goods are conserved; loading and unloading |
| nations, diplomacy | `ONATION*.cpp`, `OTALKRES.cpp` | relations symmetric; an offer answered at most once |
| AI action queue | `OAI_ACT*.cpp` | an action is freed when, and only when, all its parts ended |
| rebels, world, saved games | `OREBEL.cpp`, `OWORLD.cpp`, `OGF*.cpp` | — |
| extensions of the fork | `ambition/*.cc` | where they touch the above |
| presentation | graphics, sound, menus, news, locale | pure input and output, not modelled |

## 2. Modules

| module | models |
|---|---|
| `Setup` | the session layer and the lobby, up to the start of the game |
| `SetupProofs` | the theorems about `Setup` |
| `ErrorControl` | `ErrorControl` on an unreliable network |
| `ReliableCast` | what `ErrorControl` promises to `Remote`: the abstract broadcast |
| `ErrorControlProofs` | the theorems about `ErrorControl` |
| `Lockstep` | `Remote`'s queues and `is_mp_sync`, on top of `ReliableCast` |
| `LockstepProofs` | the theorems about `Lockstep`, and that it implements `FrameCast` |
| `FrameCast` | what the lockstep promises to the commands: every queue is executed, complete, by all, a fixed number of frames after it was closed |
| `SyncCheck` | seeds, check numbers and saving, on top of `FrameCast` |
| `SyncCheckProofs` | the theorems about `SyncCheck` |
| `GameSpeed` | the speed of the game and its pause |
| `GameSpeedProofs` | the theorems about `GameSpeed` |
| `ActionQueue` | the action queue of the AI nations |
| `ActionQueueProofs` | the theorems about `ActionQueue` |
| `Diplomacy` | messages between nations, replies, relations and treaties |
| `DiplomacyProofs` | the theorems about `Diplomacy` |
| `FoldProofs` | lemmas on folds over finite sets and sequences, least and largest numbers, used by the proofs |
| `MC...` | instances for TLC: model values, constraints, symmetry |

The multiplayer stack composes by its two abstract specifications.
`ErrorControl` is shown to implement `ReliableCast` (`ImplementsReliableCast`,
checked and proved); `Lockstep` takes `ReliableCast`'s steps `Broadcast`,
`Deliver`, `Poll` and `LosePlayers` as its network, and is shown to implement
`FrameCast` (`ImplementsFrameCast`, checked and proved); `SyncCheck` takes `FrameCast`'s
steps. `Diplomacy` uses the same promise in its simplest form: since all peers
execute the same commands in the same frames, one copy of the world and one
sequence `wire` of commands on their way are enough.

A definition `X_Y` beside a definition `X` is `X` with a plausible mistake `Y`. No
specification uses it; `PROJECT.json` ("mutants") says which property notices it.

### ErrorControl

Variables carry the names of the members: `send_head`, `send_tail`, `ack_flag`,
`dp_id` (the set of peers with a nonzero entry), `wait_to_receive`, `recv_flag`,
`receive_queue`. `link` is the transport's view of who is connected and `net`
the datagrams in flight. `sent`, `freed`, `base`, `got` are history: they number
messages without wrapping around, so that properties can say *which* message a
frame id stands for. No guard of a handler reads them (except the bound
`MaxSend`).

| action | code |
|---|---|
| `Send` | `send`: refused unless half of the queue is free; clears the flags of the frame and broadcasts |
| `AcceptSend`, `DropSend`, `ReAckSend` | a data frame in `yield`: waited for; waited for but the receive queue is full; anything else |
| `ReceiveAck`, `ReceiveNegack`, `ReceiveCorrupted` | the other cases of `yield` |
| `Yield` | `yield` without a datagram: `set_player_lost`, retransmission |
| `Poll` | `receive` and `de_recv_queue` |
| `Lose`, `TransportLost` | the network |

Each receipt is a call of `yield` with one datagram and includes its end
(`clear_acked_frame`, `re_transmit` of any frames that are due). A datagram
stays in flight when it is received, which covers duplication; `net` is a set,
which covers reordering. Timers are abstracted: any outstanding frame may be
due at any time. A message is its ordinal; its contents do not matter.

One assumption is made about the network, `Lifetime`: a datagram about a frame
is gone once its sender has sent `Lifetime` ≤ `MAX_QUEUE`/2 later frames. Frame
ids are reused after `MAX_QUEUE` frames, so that without such a bound a stale
datagram is indistinguishable from a fresh one and no protocol of this kind is
correct. With 18 ids, one per game frame, this means that a datagram is not
delayed by nine frames' time and more while later ones get through.

### Lockstep

`frame_count`, `send_queue`, `remote_send_success_flag`, `receive_queue`,
`next_frame_ready` are the code's; `receive_queue[p][i]` is the queue for frame
`frame_count[p] + i` (`receive_frame_count[i]` always has that value), `ai[p]` the
nations whose `nation_type` peer `p` changed to `NATION_AI`. `broadcast`,
`issued`, `late`, `executed` are history; `broadcast` also serves as the contents
of messages, which `ReliableCast` knows by ordinal. A queue keeps apart the
commands before its trailer (`cmds`) and behind it (`after`).

| action | code |
|---|---|
| `Issue` | `new_send_queue_msg`: the player gives a command |
| `Accept` | `ErrorControl` accepts a packet |
| `PollMsg` | one round of the loop of `poll_msg` |
| `LosePlayers` | `set_player_lost` |
| `IsMpSync` | a call of `is_mp_sync` and, if it returns 1, `Sys::process` |

The four disjuncts of `IsMpSync`: the queue is sent; it is refused; a retry
succeeds; nothing is to be sent. `WaitForPlayers` is the path that returns 0
(with the AI taking over a lost nation) and `ProcessFrame` the one that
executes commands and moves on.

### Setup

`member[m]` is what a program keeps of itself: how far it is (`phase`: away,
joining, in the lobby, before a message box, setting up, playing, out),
`my_player_id`, colour, readiness, `regPlayerId`, the END_SETTING messages counted
and the list of nations. `peer[m][n]` is the `PlayerDesc` at the ENet peer for `n`,
`pending` the `pending_pool`, `lobby` what only the host keeps. `chan[a][b]` is the
ENet connection from `a` to `b`, reliable until `game_starting`; connecting and
disconnecting are events in it.

| action | code |
|---|---|
| `Join` | `join_session`, `connect_host` |
| `Receive` | one call of `MultiPlayer::receive` and the handling of what it returns (`Handled`), by `mp_join_session`, the lobby, the box that shows, or the final wait: `Connected`, `Disconnected`, `ClientHears`, `HostHears` |
| `ChooseColour`, `PressReady`, `PressStart` | the buttons |
| `Begin`, `TimeOut` | the end of the wait for END_SETTING |
| `Leave` | closing the session, with or without a farewell, or a lost program |

A client contacts the host and is anonymous; the host gives it the first id none of
its connections has, registers it, tells the others to contact it, and tells it whom
to expect. So what a player hears of another from the host and what it sees of the
connection itself are not ordered. An address is used by one program, once; peers
that ENet keeps in a dead slot with an old address are not modelled. Ready flags
that clients display, races, options and chat are left out. The wait of ten seconds
is abstracted to `TimeOut`: nothing more can come. A colour in `Init` may be any:
the colours are symmetric.

### SyncCheck

A peer's world is abstracted to the set of events that set it apart: players replaced
by the AI (`TakeOver`), and faults of its simulation (`Diverge`), each with its frame.
A seed or check number is a record of the frame and that set. `ProcessFrame` executes
the orders of the frame (`tell_random_seed`, `compare_remote_crc`,
`compare_remote_object`, `mp_request_save`), records the check numbers every
`process_frame_delay` + 3 frames, and saves if a save is due; what it sends goes into
the queue that is open. `CloseQueue` is the closing of the queue, which begins the next
one with the seed. A lost player is replaced after the peer's own queue of the frame has
been sent, as `is_mp_sync` does in one call, so that the seeds exchanged in a frame are
all from before the replacement. `save_game`, `Quit` are the player's, `SeedFollows` the
time a difference takes to reach the random numbers.

### GameSpeed

Each peer's `frame_speed` and `last_frame_speed`; `under_way` holds the messages.
`PlayerSetsSpeed` is a key and its broadcast, which may be refused; `Yield` obeys any of
the messages that have come, in any order; `FrameClearsQueue` is a frame that ends
with messages still in `receive_queue[0]`, which are then cleared.

### ActionQueue

`ai[n]` is a nation's `action_array` with its current record and `last_action_id`,
`unit` what matters of each unit: nation, `ai_action_id`, what it is doing and the ship
it is on, `train` the unit trained in a town, `busy` the call in progress. A pass of
`process_action` over the queue is a sequence of steps, one per record (`BeginPass`,
`PassStep`); handlers, reports (`action_finished`, `action_failure`) and the actions
they create are whole steps. Three kinds of handler stand for the rest: those that
send one skilled unit ("assign"), those that recruit people ("worker"), and the three
parts of a sea travel. A firm that has been given people in the meantime needs fewer than
were asked for: the handler then lowers `instance_count` of the queued action to the
places left, but to one more than have been sent at least (`Needed`, `OAI_ACT2.cpp:258-262`).
When it begins to train somebody for a camp, it gives the action the try back that
`process_action` is about to take (`Recruits`, the result "training", `OAI_ACT2.cpp:286-302`); the
longer wait the handler sets is overwritten by `process_action` with the usual one. The
kind also covers settling and scouting, which do not lower the count. Its part for a unit named with
the action (`OAI_ACT2.cpp:273-274`) is left out, as no caller names one; so is `ai_assign_spy`,
whose unit holds no id, and which either is done at its first try or tries again without
end. The trainee of a town comes out when it is trained (`FinishTraining`), or becomes one of the people
again when nobody is left to train or another is trained instead (`CancelTraining`,
`OTOWNIF.cpp:2103-2131`, `OTOWN.cpp:3795`); without room around the town
`finish_train` returns and tries again, which is no step. A trainee the town takes while the action of
the one before is processed trains for no action, since `finish_train` then clears the
town's id of it (`Unassigned`). `BeginHandOver` and `HandOverStep` are the surrender of a nation to
another. Only the nations in `AINations` queue actions and pass over their queues, since
`process_ai` is called for `NATION_AI` alone (`ONATIONA.cpp:341`); units of every nation enter, board,
die, report and change hands. What the AI decides to queue is nondeterministic
(`QueueAssign`, `QueueWorkers`, `QueueGiven`, `QueueTravel`). Of the landing the default is
modelled, in which those who are ashore are also told where to go
(`fix_sea_travel_final_move`, `ConfigAdv.cpp:306`, `OAI_MAR2.cpp:209`): all of them, or, when a
camp is to be built, one (`SEA_ACTION_BUILD_CAMP`). Who finds no room on the coast stays aboard,
but is given the id and counted with the others. An idle unit with an id reports that it has
failed when it is next processed (`Stop`, `OUNITAI.cpp:102`). Days are scaled: the wait before a retry and the age at which an action
is overdue are 1, and ages saturate.

### Diplomacy

`nation[n]` has the relations, trade treaties and queued talk actions of a nation;
`talk` is `talk_msg_array` with its empty rooms, since the record number of a deleted
message is given to the next one; `truce` the pairs that ceased fire lately; `screen`
what a player's screen shows, a message to reply to or the third nations listed for a
request; `wire` the commands on their way.

| action | code |
|---|---|
| `PlayerSends` | a click on a message that needs nothing more (`TalkRes::detect_talk`) |
| `PlayerAsks`, `PlayerNames` | a request about a third nation: a click chooses the request and lists the nations, a later one names the nation and sends it |
| `OpenReply`, `PlayerReplies`, `LeaveReply` | the reply screen; leaving it, or the list |
| `Execute` | `RemoteMsg::send_talk_msg`, `reply_talk_msg` in the frame of the command |
| `ThinkDiplomacy` | an AI nation answers what is queued and may send a message |
| `Attack`, `Calm`, `Falls` | war, the end of hostility, the end of a nation |
| `NextPeriod` | days pass: messages expire, silence is taken for a rejection, old messages go |

The messages a player may send are refreshed every frame (`OTALKRES.cpp:940`), but the list
of third nations is not: it is what it was at the first click, and when the
nation is named only `can_send_msg` is asked again (`OTALKRES.cpp:776`), which does not look at it. So a
player may file a request about a nation that has fallen or made peace since. The screen
closes only when the nation talked to falls. An AI nation chooses its message and sends it in one
call. The limit of three waiting messages (`can_send_any_msg`) hides choices and stops nothing that is sent, so the model
has none.

The 30, 60 and 365 days are scaled to none, one and one period without a network and to
one, two and three with one, and at most one period ends while a command is on its way. A message in `wire` has room reserved in the
array. Cash, food, technology, reputation and the ratings an AI decides by are left out:
where they decide, both outcomes are possible.

## 3. Properties and runs

| run | instance | checks |
|---|---|---|
| `ec_safe` | 5 messages one way and 1 the other, 4 frame ids, window 2, receive queue 2 | `TypeOK`, `NoFalseAck`, `WindowsAgree`, `ReceiverTracksGaps`, `HeadIsAwaited`, `AtMostOnce`, `ImplementsReliableCast` |
| `ec_live` | 3 messages, fairness | `EventuallyFreed`, `EventuallyDelivered` |
| `ls_pair` | 2 players, delay 1, 4 receive queues, frames up to 4, a command each | `CommandsAgree`, `CommandsInOrder`, `ImplementsFrameCast` |
| `ls_alternating` | every second frame, delay 2, 5 receive queues, frames up to 8, fairness | `OneQueuePerFrame`, `NothingDiscarded`, `FramesAdvance` |
| `ls_rate2` | the game's own 5, 18, 9, 71; every second frame | `CommandsAgree` is **violated** |
| `sy_together` | 2 players, delay 2, frames up to 11, one trouble at a time | `SameFrameCompared`, `DivergenceNoticed`, `NoFalseAlarm`, `SavesAgree`, `SaveStillToCome` |
| `gs_toggle` | 3 players, 2 speeds and the pause, 4 changes, 3 under way | `PauseIsReversible`, `SameSpeed` |
| `aq_queue` | one unit of each kind, one town, landings that settle or build a camp, 2 actions at a time, 5 ids | `TypeOK`, `CountsInOrder`, `ReportersExist`, `NeverStuck`, `UnitsKeepTheirAction`, `PassSkipsNothing` |
| `dp_single` | a player and two AI nations, one mortal, no network | `RelationsAreMutual`, `NoTradeInWar`, `AlliesTrade`, `MessagesOfTheLiving`, `OnlyValidAccepted` |
| `dp_net` | a player and an AI nation in a network game, two commands on their way, fairness | `OnlyStrayRepliesHarm`, `AiGetsAnAnswer` |
| `dp_same` | a player and an AI nation | `SameMessageIsAccepted` is **violated** |
| `su_lobby` | a host, two players, room for a third who comes when one has left | `ColoursDistinct`, `PeersAreWhoTheyAre`, `LobbyIsComplete`, `SameGame`, `NobodyIsAhead` |

Every property of a passing run has a mutant that violates it.

`ErrorControl`. `NoFalseAck` is the heart. The receiver acknowledges *every* frame it
does not wait for, so if a frame that is still needed ever fell outside its window,
the sender would believe it arrived and the message would be gone. That this cannot
happen rests on `send` leaving half of the ids unused, the window being that half, and
the flags behind the window being cleared at the right time. At most three datagrams
are in flight (`FewInFlight`), enough for a message, a stale copy and an
acknowledgement to race; five messages go round the four ids and beyond. The theorems
below have none of these bounds.

`Lockstep`. The small instances keep the relations between the real constants:
`RECEIVE_QUEUE_BACKUP` is twice the delay plus two (18 for a delay of at most 8), and a
player can have one queue more outstanding than the delay. A delay of 1 already makes
every queue cross the ones of the next frame. That a peer is never more than the delay
and a frame ahead of one it waits for is part of `FrameCast` (a frame is ready when the
queues for it are closed). With alternating players five receive queues are just
enough for a delay of 2, and the mutant with fewer discards a queue.

`SyncCheck`. Eleven frames are two periods of recording and a delay. The troubles
(`OneTrouble`: a fault, players leaving, requests to save) do not come together, because
a difference already signalled changes what the later ones can show. What was
recorded, was sent, and is compared must be of one frame although seeds come through
two variables that keep the last one seen and the recorded check numbers are replaced
every few frames. `NoFalseAlarm` names the frame: an error needs two players whose
orders the peer executed in one frame and whose worlds did differ when they gave them.
A player who is lost does not excuse an alarm: all who stay replace it in the same frame,
after the seeds of that frame have been sent. Were a replacement possible before, the
seeds would differ without a difference of the worlds, as TLC shows with three peers when
the guard of `TakeOver` is left out.

`GameSpeed`. With three players a message can overtake another on one way and not on
the other. `SameSpeed` is about changes made one after the other (`orderly`): it is not
trivial, since each peer continues from the speed it remembers itself.

`ActionQueue`. One unit of each kind can serve two actions in turn, which is how
stale ids and counts would show (two of the people who sail to build a camp, of whom one
is sent, were checked besides); the second nation is a player's (it is not in `AINations`),
and the first may surrender to it. With one general nobody is trained next while the trainee's action is
processed; the theorems cover that. Up to two people are asked for, so the number is
lowered before the first is sent. `CountsInOrder` is the code's own
`err_when`. `UnitsKeepTheirAction` leaves out who is aboard a ship: with three tries and ids up to
9 TLC finds a landing that keeps its place in the queue after another has landed its
passengers; when the ship sails again, with others, it takes these for its own, those who find
no room get its id, and the landing they belong to, whose record is still there, then gives
them another. The counts survive this, as `CountsInOrder` and the others say.

`Diplomacy`. The run without a network has a third nation, about whom requests are made
and who may fall, also between the two clicks of the player; the run with one has everything that can happen between a decision
and its execution. In the first, deciding and applying are one step, so
`OnlyValidAccepted` and `NoTradeInWar` can be expected to hold; in a network game they do
not (see below). `MessagesOfTheLiving` says that no message is from or to a nation that fell, and that
one about such a nation is a request of a player that was filed after the fall: it waits,
nobody ever answers it, and it goes when it is too old. What a network game keeps is stated as an action property: as long as
every AI nation's queued messages wait for it and allies trade, no step ends that but a
*stray reply*. A reply carries a record number; when the message was deleted while the
reply was on its way and its number given to another one, `RemoteMsg::reply_talk_msg`
finds a message there, and only debug assertions of `TalkRes::reply_talk_msg` ask whether
it is the right one (`OREMOTEM.cpp:2796`, `OTALKRES.cpp:874`). With three records and two
commands on their way TLC finds such a reply answer a message that an AI nation still has
queued, with four one that ends the trade of allies: a player accepts a proposal of trade
that the AI withdraws, having accepted the player's own, and the notice of an ended treaty
gets the number. `OnlyStrayRepliesHarm` says that nothing else does: not a deletion, a
number given out again, an embargo, or a message that comes late. The run has two records,
which are enough to reuse a number; three were checked besides.

`Setup`. One player stays from first to last, one may change its mind and leave at any
moment, and a third comes after it, gets the id the second had, or, when the host does
not know of the leaving yet, another, or is refused (`Visits`). The one who stays is
the one who could be confused. Three colours are as few as the players need, so that
a colour lost is a colour missing. The theorems below have none of these limits.

### What the violations show

1. `ls_rate2`. With the synchronisation checks switched off in the configuration
   (`remote_compare_random_seed`, `remote_compare_object_crc`) each of *n* ≤ 4 players
   sends every *n*-th frame. The header of the first queue is written before
   frame 1 with the tag `next_send_frame(1 + 5)`, that of the next one after a queue
   was sent with `next_send_frame(frame + 1 + 5)`. With two players, the first
   player's queues sent in frames 1 and 3 both have tag 7. Only the first queue of
   a nation in a frame is executed, so commands are dropped, and which ones
   depends on the order of arrival. `ls_alternating` shows that a delay that is a
   multiple of the rate avoids it. By default the checks are on and the rate is 1.
2. `dp_same`. `has_sent_same_msg` looks for a message of the nation to itself instead
   of one to the sender, so that an AI nation may reject what it has proposed itself.

### Deviations met while modelling, without a run of their own

Each is in the model, and is either excluded by name in the property it touches or
lies outside the properties; `PROJECT.json` ("hazards", notes) says which.

- A command given while a refused broadcast is retried goes behind the trailer and is
  never executed (`OSYS.cpp:1370`; `late`). `CommandsInOrder` shows that no other is lost.
- A lost player's last queue may reach one peer and not another; the peers then
  replace it by the AI in different frames and play different games (`OSYS.cpp:1440`).
- The message of a player who quits is never sent (`OINGMENU.cpp:281`).
- Two players who toggle the pause at once can end at different speeds, and so can a
  change that is refused or cleared (`OSYS.cpp:2656`, `OREMOTE2.cpp:317`).
- `add_action` gives an action for a given unit its single try again, so that it may
  take a general who serves another action meanwhile (`OAI_ACT.cpp:369`); a ship that
  has reported and then sinks is counted twice (`:572`); a unit that changes nation
  keeps the action id of the old one, and its report may be counted by an action of the
  new nation with that id (`OUNIT.cpp:1556`).
- In a network game a reply is applied although the message is no longer valid, or was
  answered already, or its number has been given to another message; the limit of
  waiting messages is kept on the sender's screen only; a message to a nation that has
  fallen meanwhile is filed (`OREMOTEM.cpp:2796`, `ODYNARRB.cpp:117`, `OTALKRES.cpp:765`,
  `:926`, `:1038`).
- Also without a network a player may file a request about a nation that fell after it was
  listed; it is never answered (`OTALKRES.cpp:1100`).
- Starting a game while two clients are still connecting with each other makes them
  wait ten seconds and report errors although there were none (`OGAMEMP.cpp:4234`).

### Fairness

`ErrorControl`: `main_loop` calls `poll_msg`, hence `yield`, in every turn and time
passes, so lost players are noticed, the oldest frame is resent until
acknowledged and received packets are polled (weak fairness of `Yield` with an
effect, `ResendHead`, `Poll`). The network may lose any number of datagrams but
not every copy of one resent for ever (strong fairness of the receipt of the
oldest frame and of its acknowledgement; nothing is assumed of the others).
ENet times out on both sides, so a connection one side gave up is given up by
the other. `Lockstep`: polling and `is_mp_sync` likewise; packets are accepted
as `EventuallyDelivered` says; a broadcast that is tried again and again is not
refused for ever, as `EventuallyFreed` says, hence strong fairness of an
`is_mp_sync` that is not refused. `Diplomacy`: commands are executed (weak fairness of
`Execute`) and an AI nation processes its queue, because frames advance; days pass
(strong fairness of `NextPeriod`, which a command on its way may disable for a
moment). Nothing is assumed of players. The other modules state no liveness.

## 4. What is proved

`ErrorControlProofs` proves, for any set of peers, any even `MAX_QUEUE` ≥ 4, any
receive queue, any number of messages and datagrams, from `ECAssumption` alone:

| theorem | states |
|---|---|
| `InductiveInvariant` | `IInv` holds |
| `TypeCorrect` | `TypeOK` |
| `AcknowledgementsAreHonest` | `NoFalseAck` |
| `WindowsAlwaysAgree` | `WindowsAgree` |
| `ReceiversTrackGaps` | `ReceiverTracksGaps` |
| `HandedUpAtMostOnce` | `AtMostOnce` |
| `HeadAlwaysAwaited` | `HeadIsAwaited` |
| `ErrorControlImplements` | `ImplementsReliableCast` |

The argument. None of the safety properties is inductive alone. `IInv` joins them
with `SenderInv` (head and tail are the ids of the ordinals `freed` and `sent`, at
most a window apart), `GotInv` (what was accepted lies below the end of the
receiver's window and was sent) and `NetInv`: a data frame or acknowledgement in
flight carries the id of a recent ordinal, a data frame lies below the end of the
receiver's window, an acknowledgement is honest. The step lemmas follow the
actions. What makes them work are the lemmas on cyclic ids: two ordinals less
than `MAX_QUEUE` apart with the same id are equal (`FrameIdUnique`), and hence "is
between `low` and `high`" on ids is "is between" on ordinals (`BetweenFrameIds`,
`OrdinalOfFrame`); that is where the half-queue limit, the window and `Lifetime` are
used. `WindowsAgree` follows from `IInv`. The refinement adds the bound on the
receive queue (`QueueInv`); an accepted frame is a `Deliver` because it lies in the
window whose lower end is the first gap (`AcceptIsDeliver`).

`HeadIsAwaited` needs no ids: `yield` ends by freeing frames until it meets one that
somebody who counts has not acknowledged, and the other steps only take
acknowledgements away or send to everybody who counts.

`LockstepProofs` proves, from `LockstepAssumption` and for any number of players, any
delay, any bounds on frames and commands, and whatever ErrorControl's sizes, when every
player sends in every frame (`alternating_send_rate` = 1, the default):

| theorem | states |
|---|---|
| `LockstepInvariant` | `LInv` holds |
| `CopiesAgree` | `CommandsAgree` |
| `NoSecondQueue` | `OneQueuePerFrame` |
| `EveryQueueFindsItsPlace` | `NothingDiscarded`, if `RECEIVE_QUEUE_BACKUP` ≥ 2 · `process_frame_delay` + 2 |

The argument. `CommandsAgree` speaks of two peers who never look at each other; what
they have in common is what the nation in question broadcast. So `LInv` says of every
place where a queue is kept, and of what was executed, that it is the broadcast of the
right ordinal: the queue with tag *f* is number *f* − `process_frame_delay`
(`BroadcastInv`, `SlotsInv`, `ExecutedInv`; `Matches`). A nation's own queue is filed
before it is broadcast, and while a broadcast is refused it is in the receive queues of
its own peer alone; `OwnQueue` ties that copy to the queue being sent, which is sound
because commands given meanwhile go behind the trailer. A peer executes something of
every nation it takes for human because a nation is marked ready only when its
queue is there (`ReadyInv`). That `ExecutedOf` picks the first queue of a nation needs
that a set of numbers has a least one (`Least`), which is the well-foundedness of < in
the library. At other rates the invariant is false, as `ls_rate2` shows.

`EveryQueueFindsItsPlace` adds `DInv`: what a peer took in is exactly once either not
polled yet, in a receive queue or past (`TakenInv`, `UnpolledInv`), so a message that
comes is never about a frame that is over; and whoever is taken for human now was so
in every frame before (`HumansInv`), so its last queue executed bounds how far behind it
can be (`Ahead`). A queue is then at most 2 · `process_frame_delay` + 1 frames ahead. The
code's definition, (`MAX_PROCESS_FRAME_DELAY` + 1) · 2, is exactly one more, and TLC
finds a queue discarded with one receive queue less.

The second half of `LockstepProofs` proves, under the same assumption on the rate and for all constants:

| theorem | states |
|---|---|
| `LockstepIsAFrameCast` | `ImplementsFrameCast` |
| `CommandsStayInOrder` | `CommandsInOrder` |

The argument. `FrameCast` has, of each player, the queues closed so far and the one open.
In the code these are what was broadcast, the queue in `send_queue`, and, while a broadcast
is refused, a queue that is closed already although it is still in `send_queue`
(`QueueFor`, `OpenQueue`, `LastClosed` of the refinement). `QueueForMatches` says, from
`LInv`, that what a peer executes of a nation in a frame is what that nation closed for
it. A call of `is_mp_sync` is then a closing or none (`Closing`), followed by a frame, a
replacement or a wait (`Going`, `Staying`), which is one step of `FrameCast` (`Turn`) or
none. `CommandsInOrder` needs the commands of all queues closed and open, in their order,
to be exactly those given in time (`CommandsInv`, `InOrder`). Both used to be computed by
folds over sequences of queues; they are stated by first-order formulas, so that one
closing or one command is one step of the proof.

`SyncCheckProofs` proves, from `SyncAssumption`, for any number of players, any delay, any
test level, any number of faults and requests, all properties of the run but one:

| theorem | states |
|---|---|
| `CheckInvariant` | `IInv` holds |
| `ComparisonsFit` | `SameFrameCompared` |
| `AlarmsAreTrue` | `NoFalseAlarm` |
| `SavesComeInTime` | `SaveStillToCome` |
| `AllSaveAlike` | `SavesAgree` |

The argument. Orders are executed *process_frame_delay* frames after they were given, and
the properties relate the two moments. `QueueInv` says of every queue, sent or open, what
its messages say of the frame it was filled in: a seed comes first and nowhere else, and, unless
the simulation was at fault, is that of the world in the frame it names; check numbers are
those of the world of the frame they name; details name the frame of a dispute; a save is
asked for a frame that is still to come when the order is executed. `Onward` keeps that true: worlds grow only by
events of the present frame and sent queues do not change. Seeds are compared through
`lastNation`, which starts a new comparison when a number is not larger than the last one;
`FramesInv` gives that the last nation of a frame has the largest number, so that the first
queue of each frame starts one. Check numbers are compared with the record a peer holds *now*:
`CrcInv` says that the record is of the last multiple of the period `process_frame_delay`
+ 3 before the present frame, and that it was sent; check numbers that arrive name a
multiple of the period too, and lie one delay back, so the two are the same: a
period longer than the delay is what makes it work, and the mutant `RecordsCrc_EveryFrame`
breaks it. A record is kept up only while testing goes on, and one peer may stop before
another: `DisputeInv` says that, as long as nobody is lost, a peer stops at the *first*
frame in whose check numbers any two differ (`FirstDispute`), which is a fact about queues
and so the same for all. `AlarmInv` is `NoFalseAlarm` with the frame named. The folds over
queues and over the nations in their order are unrolled once (`QueueRun`, `OrdersRun`) and
summed up in `OrdersEffect`. `AllSaveAlike` has an invariant of its own: `CourseInv` says
that there is *one* course of saves (for which frames one is pending, which frame it
is for, in which frames the game is saved), known up to the frame the fastest peer is in, which all
who lost nobody follow; the first peer to enter a frame extends it, and the others find that the same
orders take them along it (`OrdersAlike`).

`GameSpeedProofs` proves, for any peers, speeds and number of changes:

| theorem | states |
|---|---|
| `SpeedInvariant` | `IInv` holds |
| `PausesAreReversible` | `PauseIsReversible` |
| `SpeedsAgree` | `SameSpeed` |

The argument. `IInv` adds to the types and `PauseIsReversible` that, as long as changes were made
in turns, at most one is under way and each peer has either heard of it or not
(`TakingTurns`, `OneChange`): obeying the speed broadcast takes a peer from the old pair
of speeds to the new one. A poll obeys any set of messages in any order, a fold over that
order (`ObeyingTable`).

`DiplomacyProofs` proves, for any nations, messages, times and limits:

| theorem | states | where |
|---|---|---|
| `SoundInvariant` | `IInv` holds | |
| `MutualRelations` | `RelationsAreMutual` | in every game |
| `TradeEndsWithWar` | `NoTradeInWar` | `Enhanced`, no network |
| `AlliesKeepTrading` | `AlliesTrade` | `Enhanced`, no network |
| `NoMessagesOfTheDead` | `MessagesOfTheLiving` | `Enhanced`, no network |

The argument. The operators of `Diplomacy` take a world to a world, or to the set of worlds
it may become, and call each other deeply. So the invariant is a property of worlds
(sound: typed, mutual, and, where it can be, allies trading, enemies not, no message from or
to the dead, and none about them but the unanswered requests of players), and there is one lemma per operator that it keeps it, up from `set_trade_treaty` to
`process_talk_msg`; each step of the specification then replaces a sound world by a
sound one. The hypotheses of the theorems are constants of the model and each is needed:
without the enhancements, or on the network, a reply is applied without asking whether the
message is still valid, and TLC finds a treaty of trade concluded in a war. `AlliesTrade`
needs more than itself: a notice that ends trade is harmless only because it is applied
in the step that sends it, or is deleted with what it is about.

`ActionQueueProofs` proves, for any nations, units, limits and actions, and also, unlike
the run, when several nations queue actions and surrender to each other:

| theorem | states |
|---|---|
| `ActionQueueInvariant` | `Inv` holds |
| `QueueTypes` | `TypeOK` |
| `EveryActionExamined` | `PassSkipsNothing` |
| `CountsStayInOrder` | `CountsInOrder`, with one nation of the AI |
| `ReportersAreThere` | `ReportersExist`, with one nation of the AI |
| `ActionsCanLeave` | `NeverStuck`, with one nation of the AI |
| `UnitsAreKept` | `UnitsKeepTheirAction`, with one nation of the AI |
| `ActionsInOrder` | the first three, with any number, if `NothingCarriedOver` |
| `UnitsAreNotTakenOver` | the last, with any number, if `NothingCarriedOver` |

The argument. Every operator of `ActionQueue` takes a world to the worlds it may become, so
here too there is one lemma for each, up from deleting or rewriting one record (`Deleted`,
`Rewritten`, `LinkedIs`) and giving orders to units (`OrderedIs`, `DoingIs`) to the handlers
(`HandleIs`), the processing of a record (`ProcessOneIs`) and reports (`FinishedIs`). Three
facts have to be carried along. Records in a queue have different ids, all given
out, so that the id of a new one is free, and get_action_based_on_id finds the record
meant. Who has entered a place works for no action (`Within`), so that nobody is called
away from its training: a report comes only from who has an action, and during a report
nobody enters a place or begins its training (`Inward`). And processing a record leaves
the ids of the queue as they were, or takes out exactly the one processed (`Processed`), which is what makes a pass
examine every record. Ids are natural numbers in the model; what the 16 bits of the
program do to the 65536th is in the list of hazards.

That the counts of an action stay in order is about the units behind them, so it needs an
invariant that relates the two: `IInv` adds to `Inv`, for every nation of the AI, `Works`. Of each
record of its queue `RecordOK` says that the counts are ordered as far as they can be for its kind
(`CountOK`), that no more units can still report to it than it has instances
outstanding (`UpperOK`: so no report comes too often), and, while the nation has not begun
to surrender, that no fewer can (`LowerOK`: so no report is waited for in vain). Lowering the number
of people asked for keeps both (`Needed` never goes below one more than have been sent; without
that TLC finds `CountsInOrder` violated). The first is not
said of the boarding part of a sea travel, whose ship keeps the id of the action it has
reported to and may be stopped and report again; what has to be known there is that the ship
still waits (`ShipOK`), and that the record is deleted as soon as it is over (`Undone`). The second is said only of actions that call
people, not generals (who can be called away by another action), and not of a landing, some of whose
passengers another landing may have taken over. `KindOK` says that generals are only assigned and
that those aboard who work wait to land. Who can report to a record is told by the id alone, so
`Works` also says that every id a unit of the nation holds has been given out (`IdsOK`).

There is then a lemma for each operator again: processing a record, linking a new one, and a
report with the action that follows it (`Acted`) keep `Works` for the nation
they are about; for every other nation of the AI they are `Quiet`: its units stay its own, keep their
ids, and die only by dying. Steps of different calls have in common that they lead to a world in which
`Works` holds for the nation and the rest is quiet (`StepOf`), which can be chained; a surrender
loosens the invariant of the nation that gives up (`LowerOK` is dropped, and units it
has handed over count as its own), and its last step empties the queue.

What a hand over brings to the other nation is the limit of this. `Unit::change_nation` calls `stop2`,
which reports to the action of the old nation, and a ship that waits to be boarded keeps its
`ai_action_id` then (OAI_ACT.cpp:569-584). In its new nation this number is that of another action, and when the ship
sinks it reports to that one, against the `err_when` at OAI_ACT.cpp:605: with two
nations of the AI TLC finds `CountsInOrder` violated. `NothingCarriedOver` says that a step of
a hand over to a nation of the AI leaves every unit of that nation the id it had, and those that
come to it none. With one nation of the AI that is no assumption
(`OneAI`): what hands over to it has an empty queue, so that each report finds no action and only stops the unit.

`UnitsKeepTheirAction` is proved from the same invariant: `Keeps` says of a world and a
later one that no unit of the people and no ship, unless aboard, has another id while the record of its
own is still queued. Handlers called for a record call nobody who is at work (`ProcessOneLeaves`,
`LinkLeaves`), except the ship and the passengers of the sea travel whose next part a report
queues; and there the record they work for is the one removed at the end of the same
report (`NextKeeps`).

`SetupProofs` proves, for any clients, colours, number of nations and choices, clients who
come and leave at any moment:

| theorem | states |
|---|---|
| `SetupInvariant` | `Inv` holds |
| `SetupTypes` | the type of the state and of every message |
| `LobbyIsSound` | `ColoursDistinct` |
| `OneGameForAll` | `SameGame` |
| `NobodyLeftBehind` | `NobodyIsAhead` |

The argument. That all who set up the game have ids of their own is about what players
believe of themselves, long after the host gave the ids out, and while ids of players who left
are given out again. So `IInv` says of every id that a client has *or will hear is its
own* (`HasId`) that no other client has it (`IdsOK`), and, as long as the host is in the
lobby, that the host is connected with this client under it (`ClientsOK`). The host gives
out an id none of its connections has, so none a client has or will hear of; a connection,
and with it the id, is given up only for a client that has left, because in the lobby
nobody else disconnects from the host. The id the host gave a
connection is registered when the newcomer asks to be let in, which it does once
(`NewcomersOK`), so nobody is registered twice and `Forgotten`, which takes the first entry,
takes the only one (`HostOK`, `RegistryOK`); that is also what `ColoursDistinct` rests on
(`ColoursOK`). The host begins; from then on there is one list of nations, with all who set up
the game and in every START_GAME under way (`GameOK`), and a client takes part only if its id
is in that list. Of the rest the invariant says that clients know the host as player 1
(`HostIsOne`): a client that took the host for another would disconnect from it when that
player leaves. One lemma for each handler says that it turns a world with the invariant into
one, and most of them rest on a few that say which changes are harmless: messages put in
channels or taken out (`Calm`), a client's own state and what it knows of others (`ClientMoves`),
the host's own (`HostMoves`).

`NobodyIsAhead` rests on a count: a member plays when it has counted as many END_SETTING
messages as there are others on its list of nations, and the message does not say whose it is.
So the proof carries along, beside `IInv`, a plan (`OnCourse`): the list the host began with,
the id everybody had or was to hear of then, and who has said since that it has set up the game.
From the press of START on the world follows it (`Follows`): only members of the list say so,
each sends it once and no channel carries it twice (`WaysOK`), and a member has counted no more
than those it does not hear of any more (`HeardOf`). Ids are one member's, so when a member has
counted one less than the list is long, all others on the list have said so (`AllHaveSetUp`);
and who is set up stays so unless it leaves. What has to be true in the lobby for the plan to be
a true one is `WaitOK`: a client that is registered as ready knows its id already, so no
PLAYER_ID is on its way to anybody the host starts with, and the game a client sets up has the
client in it. It is the plan that is exchanged when the host begins (`PlanFollowed`) or a member
sets up (`SetUpGoes`); all other steps leave it, and most of them are found by one lemma to do
so (`MuteKeeps`), because the messages they send give nobody an id and report nobody set up, and
they change nothing in a member that the plan speaks of (`Mute`). The count says nothing of a
member that begins because nothing came for ten seconds: there the theorem rests on the guard of
`TimeOut`, that ten seconds are enough for those on the list who are still there to leave the
lobby.

The folds. tlapm cannot use an induction theorem that takes an operator, so what a fold of the
community modules computes cannot be proved by induction on it. But the folds are defined by
`CHOOSE` over tables of all partial results: `FoldProofs` proves, from the well-foundedness of
< on the sizes of sets, that there is such a table (`OneByOne`, `FoldTable`), and what
the steps along it keep (`WalkStays`, `StepByStep`); the operation folded is a table
itself, so that no lemma has an operator for a parameter. Sequences are folded from their
last place (`LargestOf`).

Only model-checked:

- liveness (`EventuallyFreed`, `EventuallyDelivered`, `FramesAdvance`,
  `AiGetsAnAnswer`), which is out of the prover's reach;
- the lockstep at other rates;
- `DivergenceNoticed`, which holds for two players with one trouble at a time, as the run
  has it, and not in general: with three players, a fault and a loss, a peer may be told of
  a difference by a player it then replaces;
- `OnlyValidAccepted` and `OnlyStrayRepliesHarm`, which need to know of every record
  number where it came from;
- of `Setup`: `PeersAreWhoTheyAre` and `LobbyIsComplete`, which need the whole history of
  introductions under way.

## 5. What is not modelled

- Of `ErrorControl`: the branch of `send` for a single receiver, which nothing in
  the game uses; the contents of packets (that `crc8` detects corruption is
  assumed); the ages in milliseconds.
- Of `Remote` and `is_mp_sync`: the byte layout of queues; destroyed nations and
  observers; the backup queues and `MSG_REQUEST_RESEND`, whose callers are commented
  out; the time between frames.
- Of the session: finding sessions, the service provider, NAT punching; and the
  loading of a saved network game, whose lobby is the same without the choices. What
  members who already play still receive of the lobby is not followed further.
- Of a landing: `unit_array.settle` and `assign` first stop each unit (`stop2`), so a unit that
  stayed aboard at an earlier landing reports a failure to that action before it is
  given the new id, in the middle of the handler; the report may even delete the record of the
  earlier landing while `process_action` holds a pointer to its own. The model gives the unit the new id and leaves
  the report out. It takes two landings queued for one ship (see `UnitsKeepTheirAction` above).
- Of the AI: what it decides to do. The ratings and preferences are arithmetic on the
  whole world, without a protocol to check.
- The simulated world besides (units, towns, firms, spies, trade, ships, rebels, map):
  sequential code over large numerical state. By far most of the 250,000 lines of the
  program are this, vendored libraries, and presentation, which is why the part that
  is mapped is small: movement, path search, combat, drawing and sound have no
  behaviour of the kind checked here, and to translate them would be to copy them.
- Replay and saved games: reading and writing in a fixed order.

## 6. Plan

Done: `ErrorControl`, `Lockstep`, `SyncCheck`, `GameSpeed`, `Diplomacy` and `Setup` with their
abstract specifications and proofs; `ActionQueue` with the proofs of all its properties. Next:

1. Of `Setup`, `PeersAreWhoTheyAre`, with an invariant about the introductions under way.
2. The redundant counters and references of the simulated world: `Spy` (place of the spy
   and the number stored there), `Town` with firms and workers, `Caravan`.
3. Observers in `Lockstep`: nations that are destroyed while their player watches.
